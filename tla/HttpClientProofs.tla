-------------------------- MODULE HttpClientProofs --------------------------
(***************************************************************************)
(* Theorems about HttpClient for any limits, times and servers: how many    *)
(* requests go out, that each was checked, that retries and verdicts follow *)
(* from what failed, and, with DomainUtilsProofs, that all the ways to      *)
(* write a publisher's domain lead to one host, and that a request ends.    *)
(***************************************************************************)
EXTENDS HttpClient, DomainUtilsProofs, FiniteSetTheorems

-----------------------------------------------------------------------------
(* Classification                                                            *)

\* What can go wrong in a request, as it is thrown: an input with a status.
Failures == {<<"SsrfBlocked", 0>>, <<"NetworkError", 0>>, <<"InvalidUrl", 302>>,
             <<"Temporary", 302>>, <<"other", 0>>, <<"network", 0>>, <<"abort", 0>>,
             <<"ResponseTooLarge", 200>>, <<"Forbidden", 403>>, <<"NotFound", 404>>,
             <<"Permanent", 410>>, <<"RateLimited", 429>>, <<"Temporary", 503>>}

\* ... and what AdsTxtFetcher throws before and after it.
Rejections == {<<"InvalidDomain", 0>>, <<"InvalidContent", 200>>}

DefinitiveFailures == {<<"SsrfBlocked", 0>>, <<"InvalidUrl", 302>>, <<"ResponseTooLarge", 200>>,
                       <<"Forbidden", 403>>, <<"NotFound", 404>>, <<"Permanent", 410>>}

\* The five operators that decide, against a list of the outcomes.
LEMMA Verdicts ==
    ASSUME NEW e \in Failures \cup Rejections
    PROVE  /\ e[1] \in Codes \cup Natives /\ e[2] \in Statuses
           /\ isRetryableErrorCode(classifyHttpFailure(e[1], e[2]))
              <=> e \notin DefinitiveFailures \cup Rejections
           /\ shouldRetryHttpError(classifyHttpFailure(e[1], e[2]), e[2])
              <=> e \notin DefinitiveFailures \cup Rejections
<1>1. /\ NamedStatuses[403] = "Forbidden" /\ NamedStatuses[404] = "NotFound"
      /\ NamedStatuses[429] = "RateLimited" /\ DOMAIN NamedStatuses = {403, 404, 429}
    BY DEF NamedStatuses
<1>2. \/ e = <<"SsrfBlocked", 0>> \/ e = <<"NetworkError", 0>> \/ e = <<"InvalidUrl", 302>>
      \/ e = <<"Temporary", 302>> \/ e = <<"other", 0>> \/ e = <<"network", 0>>
      \/ e = <<"abort", 0>> \/ e = <<"ResponseTooLarge", 200>> \/ e = <<"Forbidden", 403>>
      \/ e = <<"NotFound", 404>> \/ e = <<"Permanent", 410>> \/ e = <<"RateLimited", 429>>
      \/ e = <<"Temporary", 503>> \/ e = <<"InvalidDomain", 0>> \/ e = <<"InvalidContent", 200>>
    BY DEF Failures, Rejections
<1>3. e[1] \in Codes \cup Natives /\ e[2] \in Statuses
    BY <1>2 DEF Codes, Natives, Statuses, NoStatus
<1>4. classifyHttpFailure(e[1], e[2]) =
        CASE e = <<"SsrfBlocked", 0>> -> "SsrfBlocked"
          [] e = <<"NetworkError", 0>> -> "NetworkError"
          [] e = <<"InvalidUrl", 302>> -> "InvalidUrl"
          [] e = <<"Temporary", 302>> -> "Temporary"
          [] e = <<"other", 0>> -> "Temporary"
          [] e = <<"network", 0>> -> "NetworkError"
          [] e = <<"abort", 0>> -> "Timeout"
          [] e = <<"ResponseTooLarge", 200>> -> "ResponseTooLarge"
          [] e = <<"Forbidden", 403>> -> "Forbidden"
          [] e = <<"NotFound", 404>> -> "NotFound"
          [] e = <<"Permanent", 410>> -> "Permanent"
          [] e = <<"RateLimited", 429>> -> "RateLimited"
          [] e = <<"Temporary", 503>> -> "Temporary"
          [] e = <<"InvalidDomain", 0>> -> "InvalidDomain"
          [] e = <<"InvalidContent", 200>> -> "InvalidContent"
    BY <1>1, <1>2 DEF classifyHttpFailure, Codes
<1> QED BY <1>2, <1>3, <1>4 DEF isRetryableErrorCode, shouldRetryHttpError, Transient,
                                DefinitiveFailures, Rejections

\* Definitive, of what was thrown, is a matter of the same list.
LEMMA DefinitiveIs ==
    ASSUME NEW e \in Failures \cup Rejections, get.input = e[1], get.status = e[2]
    PROVE  Definitive <=> e \in DefinitiveFailures \cup Rejections
BY DEF Definitive, Failures, Rejections, DefinitiveFailures

-----------------------------------------------------------------------------
(* What get knows at each await                                              *)

Gets == [pc : PCs, built : BuiltUrls, url : Urls, answer : Answers,
         attempt : 1..RetryLimit, redirectCount : 0..RedirectLimit,
         total : 0..MaxResponseSize, timer : 0..TimeoutTicks, delay : Nat,
         asked : BOOLEAN, input : Codes \cup Natives, status : Statuses]

\* The most that the attempts before the a-th have sent, and the ticks they and the
\* back-offs have spent.
LongestBackoff == LongestDelay + LongestDelay \div 4
SentBefore(a) == (a - 1) * (RedirectLimit + 1)
SpentBefore(a) == (a - 1) * (TimeoutTicks + LongestBackoff)

BeforeSend == {"start", "check", "lookup", "call"}

Counted ==
    sent <= SentBefore(get.attempt) + get.redirectCount
            + (IF get.pc \in BeforeSend THEN 0 ELSE 1)

Timed ==
    IF get.pc = "backoff"
    THEN /\ spent <= SpentBefore(get.attempt + 1)
         /\ get.asked \/ spent + get.delay <= SpentBefore(get.attempt + 1)
    ELSE spent + get.timer <= SpentBefore(get.attempt) + TimeoutTicks

Checked == \/ get.url = "public"
           \/ get.url = "name" /\ get.answer \in {"public", "unknown"}

Judged ==
    /\ get.pc = "backoff" => get.attempt < RetryLimit /\ ~ Definitive
    /\ get.pc = "thrown" => \E e \in Failures \cup Rejections :
                              get.input = e[1] /\ get.status = e[2]
    /\ get.pc = "thrown" /\ ~ Definitive /\ sent > 0 => get.attempt = RetryLimit

Typed == get \in Gets /\ sent \in Nat /\ spent \in Nat

Known == /\ Typed /\ Counted /\ Timed /\ Judged
         /\ get.pc = "start" => sent = 0 /\ spent = 0
         /\ get.pc = "lookup" => get.url = "name"
         /\ get.pc = "call" => Checked
         /\ get.asked => get.pc = "backoff"

LEMMA Limits ==
    /\ RetryLimit \in Nat \ {0} /\ RedirectLimit \in Nat \ {0}
    /\ TimeoutTicks \in Nat \ {0} /\ LongestBackoff \in Nat \ {0}
    /\ LongestDelay \in Nat \ {0} /\ BaseDelay \in Nat \ {0}
    /\ MaxResponseSize \in Nat \ {0} /\ RetryAfters \subseteq Nat
BY LimitsAssumption DEF LongestBackoff

LEMMA Products ==
    ASSUME NEW n \in Nat, NEW a \in Nat \ {0}
    PROVE  /\ (a - 1) * n \in Nat /\ (a + 1 - 1) * n = (a - 1) * n + n
           /\ \A b \in Nat \ {0} : a <= b => (a - 1) * n <= (b - 1) * n
OBVIOUS

\* One attempt more is a round of requests, a timeout and a back-off more.
LEMMA Befores ==
    ASSUME NEW a \in Nat \ {0}
    PROVE  /\ SentBefore(a) \in Nat /\ SpentBefore(a) \in Nat
           /\ SentBefore(a + 1) = SentBefore(a) + RedirectLimit + 1
           /\ SpentBefore(a + 1) = SpentBefore(a) + TimeoutTicks + LongestBackoff
           /\ \A b \in Nat \ {0} : a <= b => /\ SentBefore(a) <= SentBefore(b)
                                            /\ SpentBefore(a) <= SpentBefore(b)
<1>1. RedirectLimit + 1 \in Nat /\ TimeoutTicks + LongestBackoff \in Nat
    BY Limits
<1> QED BY <1>1, Products, Limits DEF SentBefore, SpentBefore

\* A power of two counts the subsets of a set.
LEMMA PowersOfTwo ==
    ASSUME NEW n \in Nat
    PROVE  2 ^ n \in Nat \ {0}
<1> DEFINE S == 1..n
<1>1. IsFiniteSet(S) /\ Cardinality(S) = n
    BY FS_Interval
<1>2. IsFiniteSet(SUBSET S) /\ Cardinality(SUBSET S) = 2 ^ n
    BY <1>1, FS_SUBSET
<1>3. Cardinality(SUBSET S) \in Nat
    BY <1>2, FS_CardinalityType
<1>4. Cardinality(SUBSET S) # 0
    <2>1. SUBSET S # {}
        OBVIOUS
    <2> QED BY <1>2, <2>1, FS_EmptySet
<1> QED BY <1>2, <1>3, <1>4

\* A back-off is no longer than the longest delay with its jitter, and not negative.
LEMMA BackoffsAre ==
    ASSUME NEW a \in Nat \ {0}
    PROVE  \A d \in Backoffs(a) : d \in Nat /\ d <= LongestBackoff
<1> DEFINE x == BaseDelay * 2 ^ (a - 1)
           e == Min({LongestDelay, x})
           j == IF e \div 4 > 1 THEN e \div 4 ELSE 1
<1>1. a - 1 \in Nat
    OBVIOUS
<1>2. 2 ^ (a - 1) \in Nat
    BY <1>1, PowersOfTwo
<1>3. x \in Nat
    BY <1>2, Limits
<1> HIDE DEF x
<1>4. e \in {LongestDelay, x} /\ e <= LongestDelay /\ e <= x
    <2>1. {LongestDelay, x} \in SUBSET Nat /\ {LongestDelay, x} # {}
        BY <1>3, Limits
    <2>2. Min({LongestDelay, x}) \in {LongestDelay, x}
          /\ \A y \in {LongestDelay, x} : Min({LongestDelay, x}) <= y
        BY <2>1, Least
    <2> QED BY <2>2
<1> HIDE DEF e
<1>5. e \in Nat /\ j \in Int /\ j >= 1 /\ e \div 4 <= LongestDelay \div 4
    BY <1>3, <1>4, Limits
<1>6. e + (j - 1) <= LongestBackoff
    BY <1>4, <1>5, Limits DEF LongestBackoff
<1>7. Backoffs(a) = {e + jitter : jitter \in 0..(j - 1)}
    BY DEF Backoffs, e, x
<1> HIDE DEF j
<1> QED BY <1>5, <1>6, <1>7, Limits

LEMMA KnownInit == Init => Known
<1> SUFFICES ASSUME Init PROVE Known
    OBVIOUS
<1>1. Typed
    BY Limits DEF Init, Typed, NoGet, Gets, PCs, BuiltUrls, Urls, Answers, Natives, Statuses, NoStatus
<1>2. Counted /\ Timed
    <2>1. SentBefore(1) \in Nat /\ SpentBefore(1) \in Nat
        BY Befores
    <2> QED BY <2>1, Limits DEF Init, NoGet, Counted, Timed, BeforeSend
<1> QED BY <1>1, <1>2 DEF Init, Known, NoGet, Judged

-----------------------------------------------------------------------------
(* Steps                                                                     *)

LEMMA ThrownIsGet ==
    ASSUME NEW g \in Gets, NEW input \in Codes \cup Natives, NEW status \in Statuses
    PROVE  [g EXCEPT !.pc = "thrown", !.input = input, !.status = status,
                     !.timer = 0, !.total = 0] \in Gets
<1>1. "thrown" \in PCs /\ 0 \in 0..TimeoutTicks /\ 0 \in 0..MaxResponseSize
    BY Limits DEF PCs
<1> HIDE DEF PCs
<1> QED BY <1>1 DEF Gets

LEMMA EndedIsGet ==
    ASSUME NEW g \in Gets, NEW input \in Codes \cup Natives, NEW status \in Statuses
    PROVE  [g EXCEPT !.pc = "thrown", !.input = input, !.status = status, !.total = 0] \in Gets
<1>1. "thrown" \in PCs /\ 0 \in 0..MaxResponseSize
    BY Limits DEF PCs
<1> HIDE DEF PCs
<1> QED BY <1>1 DEF Gets

\* executeRequest, or a check or lookup before it, throws.
LEMMA ThrowsKnown ==
    ASSUME Known, get.pc \in {"check", "lookup", "call", "await", "body"},
           NEW e \in Failures, NEW after, after \subseteq Nat,
           Throws(e[1], e[2], after), UNCHANGED <<sent, spent>>
    PROVE  Known'
<1> DEFINE a == get.attempt
           thrown == [get EXCEPT !.pc = "thrown", !.input = e[1], !.status = e[2],
                                 !.timer = 0, !.total = 0]
           again == e \notin DefinitiveFailures /\ a < RetryLimit
<1>1. /\ get \in Gets /\ sent \in Nat /\ spent \in Nat /\ a \in Nat \ {0} /\ a <= RetryLimit
      /\ Counted /\ Timed /\ ~ get.asked
    BY Limits DEF Known, Typed, Gets
<1>2. /\ e[1] \in Codes \cup Natives /\ e[2] \in Statuses /\ e \notin Rejections
      /\ shouldRetryHttpError(classifyHttpFailure(e[1], e[2]), e[2])
         <=> e \notin DefinitiveFailures
    BY Verdicts DEF Failures, Rejections
<1>9. thrown.asked = get.asked
    BY <1>1 DEF Gets
<1>3. /\ thrown \in Gets /\ thrown.attempt = a /\ thrown.redirectCount = get.redirectCount
      /\ thrown.pc = "thrown" /\ thrown.input = e[1] /\ thrown.status = e[2]
      /\ thrown.timer = 0
    <2>2. thrown \in Gets
        BY <1>1, <1>2, ThrownIsGet
    <2>3. thrown.attempt = a /\ thrown.redirectCount = get.redirectCount
        BY <1>1 DEF Gets
    <2> QED BY <1>1, <2>2, <2>3 DEF Gets
<1>4. SentBefore(a) \in Nat /\ SpentBefore(a) \in Nat
      /\ SpentBefore(a + 1) = SpentBefore(a) + TimeoutTicks + LongestBackoff
    BY <1>1, Befores
<1>5. spent <= SpentBefore(a) + TimeoutTicks
      /\ sent <= SentBefore(a) + get.redirectCount + 1
    BY <1>1, <1>4, Limits DEF Counted, Timed, Gets
<1>6. \/ ~ again /\ get' = thrown
      \/ again /\ \E d \in IF after # {} THEN after ELSE Backoffs(a) :
                       get' = [thrown EXCEPT !.pc = "backoff", !.delay = d, !.asked = after # {}]
    BY <1>2, Zenon DEF Throws
<1> HIDE DEF thrown, a
<1>7. CASE ~ again /\ get' = thrown
    <2>1. Typed' /\ Counted' /\ Timed'
        BY <1>1, <1>3, <1>4, <1>5, <1>7 DEF Typed, Counted, Timed, BeforeSend
    <2>2. get'.input = e[1] /\ get'.status = e[2] /\ get'.pc = "thrown" /\ get'.attempt = a
        BY <1>3, <1>7
    <2>3. Definitive' <=> e \in DefinitiveFailures
        BY <1>2, <2>2, DefinitiveIs DEF Definitive, Failures, DefinitiveFailures
    <2>4. Judged'
        <3>1. get'.attempt = RetryLimit \/ e \in DefinitiveFailures
            BY <1>1, <1>7, <2>2, Limits
        <3>2. \E f \in Failures \cup Rejections : get'.input = f[1] /\ get'.status = f[2]
            BY <2>2
        <3> QED BY <2>2, <2>3, <3>1, <3>2 DEF Judged
    <2>5. ~ get'.asked
        BY <1>1, <1>7, <1>9
    <2> QED BY <2>1, <2>2, <2>4, <2>5 DEF Known
<1>8. CASE again /\ \E d \in IF after # {} THEN after ELSE Backoffs(a) :
                       get' = [thrown EXCEPT !.pc = "backoff", !.delay = d, !.asked = after # {}]
    <2>1. PICK d \in IF after # {} THEN after ELSE Backoffs(a) :
              get' = [thrown EXCEPT !.pc = "backoff", !.delay = d, !.asked = after # {}]
        BY <1>8
    <2>2. d \in Nat /\ (after # {} \/ d <= LongestBackoff)
        BY <1>1, <2>1, BackoffsAre
    <2>3. /\ get' \in Gets /\ get'.pc = "backoff" /\ get'.delay = d /\ get'.attempt = a
          /\ get'.asked = (after # {}) /\ get'.input = e[1] /\ get'.status = e[2]
          /\ get'.redirectCount = get.redirectCount
        BY <1>3, <2>1, <2>2 DEF Gets, PCs
    <2>4. Typed' /\ Counted'
        BY <1>1, <1>4, <1>5, <2>3, Limits DEF Typed, Counted, BeforeSend
    <2>7. Timed'
        <3>1. spent' <= SpentBefore(get'.attempt + 1)
            BY <1>1, <1>4, <1>5, <2>3, Limits
        <3>2. get'.asked \/ spent' + get'.delay <= SpentBefore(get'.attempt + 1)
            <4>1. CASE after # {}
                BY <2>3, <4>1
            <4>2. CASE after = {}
                <5>1. d <= LongestBackoff
                    BY <2>2, <4>2
                <5>2. get'.delay = d /\ get'.attempt = a
                    BY <2>3
                <5> QED BY <1>1, <1>4, <1>5, <2>2, <5>1, <5>2, Limits
            <4> QED BY <4>1, <4>2
        <3> QED BY <2>3, <3>1, <3>2 DEF Timed
    <2>5. Definitive' <=> e \in DefinitiveFailures
        BY <1>2, <2>3, DefinitiveIs DEF Definitive, Failures, DefinitiveFailures
    <2>6. Judged'
        BY <1>1, <1>8, <2>3, <2>5 DEF Judged
    <2> QED BY <2>3, <2>4, <2>6, <2>7 DEF Known
<1> QED BY <1>6, <1>7, <1>8

\* A step within an attempt that neither sends nor ends it.
LEMMA MovesKnown ==
    ASSUME Known, get.pc \notin {"start", "backoff", "thrown"},
           NEW q \in Gets, get' = q, UNCHANGED <<sent, spent>>,
           q.attempt = get.attempt, q.redirectCount = get.redirectCount,
           q.timer \in {get.timer, 0}, q.asked = get.asked,
           q.pc \notin {"start", "backoff", "thrown"},
           q.pc \in BeforeSend => get.pc \in BeforeSend,
           q.pc = "lookup" => q.url = "name",
           q.pc = "call" => Checked'
    PROVE  Known'
<1>1. get \in Gets /\ sent \in Nat /\ spent \in Nat /\ get.timer \in Nat /\ ~ get.asked
    BY Limits DEF Known, Typed, Gets
<1>2. get.attempt \in Nat \ {0} /\ get.redirectCount \in Nat
    BY <1>1, Limits DEF Gets
<1>3. SentBefore(get.attempt) \in Nat /\ SpentBefore(get.attempt) \in Nat
    BY <1>2, Befores
<1>4. Counted'
    BY <1>1, <1>2, <1>3 DEF Known, Counted
<1>5. Timed'
    BY <1>1, <1>2, <1>3, Limits DEF Known, Timed
<1>6. Judged' /\ Typed'
    BY <1>1 DEF Judged, Typed
<1> QED BY <1>1, <1>4, <1>5, <1>6 DEF Known

\* AdsTxtFetcher throws, before the first request or after the last.
LEMMA EndedKnown ==
    ASSUME Known, get.pc \in {"start", "returned"}, NEW e \in Failures \cup Rejections,
           e \in Rejections \/ sent = 0, Ended(e[1], e[2]), UNCHANGED <<sent, spent>>
    PROVE  Known'
<1> DEFINE q == [get EXCEPT !.pc = "thrown", !.input = e[1], !.status = e[2], !.total = 0]
<1>1. get \in Gets /\ sent \in Nat /\ spent \in Nat /\ get.timer \in Nat /\ ~ get.asked
    BY Limits DEF Known, Typed, Gets
<1>2. e[1] \in Codes \cup Natives /\ e[2] \in Statuses
    BY Verdicts
<1>4. q \in Gets
    BY <1>1, <1>2, EndedIsGet
<1>5. /\ q.attempt = get.attempt /\ q.redirectCount = get.redirectCount /\ q.timer = get.timer
      /\ q.pc = "thrown" /\ q.input = e[1] /\ q.status = e[2]
    BY <1>1 DEF Gets
<1>6. q.asked = get.asked /\ get' = q
    BY <1>1 DEF Gets, Ended
<1> HIDE DEF q
<1>7. get.attempt \in Nat \ {0} /\ get.redirectCount \in Nat
    BY <1>1, Limits DEF Gets
<1>8. SentBefore(get.attempt) \in Nat
    BY <1>7, Befores
<1>9. Counted' /\ Timed'
    BY <1>1, <1>5, <1>6, <1>7, <1>8 DEF Known, Counted, Timed, BeforeSend
<1>10. Judged'
    <2>1. Definitive' \/ sent' = 0
        BY <1>5, <1>6 DEF Definitive, Rejections
    <2> QED BY <1>5, <1>6, <2>1 DEF Judged
<1> QED BY <1>1, <1>4, <1>5, <1>6, <1>9, <1>10 DEF Known, Typed

LEMMA AttemptIs ==
    ASSUME NEW n \in 1..RetryLimit, NEW u \in BuiltUrls
    PROVE  /\ Attempt(n, u) \in Gets /\ Attempt(n, u).pc = "check"
           /\ Attempt(n, u).attempt = n /\ Attempt(n, u).redirectCount = 0
           /\ Attempt(n, u).timer = TimeoutTicks /\ ~ Attempt(n, u).asked
<1>1. /\ NoGet \in Gets /\ NoGet.redirectCount = 0 /\ NoGet.asked = FALSE
    BY Limits DEF NoGet, Gets, PCs, BuiltUrls, Urls, Answers, Natives, Statuses, NoStatus
<1>2. "check" \in PCs /\ u \in Urls /\ TimeoutTicks \in 0..TimeoutTicks
    BY Limits DEF PCs, Urls
<1> HIDE DEF PCs, Urls, BuiltUrls
<1>3. Attempt(n, u) \in Gets
    BY <1>1, <1>2 DEF Attempt, Gets
<1>4. /\ Attempt(n, u).pc = "check" /\ Attempt(n, u).attempt = n
      /\ Attempt(n, u).redirectCount = 0 /\ Attempt(n, u).timer = TimeoutTicks
    BY <1>1 DEF Attempt, Gets
<1>5. Attempt(n, u).asked = FALSE
    BY <1>1 DEF Attempt, Gets
<1> QED BY <1>3, <1>4, <1>5

LEMMA AttemptKnown ==
    ASSUME Known, NEW n \in 1..RetryLimit, NEW u \in BuiltUrls, get' = Attempt(n, u),
           UNCHANGED <<sent, spent>>, sent <= SentBefore(n), spent <= SpentBefore(n)
    PROVE  Known'
<1>1. n \in Nat \ {0} /\ SentBefore(n) \in Nat /\ SpentBefore(n) \in Nat
    <2>1. n \in Nat \ {0}
        BY Limits
    <2> QED BY <2>1, Befores
<1>2. Typed' /\ Judged'
    BY AttemptIs DEF Known, Typed, Judged
<1>3. Counted' /\ Timed'
    BY <1>1, AttemptIs, Limits DEF Known, Typed, Counted, Timed, BeforeSend
<1> QED BY <1>2, <1>3, AttemptIs DEF Known

LEMMA BuildKnown == ASSUME Known, Build PROVE Known'
<1>1. get.pc = "start" /\ sent = 0 /\ spent = 0 /\ UNCHANGED <<sent, spent>> /\ ~ get.asked
    BY DEF Build, At, Known
<1>2. ASSUME Ended("InvalidDomain", NoStatus) PROVE Known'
    <2>1. <<"InvalidDomain", 0>> \in Rejections
        BY DEF Rejections
    <2> QED BY <1>1, <1>2, <2>1, EndedKnown DEF NoStatus
<1>3. ASSUME Ended("other", NoStatus) PROVE Known'
    <2>1. <<"other", 0>> \in Failures
        BY DEF Failures
    <2> QED BY <1>1, <1>3, <2>1, EndedKnown DEF NoStatus
<1>4. ASSUME NEW u \in BuiltUrls, get' = Attempt(1, u) PROVE Known'
    <2>1. 1 \in 1..RetryLimit /\ SentBefore(1) \in Nat /\ SpentBefore(1) \in Nat
        BY Befores, Limits
    <2> QED BY <1>1, <1>4, <2>1, AttemptKnown
<1> QED BY <1>2, <1>3, <1>4 DEF Build

LEMMA AgainKnown == ASSUME Known, Again PROVE Known'
<1>1. /\ get \in Gets /\ sent \in Nat /\ spent \in Nat /\ get.pc = "backoff"
      /\ get' = Attempt(get.attempt + 1, get.built) /\ UNCHANGED <<sent, spent>>
    BY DEF Again, At, Known, Typed
<1>2. /\ get.attempt \in Nat \ {0} /\ get.redirectCount <= RedirectLimit
      /\ get.redirectCount \in Nat /\ get.built \in BuiltUrls /\ get.attempt < RetryLimit
    BY <1>1, Limits DEF Gets, Known, Judged
<1>3. get.attempt + 1 \in 1..RetryLimit
    BY <1>2, Limits
<1>4. SentBefore(get.attempt) \in Nat
      /\ SentBefore(get.attempt + 1) = SentBefore(get.attempt) + RedirectLimit + 1
    BY <1>2, Befores
<1>5. sent <= SentBefore(get.attempt + 1)
    BY <1>1, <1>2, <1>4, Limits DEF Known, Counted, BeforeSend
<1>6. spent <= SpentBefore(get.attempt + 1)
    BY <1>1 DEF Known, Timed
<1> QED BY <1>1, <1>2, <1>3, <1>5, <1>6, AttemptKnown

LEMMA CheckKnown == ASSUME Known, Check PROVE Known'
<1>1. /\ get \in Gets /\ get.pc = "check" /\ UNCHANGED <<sent, spent>>
    BY DEF Check, At, Known, Typed
<1>2. "call" \in PCs /\ "lookup" \in PCs
    BY DEF PCs
<1>3. CASE get.url = "public"
    <2> DEFINE q == [get EXCEPT !.pc = "call"]
    <2>1. get' = q
        BY <1>3 DEF Check
    <2>2. /\ q \in Gets /\ q.pc = "call" /\ q.attempt = get.attempt /\ q.url = get.url
          /\ q.redirectCount = get.redirectCount /\ q.timer = get.timer
        BY <1>1, <1>2 DEF Gets
    <2>3. q.asked = get.asked
        BY <1>1 DEF Gets
    <2>4. Checked'
        BY <1>3, <2>1, <2>2 DEF Checked
    <2> QED BY <1>1, <2>1, <2>2, <2>3, <2>4, MovesKnown DEF BeforeSend
<1>4. CASE get.url = "name"
    <2> DEFINE q == [get EXCEPT !.pc = "lookup"]
    <2>1. get' = q
        BY <1>4 DEF Check
    <2>2. /\ q \in Gets /\ q.pc = "lookup" /\ q.attempt = get.attempt /\ q.url = get.url
          /\ q.redirectCount = get.redirectCount /\ q.timer = get.timer
        BY <1>1, <1>2 DEF Gets
    <2>3. q.asked = get.asked
        BY <1>1 DEF Gets
    <2> QED BY <1>1, <1>4, <2>1, <2>2, <2>3, MovesKnown DEF BeforeSend
<1>5. CASE get.url \notin {"public", "name"}
    <2>1. Throws("SsrfBlocked", NoStatus, {})
        BY <1>5 DEF Check
    <2>2. <<"SsrfBlocked", 0>> \in Failures
        BY DEF Failures
    <2> QED BY <1>1, <2>1, <2>2, ThrowsKnown DEF NoStatus
<1> QED BY <1>3, <1>4, <1>5

LEMMA LookupKnown == ASSUME Known, Lookup PROVE Known'
<1>1. /\ get \in Gets /\ get.pc = "lookup" /\ UNCHANGED <<sent, spent>>
    BY DEF Lookup, At, Known, Typed
<1>2. PICK answer \in Answers \ {"none"} :
         IF answer \in {"private", "broken"}
         THEN Throws("NetworkError", NoStatus, {})
         ELSE get' = [get EXCEPT !.pc = "call", !.answer = answer]
    BY DEF Lookup
<1>3. CASE answer \in {"private", "broken"}
    <2>1. <<"NetworkError", 0>> \in Failures
        BY DEF Failures
    <2> QED BY <1>1, <1>2, <1>3, <2>1, ThrowsKnown DEF NoStatus
<1>4. CASE answer \notin {"private", "broken"}
    <2> DEFINE q == [get EXCEPT !.pc = "call", !.answer = answer]
    <2>1. get' = q
        BY <1>2, <1>4
    <2>2. "call" \in PCs /\ answer \in {"public", "unknown"}
        BY <1>4 DEF PCs, Answers
    <2>3. /\ q \in Gets /\ q.pc = "call" /\ q.attempt = get.attempt /\ q.url = get.url
          /\ q.redirectCount = get.redirectCount /\ q.timer = get.timer /\ q.answer = answer
        BY <1>1, <2>2 DEF Gets
    <2>4. q.asked = get.asked
        BY <1>1 DEF Gets
    <2>5. Checked'
        BY <1>1, <2>1, <2>2, <2>3 DEF Checked, Known
    <2> QED BY <1>1, <2>1, <2>3, <2>4, <2>5, MovesKnown DEF BeforeSend
<1> QED BY <1>3, <1>4

LEMMA SendKnown == ASSUME Known, Send PROVE Known' /\ Checked
<1> DEFINE q == [get EXCEPT !.pc = "await"]
<1>1. /\ get \in Gets /\ get.pc = "call" /\ get' = q /\ sent \in Nat /\ spent \in Nat
      /\ sent' = sent + 1 /\ spent' = spent /\ ~ get.asked /\ Checked
    BY DEF Send, At, Known, Typed
<1>2. "await" \in PCs
    BY DEF PCs
<1>3. /\ q \in Gets /\ q.pc = "await" /\ q.attempt = get.attempt
      /\ q.redirectCount = get.redirectCount /\ q.timer = get.timer
    BY <1>1, <1>2 DEF Gets
<1>4. q.asked = get.asked
    BY <1>1 DEF Gets
<1> HIDE DEF q
<1>5. get.attempt \in Nat \ {0} /\ get.redirectCount \in Nat
    BY <1>1, Limits DEF Gets
<1>6. SentBefore(get.attempt) \in Nat
    BY <1>5, Befores
<1>7. Counted' /\ Timed'
    BY <1>1, <1>3, <1>5, <1>6 DEF Known, Counted, Timed, BeforeSend
<1> QED BY <1>1, <1>3, <1>4, <1>7 DEF Known, Typed, Judged

LEMMA FollowKnown ==
    ASSUME Known, get.pc = "await", ~ LimitReached, NEW u \in Urls, get' = Follow(u),
           UNCHANGED <<sent, spent>>
    PROVE  Known'
<1> DEFINE q == [get EXCEPT !.pc = "check", !.url = u, !.answer = "none",
                            !.redirectCount = get.redirectCount + 1]
<1>1. /\ get \in Gets /\ get' = q /\ sent \in Nat /\ spent \in Nat /\ ~ get.asked
    BY DEF Follow, Known, Typed
<1>2. /\ get.redirectCount \in Nat /\ get.redirectCount + 1 \in 0..RedirectLimit
      /\ get.attempt \in Nat \ {0}
    BY <1>1, Limits DEF LimitReached, Gets
<1>3. "check" \in PCs /\ "none" \in Answers
    BY DEF PCs, Answers
<1>4. /\ q \in Gets /\ q.pc = "check" /\ q.attempt = get.attempt
      /\ q.redirectCount = get.redirectCount + 1 /\ q.timer = get.timer
    BY <1>1, <1>2, <1>3 DEF Gets
<1>5. q.asked = get.asked
    BY <1>1 DEF Gets
<1> HIDE DEF q
<1>6. SentBefore(get.attempt) \in Nat
    BY <1>2, Befores
<1>7. Counted' /\ Timed'
    BY <1>1, <1>2, <1>4, <1>6 DEF Known, Counted, Timed, BeforeSend
<1> QED BY <1>1, <1>4, <1>5, <1>7 DEF Known, Typed, Judged

LEMMA RedirectKnown == ASSUME Known, Redirect PROVE Known'
<1>1. get.pc = "await" /\ UNCHANGED <<sent, spent>>
    BY DEF Redirect, Answered, At
<1>2. <<"InvalidUrl", 302>> \in Failures /\ <<"Temporary", 302>> \in Failures
      /\ <<"other", 0>> \in Failures
    BY DEF Failures
<1>3. CASE Throws("InvalidUrl", 302, {})
    BY <1>1, <1>2, <1>3, ThrowsKnown
<1>4. CASE Throws("Temporary", 302, {})
    BY <1>1, <1>2, <1>4, ThrowsKnown
<1>5. CASE Throws("other", NoStatus, {})
    BY <1>1, <1>2, <1>5, ThrowsKnown DEF NoStatus
<1>6. ASSUME ~ LimitReached, NEW u \in Urls, get' = Follow(u) PROVE Known'
    BY <1>1, <1>6, FollowKnown
<1> QED BY <1>3, <1>4, <1>5, <1>6 DEF Redirect

LEMMA ErrorStatusKnown == ASSUME Known, ErrorStatus PROVE Known'
<1>1. get.pc = "await" /\ UNCHANGED <<sent, spent>>
    BY DEF ErrorStatus, Answered, At
<1>2. PICK s \in {t \in Statuses : t >= 400}, after \in {{}} \cup {{n} : n \in RetryAfters} :
         Throws(classifyHttpFailure("other", s), s, after)
    BY DEF ErrorStatus
<1>3. after \subseteq Nat
    BY Limits
<1>4. s \in {403, 404, 410, 429, 503}
    BY DEF Statuses, NoStatus
<1>5. <<classifyHttpFailure("other", s), s>> \in Failures
    BY <1>4 DEF classifyHttpFailure, NamedStatuses, Failures
<1>6. \E e \in Failures : e[1] = classifyHttpFailure("other", s) /\ e[2] = s
    BY <1>5
<1> QED BY <1>1, <1>2, <1>3, <1>6, ThrowsKnown

\* What only moves the reading of an answer on.
LEMMA ReadKnown ==
    ASSUME Known, get.pc \in {"await", "body", "returned"}, NEW q \in Gets, get' = q,
           q.pc \in {"body", "returned", "accepted"},
           q.attempt = get.attempt, q.redirectCount = get.redirectCount,
           q.timer \in {get.timer, 0}, q.asked = get.asked, UNCHANGED <<sent, spent>>
    PROVE  Known'
BY MovesKnown DEF BeforeSend

LEMMA GoodKnown == ASSUME Known, Good PROVE Known'
<1> DEFINE q == [get EXCEPT !.pc = "body"]
<1>1. get \in Gets /\ get.pc = "await" /\ UNCHANGED <<sent, spent>> /\ get' = q
    BY DEF Good, Answered, At, Known, Typed
<1>2. "body" \in PCs
    BY DEF PCs
<1>3. /\ q \in Gets /\ q.pc = "body" /\ q.attempt = get.attempt
      /\ q.redirectCount = get.redirectCount /\ q.timer = get.timer
    BY <1>1, <1>2 DEF Gets
<1>4. q.asked = get.asked
    BY <1>1 DEF Gets
<1> QED BY <1>1, <1>3, <1>4, ReadKnown

LEMMA ChunkKnown == ASSUME Known, Chunk PROVE Known'
<1>1. get \in Gets /\ get.pc = "body" /\ UNCHANGED <<sent, spent>>
    BY DEF Chunk, At, Known, Typed
<1>2. PICK n \in 1..(MaxResponseSize + 1) : ChunkAdded(n)
    BY DEF Chunk
<1>3. CASE get.total + n > MaxResponseSize
    <2>1. <<"ResponseTooLarge", 200>> \in Failures
        BY DEF Failures
    <2> QED BY <1>1, <1>2, <1>3, <2>1, ThrowsKnown DEF ChunkAdded
<1>4. CASE ~ (get.total + n > MaxResponseSize)
    <2> DEFINE q == [get EXCEPT !.total = get.total + n]
    <2>1. get' = q
        BY <1>2, <1>4 DEF ChunkAdded
    <2>2. get.total + n \in 0..MaxResponseSize
        BY <1>1, <1>4, Limits DEF Gets
    <2>3. /\ q \in Gets /\ q.pc = "body" /\ q.attempt = get.attempt
          /\ q.redirectCount = get.redirectCount /\ q.timer = get.timer
        BY <1>1, <2>2 DEF Gets
    <2>4. q.asked = get.asked
        BY <1>1 DEF Gets
    <2> QED BY <1>1, <2>1, <2>3, <2>4, ReadKnown
<1> QED BY <1>3, <1>4

LEMMA BodyDoneKnown == ASSUME Known, BodyDone PROVE Known'
<1> DEFINE q == [get EXCEPT !.pc = "returned", !.timer = 0]
<1>1. get \in Gets /\ get.pc = "body" /\ UNCHANGED <<sent, spent>> /\ get' = q
    BY DEF BodyDone, At, Known, Typed
<1>2. "returned" \in PCs /\ 0 \in 0..TimeoutTicks
    BY Limits DEF PCs
<1>3. /\ q \in Gets /\ q.pc = "returned" /\ q.attempt = get.attempt
      /\ q.redirectCount = get.redirectCount /\ q.timer = 0
    BY <1>1, <1>2 DEF Gets
<1>4. q.asked = get.asked
    BY <1>1 DEF Gets
<1> QED BY <1>1, <1>3, <1>4, ReadKnown

LEMMA AcceptKnown == ASSUME Known, Accept PROVE Known'
<1> DEFINE q == [get EXCEPT !.pc = "accepted"]
<1>1. get \in Gets /\ get.pc = "returned" /\ UNCHANGED <<sent, spent>>
    BY DEF Accept, At, Known, Typed
<1>2. CASE get' = q
    <2>1. "accepted" \in PCs
        BY DEF PCs
    <2>2. /\ q \in Gets /\ q.pc = "accepted" /\ q.attempt = get.attempt
          /\ q.redirectCount = get.redirectCount /\ q.timer = get.timer
        BY <1>1, <2>1 DEF Gets
    <2>3. q.asked = get.asked
        BY <1>1 DEF Gets
    <2> QED BY <1>1, <1>2, <2>2, <2>3, ReadKnown
<1>3. CASE Ended("InvalidContent", 200)
    <2>1. <<"InvalidContent", 200>> \in Rejections
        BY DEF Rejections
    <2> QED BY <1>1, <1>3, <2>1, EndedKnown
<1> QED BY <1>2, <1>3 DEF Accept

LEMMA BreaksKnown == ASSUME Known, Breaks \/ Abort PROVE Known'
<1>1. get.pc \in {"call", "await", "body"} /\ UNCHANGED <<sent, spent>>
    BY DEF Breaks, Abort, At
<1>2. PICK e \in Natives : Throws(e, NoStatus, {})
    BY DEF Breaks, Abort, Natives
<1>3. <<e, 0>> \in Failures
    BY DEF Natives, Failures
<1> QED BY <1>1, <1>2, <1>3, ThrowsKnown DEF NoStatus

LEMMA TickKnown == ASSUME Known, Tick PROVE Known'
<1> DEFINE t == IF get.timer > 0 THEN get.timer - 1 ELSE 0
           d == IF get.delay > 0 THEN get.delay - 1 ELSE 0
           q == [get EXCEPT !.timer = t, !.delay = d]
<1>1. /\ get \in Gets /\ sent \in Nat /\ spent \in Nat /\ sent' = sent /\ get' = q
      /\ spent' = IF get.pc = "lookup" \/ get.asked THEN spent ELSE spent + 1
      /\ \/ get.pc \in {"lookup", "await", "body"} /\ get.timer > 0
         \/ get.pc = "backoff" /\ get.delay > 0
    BY DEF Tick, At, Known, Typed
<1>2. get.timer \in 0..TimeoutTicks /\ get.delay \in Nat
    BY <1>1 DEF Gets
<1>3. /\ t \in 0..TimeoutTicks /\ d \in Nat /\ t <= get.timer /\ (get.timer > 0 => t = get.timer - 1)
      /\ (get.delay > 0 => d = get.delay - 1)
    BY <1>2, Limits
<1> HIDE DEF t, d
<1>4. /\ q \in Gets /\ q.pc = get.pc /\ q.attempt = get.attempt /\ q.timer = t /\ q.delay = d
      /\ q.redirectCount = get.redirectCount /\ q.url = get.url /\ q.answer = get.answer
      /\ q.input = get.input /\ q.status = get.status
    BY <1>1, <1>3 DEF Gets
<1>5. q.asked = get.asked
    BY <1>1 DEF Gets
<1> HIDE DEF q
<1>6. get.attempt \in Nat \ {0}
    BY <1>1, Limits DEF Gets
<1>7. /\ SpentBefore(get.attempt) \in Nat /\ SpentBefore(get.attempt + 1) \in Nat
    BY <1>6, Befores
<1>8. Counted'
    BY <1>1, <1>4 DEF Known, Counted
<1>9. Timed'
    <2>1. CASE get.pc = "backoff" /\ get.asked
        BY <1>1, <1>4, <1>5, <2>1 DEF Known, Timed
    <2>2. CASE get.pc = "backoff" /\ ~ get.asked
        BY <1>1, <1>2, <1>3, <1>4, <1>5, <1>7, <2>2 DEF Known, Timed
    <2>3. CASE get.pc # "backoff"
        BY <1>1, <1>2, <1>3, <1>4, <1>5, <1>7, <2>3, Limits DEF Known, Timed
    <2> QED BY <2>1, <2>2, <2>3
<1>10. Typed' /\ Judged' /\ (get'.asked => get'.pc = "backoff")
    <2>1. spent' \in Nat
        BY <1>1
    <2>2. Typed'
        BY <1>1, <1>4, <2>1 DEF Typed
    <2>3. Definitive' <=> Definitive
        BY <1>1, <1>4 DEF Definitive
    <2>4. Judged'
        BY <1>1, <1>4, <2>3 DEF Known, Judged
    <2>5. get'.asked => get'.pc = "backoff"
        BY <1>1, <1>4, <1>5 DEF Known
    <2> QED BY <2>2, <2>4, <2>5
<1> QED BY <1>1, <1>4, <1>8, <1>9, <1>10 DEF Known, Checked

LEMMA NextKnown ==
    ASSUME Known, [Next]_vars
    PROVE  Known' /\ (sent' # sent => Checked)
<1>1. CASE Send
    BY <1>1, SendKnown
<1>2. CASE Build
    BY <1>2, BuildKnown DEF Build
<1>3. CASE Again \/ Check \/ Lookup \/ Abort \/ Accept
    BY <1>3, AgainKnown, CheckKnown, LookupKnown, BreaksKnown, AcceptKnown
       DEF Again, Check, Lookup, Abort, Accept
<1>4. CASE Redirect \/ ErrorStatus \/ Good \/ Breaks \/ Chunk \/ BodyDone
    BY <1>4, RedirectKnown, ErrorStatusKnown, GoodKnown, BreaksKnown, ChunkKnown, BodyDoneKnown
       DEF Redirect, ErrorStatus, Good, Breaks, Chunk, BodyDone, Answered
<1>5. CASE Tick
    BY <1>5, TickKnown DEF Tick
<1>6. CASE UNCHANGED vars
    BY <1>6 DEF vars, Known, Typed, Counted, Timed, Judged, Definitive, Checked
<1> QED BY <1>1, <1>2, <1>3, <1>4, <1>5, <1>6 DEF Next, Step

LEMMA AlwaysKnown == Spec => []Known
<1>1. Init => Known
    BY KnownInit
<1>2. Known /\ [Next]_vars => Known'
    BY NextKnown
<1> QED BY <1>1, <1>2, PTL DEF Spec

-----------------------------------------------------------------------------
(* Theorems                                                                  *)

\* raw is a way of writing a domain until the URL is built, and nothing after that.
RawText == raw \in Texts

LEMMA RawIsText == Spec => []RawText
<1>1. Init => RawText
    BY RawsAssumption DEF Init, Texts, RawText
<1>2. RawText /\ [Next]_vars => RawText'
    <2> SUFFICES ASSUME RawText, [Next]_vars PROVE RawText'
        OBVIOUS
    <2>1. raw' = raw \/ raw' = <<>>
        BY DEF Next, Step, vars, Build, Again, Check, Lookup, Send, Abort, Accept, Redirect,
               ErrorStatus, Good, Breaks, Chunk, BodyDone, Tick, Answered
    <2>2. <<>> \in Texts
        BY EmptySeq DEF Texts
    <2> QED BY <2>1, <2>2 DEF RawText
<1> QED BY <1>1, <1>2, PTL DEF Spec

\* Types, and with them the limits on attempts, redirects, body and times.
THEOREM TypesHold == Spec => []TypeOK
<1>1. RawText /\ Known => TypeOK
    BY DEF RawText, Texts, Known, Typed, Gets, TypeOK
<1> QED BY <1>1, RawIsText, AlwaysKnown, PTL

\* One publisher, one host: in whatever of the spellings a host is written, the host is
\* stored, has its rate limited and is requested.
THEOREM SpellingsLeadToOneHost == Spec => []SpellingsAgree
<1>1. RawText => SpellingsAgree
    BY SpellingsAreWritten, EverySpelling DEF SpellingsAgree, RawText
<1> QED BY <1>1, RawIsText, PTL

\* What is stored is a host, and the same when it is normalized again.
THEOREM StoredIsHost == Spec => []NormalIsHost
<1>1. RawText => NormalIsHost
    BY NormalizingTwice DEF RawText, NormalIsHost
<1> QED BY <1>1, RawIsText, PTL

\* A call of get makes at most retryLimit times (redirectLimit + 1) requests.
THEOREM RequestsAreBounded == Spec => []RequestsBounded
<1>1. Known => RequestsBounded
    <2> SUFFICES ASSUME Known PROVE RequestsBounded
        OBVIOUS
    <2>1. /\ get.attempt \in Nat \ {0} /\ get.attempt <= RetryLimit /\ sent \in Nat
          /\ get.redirectCount \in Nat /\ get.redirectCount <= RedirectLimit
        BY Limits DEF Known, Typed, Gets
    <2>2. /\ SentBefore(get.attempt) \in Nat /\ SentBefore(RetryLimit) \in Nat
          /\ SentBefore(get.attempt) <= SentBefore(RetryLimit)
          /\ SentBefore(RetryLimit + 1) = SentBefore(RetryLimit) + RedirectLimit + 1
        BY <2>1, Befores, Limits
    <2>3. sent <= SentBefore(RetryLimit + 1)
        BY <2>1, <2>2, Limits DEF Known, Counted
    <2>4. SentBefore(RetryLimit + 1) = RetryLimit * (RedirectLimit + 1)
        BY Limits DEF SentBefore
    <2> QED BY <2>3, <2>4 DEF RequestsBounded
<1> QED BY <1>1, AlwaysKnown, PTL

\* Every request goes to an address or name that validateOutboundUrl has let through in
\* this very hop.
THEOREM OnlyCheckedGoesOut == Spec => OnlyCheckedIsSent
<1>1. Known /\ [Next]_vars =>
        [sent' # sent => \/ get.url = "public"
                         \/ get.url = "name" /\ get.answer \in {"public", "unknown"}]_vars
    BY NextKnown DEF Checked
<1> QED BY <1>1, AlwaysKnown, PTL DEF Spec, OnlyCheckedIsSent

\* Nothing definitive is repeated, nothing transient given up early.
THEOREM RetriesFollowFailures == Spec => []RetriesAreRight
<1>1. Known => RetriesAreRight
    BY DEF Known, Judged, RetriesAreRight
<1> QED BY <1>1, AlwaysKnown, PTL

\* The handlers' list of retryable codes agrees with the client's.
THEOREM ListsAgree == Spec => []VerdictsAgree
<1>1. Known => VerdictsAgree
    <2> SUFFICES ASSUME Known, get.pc = "thrown"
                 PROVE  isRetryableErrorCode(Code) <=> ~ Definitive
        BY DEF VerdictsAgree
    <2>1. PICK e \in Failures \cup Rejections : get.input = e[1] /\ get.status = e[2]
        BY DEF Known, Judged
    <2> QED BY <2>1, Verdicts, DefinitiveIs DEF Code
<1> QED BY <1>1, AlwaysKnown, PTL

\* The time a call of get takes, lookups and Retry-After apart.
THEOREM TimeStaysBounded == Spec => []TimeIsBounded
<1>1. Known => TimeIsBounded
    <2> SUFFICES ASSUME Known PROVE TimeIsBounded
        OBVIOUS
    <2>1. /\ get.attempt \in Nat \ {0} /\ get.attempt <= RetryLimit
          /\ spent \in Nat /\ get.timer \in Nat
        BY Limits DEF Known, Typed, Gets
    <2>2. spent <= SpentBefore(RetryLimit) + TimeoutTicks
        <3>1. CASE get.pc = "backoff"
            <4>1. get.attempt + 1 \in Nat \ {0} /\ get.attempt + 1 <= RetryLimit
                BY <2>1, <3>1, Limits DEF Known, Judged
            <4>2. SpentBefore(get.attempt + 1) <= SpentBefore(RetryLimit)
                BY <4>1, Befores, Limits
            <4>3. SpentBefore(get.attempt + 1) \in Nat /\ SpentBefore(RetryLimit) \in Nat
                BY <4>1, Befores, Limits
            <4>4. spent <= SpentBefore(get.attempt + 1)
                BY <3>1 DEF Known, Timed
            <4> QED BY <2>1, <4>2, <4>3, <4>4, Limits
        <3>2. CASE get.pc # "backoff"
            <4>1. /\ SpentBefore(get.attempt) <= SpentBefore(RetryLimit)
                  /\ SpentBefore(get.attempt) \in Nat /\ SpentBefore(RetryLimit) \in Nat
                BY <2>1, Befores, Limits
            <4> QED BY <2>1, <3>2, <4>1, Limits DEF Known, Timed
        <3> QED BY <3>1, <3>2
    <2>3. SpentBefore(RetryLimit) + TimeoutTicks
            = RetryLimit * TimeoutTicks + (RetryLimit - 1) * LongestBackoff
        BY Limits DEF SpentBefore
    <2> QED BY <2>2, <2>3 DEF TimeIsBounded, LongestBackoff
<1> QED BY <1>1, AlwaysKnown, PTL

-----------------------------------------------------------------------------
(* What a request has left                                                   *)

\* The values of the two ranks.
LEMMA RanksAre ==
    /\ Stages \in [PCs -> 0..3] /\ Awaits \in [PCs -> 0..5]
    /\ Stages["start"] = 3 /\ Stages["backoff"] = 1
    /\ Stages["accepted"] = 0 /\ Stages["thrown"] = 0
    /\ \A pc \in {"check", "lookup", "call", "await", "body", "returned"} : Stages[pc] = 2
    /\ Awaits["check"] = 5 /\ Awaits["lookup"] = 4 /\ Awaits["call"] = 3
    /\ Awaits["await"] = 2 /\ Awaits["body"] = 1 /\ Awaits["returned"] = 0
BY DEF Stages, Awaits, PCs

\* One budget is lower, and those before it are the same.
LEMMA OneSpent ==
    ASSUME NEW b \in [1..6 -> Int], NEW c \in [1..6 -> Int],
           \/ b[1] < c[1]
           \/ b[1] = c[1] /\ b[2] < c[2]
           \/ b[1] = c[1] /\ b[2] = c[2] /\ b[3] < c[3]
           \/ b[1] = c[1] /\ b[2] = c[2] /\ b[3] = c[3] /\ b[4] < c[4]
           \/ b[1] = c[1] /\ b[2] = c[2] /\ b[3] = c[3] /\ b[4] = c[4] /\ b[5] < c[5]
           \/ /\ b[1] = c[1] /\ b[2] = c[2] /\ b[3] = c[3] /\ b[4] = c[4] /\ b[5] = c[5]
              /\ b[6] < c[6]
    PROVE  Lower(b, c)
<1>1. CASE b[1] < c[1]
    <2>1. 1 \in 1..6 /\ \A k \in 1..(1 - 1) : b[k] = c[k]
        OBVIOUS
    <2> QED BY <1>1, <2>1 DEF Lower
<1>2. CASE b[1] = c[1] /\ b[2] < c[2]
    <2>1. 2 \in 1..6 /\ \A k \in 1..(2 - 1) : b[k] = c[k]
        BY <1>2
    <2> QED BY <1>2, <2>1 DEF Lower
<1>3. CASE b[1] = c[1] /\ b[2] = c[2] /\ b[3] < c[3]
    <2>1. 3 \in 1..6 /\ \A k \in 1..(3 - 1) : k = 1 \/ k = 2
        OBVIOUS
    <2> QED BY <1>3, <2>1 DEF Lower
<1>4. CASE b[1] = c[1] /\ b[2] = c[2] /\ b[3] = c[3] /\ b[4] < c[4]
    <2>1. 4 \in 1..6 /\ \A k \in 1..(4 - 1) : k = 1 \/ k = 2 \/ k = 3
        OBVIOUS
    <2> QED BY <1>4, <2>1 DEF Lower
<1>5. CASE b[1] = c[1] /\ b[2] = c[2] /\ b[3] = c[3] /\ b[4] = c[4] /\ b[5] < c[5]
    <2>1. 5 \in 1..6 /\ \A k \in 1..(5 - 1) : k = 1 \/ k = 2 \/ k = 3 \/ k = 4
        OBVIOUS
    <2> QED BY <1>5, <2>1 DEF Lower
<1>6. CASE /\ b[1] = c[1] /\ b[2] = c[2] /\ b[3] = c[3] /\ b[4] = c[4] /\ b[5] = c[5]
           /\ b[6] < c[6]
    <2>1. 6 \in 1..6 /\ \A k \in 1..(6 - 1) : k = 1 \/ k = 2 \/ k = 3 \/ k = 4 \/ k = 5
        OBVIOUS
    <2> QED BY <1>6, <2>1 DEF Lower
<1> QED BY <1>1, <1>2, <1>3, <1>4, <1>5, <1>6

\* All budgets are natural numbers.
LEMMA BudgetsAre ==
    ASSUME NEW g \in Gets
    PROVE  /\ Budgets(g) \in [1..6 -> Nat]
           /\ Budgets(g)[1] = RetryLimit - g.attempt
           /\ Budgets(g)[2] = Stages[g.pc]
           /\ Budgets(g)[3] = RedirectLimit - g.redirectCount
           /\ Budgets(g)[4] = Awaits[g.pc]
           /\ Budgets(g)[5] = MaxResponseSize - g.total
           /\ Budgets(g)[6] = g.timer + g.delay
<1>1. /\ RetryLimit - g.attempt \in Nat /\ RedirectLimit - g.redirectCount \in Nat
      /\ MaxResponseSize - g.total \in Nat /\ g.timer + g.delay \in Nat
    BY Limits DEF Gets
<1>2. Stages[g.pc] \in Nat /\ Awaits[g.pc] \in Nat
    BY RanksAre DEF Gets
<1> QED BY <1>1, <1>2 DEF Budgets

\* The same of two records of get.
LEMMA SpentIs ==
    ASSUME NEW g \in Gets, NEW h \in Gets,
           \/ g.attempt < h.attempt
           \/ g.attempt = h.attempt
              /\ \/ Stages[h.pc] < Stages[g.pc]
                 \/ Stages[h.pc] = Stages[g.pc]
                    /\ \/ g.redirectCount < h.redirectCount
                       \/ g.redirectCount = h.redirectCount
                          /\ \/ Awaits[h.pc] < Awaits[g.pc]
                             \/ h.pc = g.pc /\ g.total < h.total
                             \/ h.pc = g.pc /\ g.total = h.total
                                /\ h.timer + h.delay < g.timer + g.delay
    PROVE  Lower(Budgets(h), Budgets(g))
<1>1. /\ g.attempt \in Int /\ h.attempt \in Int /\ RetryLimit \in Int /\ RedirectLimit \in Int
      /\ g.redirectCount \in Int /\ h.redirectCount \in Int /\ MaxResponseSize \in Int
      /\ g.total \in Int /\ h.total \in Int
    BY Limits DEF Gets
<1> DEFINE b == Budgets(h)
           c == Budgets(g)
<1>2. b \in [1..6 -> Int] /\ c \in [1..6 -> Int]
    BY BudgetsAre
<1>3. \/ b[1] < c[1]
      \/ b[1] = c[1] /\ b[2] < c[2]
      \/ b[1] = c[1] /\ b[2] = c[2] /\ b[3] < c[3]
      \/ b[1] = c[1] /\ b[2] = c[2] /\ b[3] = c[3] /\ b[4] < c[4]
      \/ b[1] = c[1] /\ b[2] = c[2] /\ b[3] = c[3] /\ b[4] = c[4] /\ b[5] < c[5]
      \/ /\ b[1] = c[1] /\ b[2] = c[2] /\ b[3] = c[3] /\ b[4] = c[4] /\ b[5] = c[5]
         /\ b[6] < c[6]
    BY <1>1, BudgetsAre
<1> HIDE DEF b, c
<1>4. Lower(b, c)
    BY <1>2, <1>3, OneSpent
<1> QED BY <1>4 DEF b, c

\* What executeRequest throws ends the attempt, or the whole of get.
LEMMA ThrowsSpends ==
    ASSUME get \in Gets, get' \in Gets, NEW input, NEW status, NEW after,
           get.pc \in {"check", "lookup", "call", "await", "body"}, Throws(input, status, after)
    PROVE  Lower(Budgets(get'), Budgets(get))
<1> DEFINE thrown == [get EXCEPT !.pc = "thrown", !.input = input, !.status = status,
                                 !.timer = 0, !.total = 0]
<1>3. \/ get' = thrown
      \/ \E d, b : get' = [thrown EXCEPT !.pc = "backoff", !.delay = d, !.asked = b]
    BY Zenon DEF Throws
<1>1. get'.attempt = get.attempt /\ get'.pc \in {"backoff", "thrown"}
    BY <1>3 DEF Gets
<1>2. Stages[get'.pc] < Stages[get.pc]
    BY <1>1, RanksAre
<1> QED BY <1>1, <1>2, SpentIs

\* The call of get is untouched until the URL is built.
Untouched == get.pc = "start" => get = NoGet

LEMMA UntouchedKept == ASSUME Known, Untouched, [Next]_vars PROVE Untouched'
<1>g. get \in Gets
    BY DEF Known, Typed
<1>1. ASSUME NEW input, NEW status, NEW after, Throws(input, status, after)
      PROVE  get'.pc # "start"
    <2> DEFINE thrown == [get EXCEPT !.pc = "thrown", !.input = input, !.status = status,
                                     !.timer = 0, !.total = 0]
    <2>1. \/ get' = thrown
          \/ \E d, b : get' = [thrown EXCEPT !.pc = "backoff", !.delay = d, !.asked = b]
        BY <1>1, Zenon DEF Throws
    <2> QED BY <1>g, <2>1 DEF Gets
<1>2. CASE Build \/ Again
    <2>1. ASSUME NEW n, NEW u, get' = Attempt(n, u) PROVE get'.pc # "start"
        BY <2>1 DEF Attempt, NoGet
    <2> QED BY <1>g, <1>2, <2>1 DEF Build, Again, Ended, Gets, Untouched
<1>3. CASE Check \/ Lookup \/ Abort \/ ErrorStatus \/ Breaks
    BY <1>g, <1>1, <1>3 DEF Check, Lookup, Abort, ErrorStatus, Breaks, Gets, Untouched
<1>4. CASE Redirect \/ Chunk
    BY <1>g, <1>1, <1>4 DEF Redirect, Chunk, ChunkAdded, Follow, At, Gets, Untouched
<1>5. CASE Send \/ Good \/ BodyDone \/ Accept
    BY <1>g, <1>5 DEF Send, Good, BodyDone, Accept, Ended, Gets, Untouched
<1>6. CASE Tick
    BY <1>g, <1>6 DEF Tick, At, Gets, Untouched
<1>7. CASE UNCHANGED vars
    BY <1>7 DEF vars, Untouched
<1> QED BY <1>2, <1>3, <1>4, <1>5, <1>6, <1>7 DEF Next, Step

LEMMA StepSpends ==
    ASSUME Known, Untouched, get' \in Gets, Next
    PROVE  Lower(Budgets(get'), Budgets(get))
<1>g. get \in Gets /\ get.attempt \in Nat
    BY Limits DEF Known, Typed, Gets
<1>s. ASSUME get'.attempt = get.attempt, Stages[get'.pc] < Stages[get.pc]
      PROVE  Lower(Budgets(get'), Budgets(get))
    BY <1>g, <1>s, SpentIs
<1>a. ASSUME get'.attempt = get.attempt, get'.redirectCount = get.redirectCount,
             Stages[get'.pc] = Stages[get.pc], Awaits[get'.pc] < Awaits[get.pc]
      PROVE  Lower(Budgets(get'), Budgets(get))
    BY <1>g, <1>a, SpentIs
<1>t. ASSUME NEW input, NEW status, NEW after, Throws(input, status, after),
             get.pc \in {"check", "lookup", "call", "await", "body"}
      PROVE  Lower(Budgets(get'), Budgets(get))
    BY <1>g, <1>t, ThrowsSpends
<1>1. CASE Build
    <2>1. CASE \E input, status : Ended(input, status)
        <3>1. get'.attempt = get.attempt /\ get'.pc = "thrown" /\ get.pc = "start"
            BY <1>1, <2>1, <1>g DEF Build, At, Ended, Gets
        <3> QED BY <3>1, <1>s, RanksAre
    <2>2. ASSUME NEW u \in BuiltUrls, get' = Attempt(1, u) PROVE Lower(Budgets(get'), Budgets(get))
        <3>1. get'.pc = "check" /\ get'.attempt = 1 /\ get.pc = "start"
            BY <1>1, <2>2, AttemptIs, Limits DEF Build, At
        <3>2. get.attempt = 1
            BY <3>1 DEF Untouched, NoGet
        <3> QED BY <3>1, <3>2, <1>s, RanksAre
    <2> QED BY <1>1, <2>1, <2>2 DEF Build
<1>2. CASE Again
    <2>1. get'.attempt = get.attempt + 1
        BY <1>2, <1>g, Limits DEF Again, At, Known, Judged, Attempt, NoGet
    <2> QED BY <2>1, <1>g, SpentIs
<1>3. CASE Check
    <2>1. CASE get.url \in {"public", "name"}
        <3>1. /\ get'.attempt = get.attempt /\ get'.redirectCount = get.redirectCount
              /\ get'.pc \in {"call", "lookup"} /\ get.pc = "check"
            BY <1>3, <2>1, <1>g DEF Check, At, Gets
        <3> QED BY <3>1, <1>a, RanksAre
    <2>2. CASE get.url \notin {"public", "name"}
        <3>1. Throws("SsrfBlocked", NoStatus, {}) /\ get.pc = "check"
            BY <1>3, <2>2 DEF Check, At
        <3> QED BY <3>1, <1>t
    <2> QED BY <2>1, <2>2
<1>4. CASE Lookup
    <2>1. CASE Throws("NetworkError", NoStatus, {})
        BY <1>4, <2>1, <1>t DEF Lookup, At
    <2>2. ASSUME NEW answer, get' = [get EXCEPT !.pc = "call", !.answer = answer]
          PROVE  Lower(Budgets(get'), Budgets(get))
        <3>1. /\ get'.attempt = get.attempt /\ get'.redirectCount = get.redirectCount
              /\ get'.pc = "call" /\ get.pc = "lookup"
            BY <1>4, <2>2, <1>g DEF Lookup, At, Gets
        <3> QED BY <3>1, <1>a, RanksAre
    <2> QED BY <1>4, <2>1, <2>2 DEF Lookup
<1>5. CASE Send \/ Good \/ BodyDone
    <2>1. /\ get'.attempt = get.attempt /\ get'.redirectCount = get.redirectCount
          /\ \/ get.pc = "call" /\ get'.pc = "await"
             \/ get.pc = "await" /\ get'.pc = "body"
             \/ get.pc = "body" /\ get'.pc = "returned"
        BY <1>5, <1>g DEF Send, Good, Answered, BodyDone, At, Gets
    <2> QED BY <2>1, <1>a, RanksAre
<1>6. CASE Redirect
    <2>0. get.pc = "await"
        BY <1>6 DEF Redirect, Answered, At
    <2>1. CASE \E input, status : Throws(input, status, {})
        BY <2>0, <2>1, <1>t
    <2>2. ASSUME NEW u, get' = Follow(u) PROVE Lower(Budgets(get'), Budgets(get))
        <3>1. /\ get'.attempt = get.attempt /\ get'.redirectCount = get.redirectCount + 1
              /\ get'.pc = "check" /\ get.redirectCount < get.redirectCount + 1
            BY <2>2, <1>g DEF Follow, Gets
        <3>2. Stages[get'.pc] = Stages[get.pc]
            BY <2>0, <3>1, RanksAre
        <3> QED BY <1>g, <3>1, <3>2, SpentIs
    <2> QED BY <1>6, <2>1, <2>2 DEF Redirect
<1>7. CASE ErrorStatus \/ Breaks \/ Abort
    <2>1. get.pc \in {"call", "await", "body"} /\ \E input, status, after : Throws(input, status, after)
        BY <1>7 DEF ErrorStatus, Breaks, Abort, Answered, At
    <2> QED BY <2>1, <1>t
<1>8. CASE Chunk
    <2>1. PICK n \in 1..(MaxResponseSize + 1) : ChunkAdded(n)
        BY <1>8 DEF Chunk
    <2>2. get.pc = "body" /\ n \in Nat /\ n > 0
        BY <1>8, <2>1, Limits DEF Chunk, At
    <2>3. CASE Throws("ResponseTooLarge", 200, {})
        BY <2>2, <2>3, <1>t
    <2>4. CASE get' = [get EXCEPT !.total = @ + n]
        <3>1. /\ get'.attempt = get.attempt /\ get'.redirectCount = get.redirectCount
              /\ get'.pc = get.pc /\ get.total < get'.total
            BY <2>2, <2>4, <1>g DEF Gets
        <3> QED BY <1>g, <3>1, SpentIs
    <2> QED BY <2>1, <2>3, <2>4 DEF ChunkAdded
<1>9. CASE Accept
    <2>1. /\ get'.attempt = get.attempt /\ get'.pc \in {"accepted", "thrown"}
          /\ get.pc = "returned"
        BY <1>9, <1>g DEF Accept, At, Ended, Gets
    <2> QED BY <2>1, <1>s, RanksAre
<1>10. CASE Tick
    <2>1. /\ get'.attempt = get.attempt /\ get'.redirectCount = get.redirectCount
          /\ get'.pc = get.pc /\ get'.total = get.total
          /\ get'.timer = IF get.timer > 0 THEN get.timer - 1 ELSE 0
          /\ get'.delay = IF get.delay > 0 THEN get.delay - 1 ELSE 0
          /\ get.timer > 0 \/ get.delay > 0
        BY <1>10, <1>g DEF Tick, Gets
    <2>2. get.timer \in Nat /\ get.delay \in Nat
        BY <1>g, Limits DEF Gets
    <2>3. get'.timer + get'.delay < get.timer + get.delay
        BY <2>1, <2>2
    <2> QED BY <1>g, <2>1, <2>3, SpentIs
<1> QED BY <1>1, <1>2, <1>3, <1>4, <1>5, <1>6, <1>7, <1>8, <1>9, <1>10 DEF Next, Step

\* Every step of a request lowers what is left of it, in an order of natural numbers: what a
\* server can do between two failures, and the failures themselves, come to an end.
THEOREM EveryStepSpends == Spec => BudgetsRunDown
<1>1. Init => Untouched
    BY DEF Init, Untouched
<1>2. Known /\ Untouched /\ [Next]_vars => Untouched'
    BY UntouchedKept
<1>3. Known /\ Untouched /\ [Next]_vars => [Lower(Budgets(get'), Budgets(get))]_vars
    <2> SUFFICES ASSUME Known, Untouched, Next PROVE Lower(Budgets(get'), Budgets(get))
        OBVIOUS
    <2>1. Known'
        BY NextKnown
    <2> QED BY <2>1, StepSpends DEF Known, Typed
<1> QED BY <1>1, <1>2, <1>3, AlwaysKnown, PTL DEF Spec, BudgetsRunDown

=============================================================================
