----------------------------- MODULE HttpClient -----------------------------
(***************************************************************************)
(* The request for one app-ads.txt: AdsTxtFetcher makes a URL of the        *)
(* publisher's domain, ReliableHttpClient.get checks it, sends it, follows  *)
(* redirects, reads a bounded body and repeats what may go better the next  *)
(* time, AdsTxtFetcher looks at the content type.  What is stored then is   *)
(* in Pipeline, the lease that is held all the while in RateLimiter.        *)
(*                                                                          *)
(* A URL is what validateOutboundUrl can tell of it: "scheme" is not http,  *)
(* "local" a blocked or bare name, "private" and "public" are addresses,    *)
(* "name" has to be looked up.                                              *)
(***************************************************************************)
EXTENDS DomainUtils

CONSTANTS Raws,           \* ways in which a publisher's domain is written
          RetryLimit, RedirectLimit, MaxResponseSize, TimeoutTicks,  \* config.http
          BaseDelay,      \* config.http.retryBaseDelayMs, in ticks
          LongestDelay,   \* the 30_000 of computeBackoffWithJitter, in ticks
          RetryAfters     \* what servers ask for: an arbitrary bound of the model

ASSUME LimitsAssumption == /\ RetryLimit \in Nat \ {0} /\ RedirectLimit \in Nat \ {0}
                           /\ MaxResponseSize \in Nat \ {0} /\ TimeoutTicks \in Nat \ {0}
                           /\ BaseDelay \in Nat \ {0} /\ LongestDelay \in Nat \ {0}
                           /\ RetryAfters \subseteq Nat
ASSUME RawsAssumption == Raws \subseteq Seq(Chars)

VARIABLES raw,    \* application.publisherDomain, until the URL is built
          get,    \* the locals of get and executeRequest
          sent,   \* how many requests have gone out
          spent   \* ticks spent, without lookups and what a server asked to wait

vars == <<raw, get, sent, spent>>

BuiltUrls == {"local", "private", "public", "name"}
Urls == BuiltUrls \cup {"scheme"}
Answers == {"none", "public", "private", "unknown", "broken"}
Codes == {"Permanent", "Temporary", "RateLimited", "NotFound", "Forbidden", "InvalidDomain",
          "InvalidUrl", "InvalidContent", "ResponseTooLarge", "SsrfBlocked", "Timeout",
          "NetworkError"}
Natives == {"abort", "network", "other"}    \* errors that are no ScraperError
NoStatus == 0
Statuses == {NoStatus, 200, 302, 403, 404, 410, 429, 503}
PCs == {"start", "check", "lookup", "call", "await", "body", "backoff", "returned",
        "accepted", "thrown"}

\* `url` is currentUrl and `built` options.url, `answer` what the lookup of url has
\* said, `input` and `status` what was thrown, `asked` whether the delay is a
\* Retry-After.
NoGet == [pc |-> "start", built |-> "name", url |-> "name", answer |-> "none",
          attempt |-> 1, redirectCount |-> 0, total |-> 0, timer |-> 0, delay |-> 0,
          asked |-> FALSE, input |-> "other", status |-> NoStatus]

Init == raw \in Raws /\ get = NoGet /\ sent = 0 /\ spent = 0

-----------------------------------------------------------------------------
(* Classification                                                            *)

NamedStatuses == [s \in {403, 404, 429} |-> CASE s = 403 -> "Forbidden"
                                              [] s = 404 -> "NotFound"
                                              [] s = 429 -> "RateLimited"]

\* Mutant: no case for 429.
ClassifyWithout429(input, status) ==
    IF status \in {403, 404} THEN NamedStatuses[status]
    ELSE IF status >= 500 THEN "Temporary"
    ELSE IF status >= 400 THEN "Permanent"
    ELSE IF input \in Codes THEN input
    ELSE [abort |-> "Timeout", network |-> "NetworkError", other |-> "Temporary"][input]

classifyHttpFailure(input, status) ==
    IF status \in DOMAIN NamedStatuses THEN NamedStatuses[status]
    ELSE IF status >= 500 THEN "Temporary"
    ELSE IF status >= 400 THEN "Permanent"
    ELSE IF input \in Codes THEN input
    ELSE [abort |-> "Timeout", network |-> "NetworkError", other |-> "Temporary"][input]

Transient == {"Temporary", "RateLimited", "Timeout", "NetworkError"}

shouldRetryHttpError(code, status) ==
    code \in Transient /\ (status \in 400..499 => status = 429)

\* Mutant: a rate limit is for ever.
RetryableButLimited(code) == code \in Transient \ {"RateLimited"}

\* What the handlers go by, and with them the row in scraping_jobs.
isRetryableErrorCode(code) == code \in Transient

Code == classifyHttpFailure(get.input, get.status)

-----------------------------------------------------------------------------
(* Attempts                                                                  *)

\* Mutant: no 30 s limit.
UnboundedBackoffs(attempt) ==
    LET e == BaseDelay * 2 ^ (attempt - 1) IN
    {e + jitter : jitter \in 0..((IF e \div 4 > 1 THEN e \div 4 ELSE 1) - 1)}

\* computeBackoffWithJitter
Backoffs(attempt) ==
    LET e == Min({LongestDelay, BaseDelay * 2 ^ (attempt - 1)}) IN
    {e + jitter : jitter \in 0..((IF e \div 4 > 1 THEN e \div 4 ELSE 1) - 1)}

\* executeRequest has thrown: the catch block of get.  `after` is {} or the set of
\* the Retry-After of an error response.
Throws(input, status, after) ==
    LET thrown == [get EXCEPT !.pc = "thrown", !.input = input, !.status = status,
                              !.timer = 0, !.total = 0]
    IN IF /\ shouldRetryHttpError(classifyHttpFailure(input, status), status)
          /\ get.attempt < RetryLimit
       THEN \E d \in IF after # {} THEN after ELSE Backoffs(get.attempt) :
              get' = [thrown EXCEPT !.pc = "backoff", !.delay = d, !.asked = after # {}]
       ELSE get' = thrown

Ended(input, status) ==
    get' = [get EXCEPT !.pc = "thrown", !.input = input, !.status = status, !.total = 0]

\* An attempt starts over with the first URL and a timeout of its own.
Attempt(n, u) == [NoGet EXCEPT !.pc = "check", !.built = u, !.url = u, !.attempt = n,
                               !.timer = TimeoutTicks]

At(pcs) == get.pc \in pcs

\* normalizeDomain and buildAdsTxtUrl.  The URL constructor rejects some hosts.
Build ==
    /\ At({"start"})
    /\ raw' = <<>>
    /\ UNCHANGED <<sent, spent>>
    /\ IF normalizeDomain(raw) = Invalid
       THEN Ended("InvalidDomain", NoStatus)
       ELSE \/ \E u \in BuiltUrls : get' = Attempt(1, u)
            \/ Ended("other", NoStatus)

\* The delay is over; clearTimeout, and the next round of the loop.
Again ==
    /\ At({"backoff"})
    /\ get.delay = 0
    /\ get' = Attempt(get.attempt + 1, get.built)
    /\ UNCHANGED <<raw, sent, spent>>

-----------------------------------------------------------------------------
(* validateOutboundUrl                                                       *)

Check ==
    /\ At({"check"})
    /\ CASE get.url = "public" -> get' = [get EXCEPT !.pc = "call"]
         [] get.url = "name"   -> get' = [get EXCEPT !.pc = "lookup"]
         [] OTHER              -> Throws("SsrfBlocked", NoStatus, {})
    /\ UNCHANGED <<raw, sent, spent>>

\* The lookup says a good address, one that is blocked, ENOTFOUND or EAI_AGAIN, or
\* something else.  What ensureSafeAddress throws is caught together with that.
Lookup ==
    /\ At({"lookup"})
    /\ \E answer \in Answers \ {"none"} :
         IF answer \in {"private", "broken"}
         THEN Throws("NetworkError", NoStatus, {})
         ELSE get' = [get EXCEPT !.pc = "call", !.answer = answer]
    /\ UNCHANGED <<raw, sent, spent>>

-----------------------------------------------------------------------------
(* executeRequest                                                            *)

\* fetch: nothing goes out when the signal is aborted already.
Send ==
    /\ At({"call"})
    /\ get.timer > 0
    /\ get' = [get EXCEPT !.pc = "await"]
    /\ sent' = sent + 1
    /\ UNCHANGED <<raw, spent>>

Answered == /\ At({"await"})
            /\ get.timer > 0
            /\ UNCHANGED <<raw, sent, spent>>

\* Mutant: the target of a redirect is not checked.
FollowUnchecked(u) == [get EXCEPT !.pc = "call", !.url = u, !.answer = "none",
                                  !.redirectCount = @ + 1]

Follow(u) == [get EXCEPT !.pc = "check", !.url = u, !.answer = "none",
                         !.redirectCount = @ + 1]

\* Mutant: one redirect more.
LimitPassed == get.redirectCount > RedirectLimit

LimitReached == get.redirectCount >= RedirectLimit

\* A redirect: without Location, one too many, to something that is no URL, or on.
Redirect ==
    /\ Answered
    /\ \/ Throws("InvalidUrl", 302, {})
       \/ LimitReached /\ Throws("Temporary", 302, {})
       \/ ~ LimitReached /\ Throws("other", NoStatus, {})
       \/ ~ LimitReached /\ \E u \in Urls : get' = Follow(u)

ErrorStatus ==
    /\ Answered
    /\ \E s \in {t \in Statuses : t >= 400}, after \in {{}} \cup {{n} : n \in RetryAfters} :
         Throws(classifyHttpFailure("other", s), s, after)

Good ==
    /\ Answered
    /\ get' = [get EXCEPT !.pc = "body"]

\* fetch rejects, or a body breaks off.
Breaks ==
    /\ At({"await", "body"})
    /\ get.timer > 0
    /\ \E e \in Natives \ {"abort"} : Throws(e, NoStatus, {})
    /\ UNCHANGED <<raw, sent, spent>>

\* Mutant: the size is compared before the chunk is added.
ChunkAddedLate(n) ==
    IF get.total > MaxResponseSize
    THEN Throws("ResponseTooLarge", 200, {})
    ELSE get' = [get EXCEPT !.total = @ + n]

\* Mutant: every chunk is measured by itself.
ChunkAlone(n) ==
    IF n > MaxResponseSize
    THEN Throws("ResponseTooLarge", 200, {})
    ELSE get' = [get EXCEPT !.total = n]

\* readBoundedBody has read another chunk.
ChunkAdded(n) ==
    IF get.total + n > MaxResponseSize
    THEN Throws("ResponseTooLarge", 200, {})
    ELSE get' = [get EXCEPT !.total = @ + n]

Chunk ==
    /\ At({"body"})
    /\ get.timer > 0
    /\ \E n \in 1..(MaxResponseSize + 1) : ChunkAdded(n)
    /\ UNCHANGED <<raw, sent, spent>>

BodyDone ==
    /\ At({"body"})
    /\ get.timer > 0
    /\ get' = [get EXCEPT !.pc = "returned", !.timer = 0]
    /\ UNCHANGED <<raw, sent, spent>>

\* Mutant: the signal is not given to the reader of the body.
AbortHeadersOnly ==
    /\ At({"call", "await"})
    /\ get.timer = 0
    /\ Throws("abort", NoStatus, {})
    /\ UNCHANGED <<raw, sent, spent>>

\* The timeout has fired: controller.abort().
Abort ==
    /\ At({"call", "await", "body"})
    /\ get.timer = 0
    /\ Throws("abort", NoStatus, {})
    /\ UNCHANGED <<raw, sent, spent>>

\* AdsTxtFetcher takes text, or what does not say what it is.
Accept ==
    /\ At({"returned"})
    /\ \/ get' = [get EXCEPT !.pc = "accepted"]
       \/ Ended("InvalidContent", 200)
    /\ UNCHANGED <<raw, sent, spent>>

Tick ==
    /\ \/ At({"lookup", "await", "body"}) /\ get.timer > 0
       \/ At({"backoff"}) /\ get.delay > 0
    /\ get' = [get EXCEPT !.timer = IF @ > 0 THEN @ - 1 ELSE 0,
                          !.delay = IF @ > 0 THEN @ - 1 ELSE 0]
    /\ spent' = IF At({"lookup"}) \/ get.asked THEN spent ELSE spent + 1
    /\ UNCHANGED <<raw, sent>>

\* What goes on by itself, whatever the server does.
Step == Again \/ Check \/ Lookup \/ Send \/ Abort \/ Accept

Next == Build \/ Step \/ Redirect \/ ErrorStatus \/ Good \/ Breaks \/ Chunk \/ BodyDone \/ Tick

Spec == Init /\ [][Next]_vars

\* Timers fire and lookups end; a server may be silent for ever.
Fairness == WF_vars(Tick) /\ WF_vars(Step)

FairSpec == Spec /\ Fairness

-----------------------------------------------------------------------------
\* Types, with the limits on attempts, redirects, body and times.
TypeOK ==
    /\ raw \in Seq(Chars)
    /\ get.pc \in PCs /\ get.built \in BuiltUrls /\ get.url \in Urls /\ get.answer \in Answers
    /\ get.attempt \in 1..RetryLimit /\ get.redirectCount \in 0..RedirectLimit
    /\ get.total \in 0..MaxResponseSize /\ get.timer \in 0..TimeoutTicks
    /\ get.delay \in Nat /\ get.asked \in BOOLEAN
    /\ get.input \in Codes \cup Natives /\ get.status \in Statuses
    /\ sent \in Nat /\ spent \in Nat

\* However servers redirect, fail and time out, one call of get makes no more
\* requests than its two limits allow together.
RequestsBounded == sent <= RetryLimit * (RedirectLimit + 1)

\* What is requested has passed validateOutboundUrl, as a whole and in this attempt:
\* the target of a redirect too, and a name with its lookup.
OnlyCheckedIsSent ==
    [][sent' # sent => \/ get.url = "public"
                       \/ get.url = "name" /\ get.answer \in {"public", "unknown"}]_vars

\* The answers that would be the same the next time.
Definitive == \/ get.input \in {"SsrfBlocked", "InvalidUrl", "ResponseTooLarge",
                                "InvalidDomain", "InvalidContent"}
              \/ get.status \in {403, 404, 410}

\* get repeats exactly what may go better the next time: nothing definitive is asked
\* again, nothing transient (429 and 5xx, network, timeout, too many redirects) is
\* given up before the last attempt.
RetriesAreRight ==
    /\ get.pc = "backoff" => ~ Definitive
    /\ (get.pc = "thrown" /\ ~ Definitive /\ sent > 0) => get.attempt = RetryLimit

\* The two lists of retryable codes agree: the row of a request that failed says
\* dead_letter if the failure is definitive and retrying otherwise.
VerdictsAgree == get.pc = "thrown" => (isRetryableErrorCode(Code) <=> ~ Definitive)

\* Silent servers and slow bodies cost no more than a timeout for each attempt, and
\* back-offs no more than their limit with its jitter, however the attempts fail.
TimeIsBounded ==
    spent <= RetryLimit * TimeoutTicks
             + (RetryLimit - 1) * (LongestDelay + LongestDelay \div 4)

\* What is left to a call of get, the most significant first: attempts, the stages of one,
\* redirects, the awaits of a hop, bytes of the body, ticks.
Stages == [pc \in PCs |-> CASE pc = "start" -> 3
                            [] pc = "backoff" -> 1
                            [] pc \in {"accepted", "thrown"} -> 0
                            [] OTHER -> 2]
Awaits == [pc \in PCs |-> CASE pc = "check" -> 5
                            [] pc = "lookup" -> 4
                            [] pc = "call" -> 3
                            [] pc = "await" -> 2
                            [] pc = "body" -> 1
                            [] OTHER -> 0]
Budgets(g) == <<RetryLimit - g.attempt, Stages[g.pc], RedirectLimit - g.redirectCount,
                Awaits[g.pc], MaxResponseSize - g.total, g.timer + g.delay>>

\* The order of their spending: one goes down, none before it goes up.
Lower(b, c) == \E i \in 1..6 : b[i] < c[i] /\ \A k \in 1..(i - 1) : b[k] = c[k]

\* No server can keep a request busy: every step, its answers, redirects and chunks as much
\* as the client's own, uses up some of a budget that nothing but a dearer one restores.
BudgetsRunDown == [][Lower(Budgets(get'), Budgets(get))]_vars

\* A request is over at some time even if a server never answers: what RateLimiter
\* assumes of those that hold a lease.
GetEnds == get.pc = "check" ~> get.pc \in {"accepted", "thrown"}

\* One publisher, one host: whatever way its domain is written in, the same host is
\* stored, has its rate limited and is requested.
SpellingsAgree == IsHost(raw) => \A s \in Spellings(raw) : normalizeDomain(s) = raw

\* Whatever is stored is a host, and stays the same when it is normalized again, as
\* fetch and buildAdsTxtUrl do.
NormalIsHost ==
    LET d == normalizeDomain(raw) IN d # Invalid => IsHost(d) /\ normalizeDomain(d) = d

=============================================================================
