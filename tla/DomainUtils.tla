---------------------------- MODULE DomainUtils -----------------------------
(***************************************************************************)
(* domain.utils.ts: how a publisher's domain, written in one of many ways,  *)
(* becomes the host that is stored, rate-limited and requested.  A text is  *)
(* a sequence of characters, of which only their kinds matter: "a" and "A"  *)
(* are letters, "0" is what else a name may contain, "blank" is one, the    *)
(* others are themselves.                                                   *)
(***************************************************************************)
EXTENDS Integers, Sequences, FiniteSetsExt

Chars == {"a", "A", "0", ".", "/", ":", "?", "blank"}
Invalid == <<>>    \* normalizeDomain throws InvalidDomain; it never returns ''

LowerCase(s) == [i \in DOMAIN s |-> IF s[i] = "A" THEN "a" ELSE s[i]]

\* s without the characters of C at both ends: trim, and the dots.
Strip(s, C) ==
    LET kept == {i \in DOMAIN s : s[i] \notin C} IN
    IF kept = {} THEN <<>> ELSE SubSeq(s, Min(kept), Max(kept))

\* s.split(c)[0]
Before(s, c) ==
    LET cuts == {i \in DOMAIN s : s[i] = c} IN
    IF cuts = {} THEN s ELSE SubSeq(s, 1, Min(cuts) - 1)

\* s.replace(/^[a-z]+:\/\//, '')
WithoutProtocol(s) ==
    LET names == {n \in 1..(Len(s) - 3) : /\ \A i \in 1..n : s[i] = "a"
                                          /\ SubSeq(s, n + 1, n + 3) = <<":", "/", "/">>}
    IN IF names = {} THEN s ELSE SubSeq(s, Max(names) + 4, Len(s))

\* Mutant: the dots go before the port does.
WithoutPortLast(s) == Before(Strip(Before(Before(s, "/"), "?"), {"."}), ":")

\* Mutant: the query stays.
WithoutPortOnly(s) == Strip(Before(Before(s, "/"), ":"), {"."})

\* The path, the query, the port, and then the dots at the ends.
WithoutPath(s) == Strip(Before(Before(Before(s, "/"), "?"), ":"), {"."})

Holds(s, c) == \E i \in DOMAIN s : s[i] = c

normalizeDomain(value) ==
    LET normalized == WithoutPath(WithoutProtocol(LowerCase(Strip(value, {"blank"})))) IN
    IF Holds(normalized, ".") /\ ~ Holds(normalized, "blank") THEN normalized ELSE Invalid

-----------------------------------------------------------------------------
\* What a host is, said without the steps that produce one.
IsHost(s) ==
    /\ Holds(s, ".") /\ s[1] # "." /\ s[Len(s)] # "."
    /\ \A i \in DOMAIN s : s[i] \in {"a", "0", "."}

\* Ways to write the host h.
UpperCase(h) == [i \in DOMAIN h |-> IF h[i] = "a" THEN "A" ELSE h[i]]
Protocols == {<<>>, <<"blank">>, <<"a", ":", "/", "/">>, <<"blank", "A", "A", ":", "/", "/">>}
Tails == {<<>>, <<".">>, <<":", "0">>, <<".", ":", "0", "/">>, <<"/", "a", "?", ":">>,
          <<"?", "a", ".", "/">>, <<"/", ":", "/", "/", "blank">>}
Spellings(h) == {p \o n \o t : p \in Protocols, n \in {h, UpperCase(h)}, t \in Tails}

=============================================================================
