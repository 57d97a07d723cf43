------------------------- MODULE DomainUtilsProofs --------------------------
(***************************************************************************)
(* Theorems about DomainUtils for texts of every length: what the steps of  *)
(* normalizeDomain return, that what comes out is a host, and that all the  *)
(* spellings of a host come out as that host.                               *)
(***************************************************************************)
EXTENDS DomainUtils, TLAPS, SequenceTheorems, WellFoundedInduction

-----------------------------------------------------------------------------
(* The least and the greatest index                                          *)

LEMMA Least ==
    ASSUME NEW S \in SUBSET Nat, S # {}
    PROVE  Min(S) \in S /\ \A y \in S : Min(S) <= y
<1>1. PICK x \in S : \A y \in S : <<y, x>> \notin OpToRel(<, Nat)
    BY NatLessThanWellFounded, WFMin
<1>2. \A y \in S : x <= y
    <2> SUFFICES ASSUME NEW y \in S, ~ (x <= y) PROVE FALSE
        OBVIOUS
    <2>1. x \in Nat /\ y \in Nat /\ y < x
        OBVIOUS
    <2>2. <<y, x>> \in OpToRel(<, Nat)
        BY <2>1 DEF OpToRel
    <2> QED BY <2>2, <1>1
<1> QED BY <1>2 DEF Min

\* The greatest is the least of the upper bounds.
LEMMA Greatest ==
    ASSUME NEW n \in Nat, NEW S \in SUBSET (1..n), S # {}
    PROVE  Max(S) \in S /\ \A y \in S : Max(S) >= y
<1> DEFINE B == {b \in 1..n : \A y \in S : y <= b}
<1>1. \A y \in S : y \in 1..n
    OBVIOUS
<1>2. B \in SUBSET Nat /\ n \in B
    <2>1. \E y \in S : y \in 1..n
        BY <1>1
    <2> QED BY <1>1, <2>1
<1>3. PICK m \in B : \A b \in B : m <= b
    <2>1. B # {}
        BY <1>2
    <2> HIDE DEF B
    <2>2. Min(B) \in B /\ \A b \in B : Min(B) <= b
        BY <1>2, <2>1, Least
    <2> QED BY <2>2
<1>4. m \in 1..n /\ \A y \in S : y <= m
    OBVIOUS
<1>5. m \in S
    <2> SUFFICES ASSUME m \notin S PROVE FALSE
        OBVIOUS
    <2>1. \A y \in S : y <= m - 1
        BY <1>1, <1>4
    <2>2. m - 1 \in 1..n
        <3>1. PICK y \in S : y \in 1..n
            BY <1>1
        <3> QED BY <1>4, <2>1, <3>1
    <2>3. m - 1 \in B
        BY <2>1, <2>2
    <2> QED BY <1>3, <1>4, <2>3
<1> QED BY <1>1, <1>4, <1>5 DEF Max

\* ... so that an index which is least or greatest is Min or Max.
LEMMA MinIs ==
    ASSUME NEW S \in SUBSET Nat, NEW m \in S, \A y \in S : m <= y
    PROVE  Min(S) = m
<1>1. Min(S) \in S /\ Min(S) <= m
    BY Least
<1>2. Min(S) \in Nat /\ m \in Nat /\ m <= Min(S)
    BY <1>1
<1> QED BY <1>1, <1>2

LEMMA MaxIs ==
    ASSUME NEW n \in Nat, NEW S \in SUBSET (1..n), NEW m \in S, \A y \in S : m >= y
    PROVE  Max(S) = m
<1>1. Max(S) \in S /\ Max(S) >= m
    BY Greatest
<1>2. Max(S) \in 1..n /\ m \in 1..n /\ m >= Max(S)
    BY <1>1
<1> QED BY <1>1, <1>2

-----------------------------------------------------------------------------
(* The steps of normalizeDomain                                              *)

Texts == Seq(Chars)

\* Every character of s is one of C.
Only(s, C) == \A i \in DOMAIN s : s[i] \in C

LEMMA SubSeqOnly ==
    ASSUME NEW s \in Texts, NEW C, Only(s, C), NEW m \in 1..Len(s), NEW n \in 0..Len(s)
    PROVE  SubSeq(s, m, n) \in Texts /\ Only(SubSeq(s, m, n), C)
<1>1. /\ SubSeq(s, m, n) \in Texts
      /\ Len(SubSeq(s, m, n)) = IF m <= n THEN n - m + 1 ELSE 0
      /\ \A i \in 1..(n - m + 1) : SubSeq(s, m, n)[i] = s[m + i - 1]
    BY SubSeqProperties, m \in Int, n \in Int, \A i \in m..n : s[i] \in Chars DEF Texts
<1> QED BY <1>1 DEF Only, Texts

\* Strip returns a part of s whose ends are not in C.
LEMMA StripIs ==
    ASSUME NEW s \in Texts, NEW C, NEW D, Only(s, D)
    PROVE  LET t == Strip(s, C) IN
           /\ t \in Texts /\ Only(t, D)
           /\ t # <<>> => t[1] \notin C /\ t[Len(t)] \notin C
<1> DEFINE kept == {i \in DOMAIN s : s[i] \notin C}
           t == Strip(s, C)
<1>1. CASE kept = {}
    BY <1>1 DEF Strip, Only, Texts
<1>2. CASE kept # {}
    <2> DEFINE m == Min(kept)
               n == Max(kept)
    <2>1. kept \in SUBSET (1..Len(s)) /\ kept \in SUBSET Nat /\ Len(s) \in Nat
        BY DEF Texts
    <2>2. m \in kept /\ n \in kept /\ m <= n
        BY <1>2, <2>1, Least, Greatest
    <2>3. t = SubSeq(s, m, n)
        BY <1>2 DEF Strip
    <2> HIDE DEF m, n
    <2>4. m \in 1..Len(s) /\ n \in 1..Len(s) /\ s[m] \notin C /\ s[n] \notin C
        BY <2>1, <2>2
    <2> HIDE DEF kept, t
    <2>5. t \in Texts /\ Only(t, D)
        BY <2>3, <2>4, SubSeqOnly
    <2>6. Len(t) = n - m + 1 /\ t[1] = s[m] /\ t[Len(t)] = s[n]
        BY <2>2, <2>3, <2>4 DEF Texts
    <2> QED BY <2>4, <2>5, <2>6 DEF t
<1> QED BY <1>1, <1>2

\* Before returns what is in front of the first c.
LEMMA BeforeIs ==
    ASSUME NEW s \in Texts, NEW c, NEW D, Only(s, D)
    PROVE  Before(s, c) \in Texts /\ Only(Before(s, c), D \ {c})
<1> DEFINE cuts == {i \in DOMAIN s : s[i] = c}
<1>1. CASE cuts = {}
    BY <1>1 DEF Before, Only
<1>2. CASE cuts # {}
    <2> DEFINE m == Min(cuts)
    <2>1. cuts \in SUBSET Nat
        BY DEF Texts
    <2>2. m \in cuts /\ \A y \in cuts : m <= y
        BY <1>2, <2>1, Least
    <2>3. Before(s, c) = SubSeq(s, 1, m - 1)
        BY <1>2 DEF Before
    <2> HIDE DEF m
    <2>4. m \in 1..Len(s)
        BY <2>2 DEF Texts
    <2>5. \A i \in 1..(m - 1) : s[i] \in D \ {c}
        BY <2>2, <2>4 DEF Only, Texts
    <2>6. /\ SubSeq(s, 1, m - 1) \in Seq(Chars)
          /\ DOMAIN SubSeq(s, 1, m - 1) = 1..(m - 1)
          /\ \A i \in 1..(m - 1) : SubSeq(s, 1, m - 1)[i] = s[i]
        BY <2>4 DEF Texts
    <2> QED BY <2>3, <2>5, <2>6 DEF Texts, Only
<1> QED BY <1>1, <1>2

\* ... and LowerCase leaves no capital.
LEMMA LowerCaseIs ==
    ASSUME NEW s \in Texts
    PROVE  /\ LowerCase(s) \in Texts /\ Len(LowerCase(s)) = Len(s)
           /\ Only(LowerCase(s), Chars \ {"A"})
<1>1. DOMAIN s = 1..Len(s) /\ Len(s) \in Nat /\ \A i \in 1..Len(s) : s[i] \in Chars
    BY DEF Texts
<1>2. LowerCase(s) \in [1..Len(s) -> Chars \ {"A"}]
    BY <1>1 DEF LowerCase, Chars
<1>3. LowerCase(s) \in [1..Len(s) -> Chars]
    BY <1>2
<1>4. LowerCase(s) \in Texts
    BY <1>1, <1>3, SeqDef DEF Texts
<1> QED BY <1>1, <1>2, <1>3, <1>4 DEF Only, Texts

\* ... and WithoutProtocol a part of s.
LEMMA WithoutProtocolIs ==
    ASSUME NEW s \in Texts, NEW D, Only(s, D)
    PROVE  WithoutProtocol(s) \in Texts /\ Only(WithoutProtocol(s), D)
<1> DEFINE names == {n \in 1..(Len(s) - 3) :
                        /\ \A i \in 1..n : s[i] = "a"
                        /\ SubSeq(s, n + 1, n + 3) = <<":", "/", "/">>}
<1>1. CASE names = {}
    BY <1>1 DEF WithoutProtocol
<1>2. CASE names # {}
    <2> DEFINE m == Max(names)
    <2>1. Len(s) \in Nat /\ \A n \in names : n \in 1..Len(s) /\ n + 3 <= Len(s)
        BY DEF Texts
    <2>2. names \in SUBSET (1..Len(s))
        BY <2>1
    <2>3. m \in names
        <3> HIDE DEF names
        <3> QED BY <1>2, <2>1, <2>2, Greatest
    <2>4. WithoutProtocol(s) = SubSeq(s, m + 4, Len(s))
        BY <1>2 DEF WithoutProtocol
    <2>5. m \in 1..Len(s) /\ m + 3 <= Len(s)
        BY <2>1, <2>3
    <2> HIDE DEF m, names
    <2>6. /\ SubSeq(s, m + 4, Len(s)) \in Seq(Chars)
          /\ Len(SubSeq(s, m + 4, Len(s))) = Len(s) - (m + 3)
          /\ \A i \in 1..(Len(s) - (m + 3)) : SubSeq(s, m + 4, Len(s))[i] = s[m + 3 + i]
        BY <2>1, <2>5 DEF Texts
    <2> QED BY <2>1, <2>4, <2>5, <2>6 DEF Texts, Only
<1> QED BY <1>1, <1>2

-----------------------------------------------------------------------------
(* What comes out                                                            *)

LEMMA OnlyMore ==
    ASSUME NEW s, NEW C, NEW D, Only(s, C), C \subseteq D
    PROVE  Only(s, D)
BY DEF Only

LEMMA NormalizedIsHost ==
    ASSUME NEW value \in Texts, normalizeDomain(value) # Invalid
    PROVE  normalizeDomain(value) \in Texts /\ IsHost(normalizeDomain(value))
<1> DEFINE trimmed == Strip(value, {"blank"})
           lower == LowerCase(trimmed)
           rest == WithoutProtocol(lower)
           a == Before(rest, "/")
           b == Before(a, "?")
           c == Before(b, ":")
           d == Strip(c, {"."})
<1>1. trimmed \in Texts
    <2>1. Only(value, Chars)
        BY DEF Only, Texts
    <2> QED BY <2>1, StripIs
<1>2. lower \in Texts /\ Only(lower, Chars \ {"A"})
    BY <1>1, LowerCaseIs
<1>3. rest \in Texts /\ Only(rest, Chars \ {"A"})
    BY <1>2, WithoutProtocolIs
<1> HIDE DEF rest
<1>4. a \in Texts /\ Only(a, (Chars \ {"A"}) \ {"/"})
    BY <1>3, BeforeIs
<1> HIDE DEF a
<1>5. b \in Texts /\ Only(b, ((Chars \ {"A"}) \ {"/"}) \ {"?"})
    BY <1>4, BeforeIs
<1> HIDE DEF b
<1>6. c \in Texts /\ Only(c, (((Chars \ {"A"}) \ {"/"}) \ {"?"}) \ {":"})
    BY <1>5, BeforeIs
<1> HIDE DEF c
<1>7. Only(c, {"a", "0", ".", "blank"})
    BY <1>6 DEF Only, Chars
<1>8. /\ d \in Texts /\ Only(d, {"a", "0", ".", "blank"})
      /\ d # <<>> => d[1] # "." /\ d[Len(d)] # "."
    BY <1>6, <1>7, StripIs
<1>9. normalizeDomain(value) = d /\ Holds(d, ".") /\ ~ Holds(d, "blank")
    BY DEF normalizeDomain, WithoutPath, rest, a, b, c
<1> HIDE DEF d
<1>10. d # <<>>
    <2>1. DOMAIN <<>> = {}
        OBVIOUS
    <2> QED BY <1>9, <2>1 DEF Holds
<1> QED BY <1>8, <1>9, <1>10 DEF IsHost, Only, Holds

-----------------------------------------------------------------------------
(* What goes in: each step undoes one way of writing a host                  *)

LEMMA Glued ==
    ASSUME NEW s \in Texts, NEW t \in Texts
    PROVE  /\ s \o t \in Texts /\ Len(s \o t) = Len(s) + Len(t)
           /\ Len(s) \in Nat /\ Len(t) \in Nat /\ DOMAIN s = 1..Len(s) /\ DOMAIN t = 1..Len(t)
           /\ DOMAIN (s \o t) = 1..(Len(s) + Len(t))
           /\ \A i \in 1..Len(s) : (s \o t)[i] = s[i]
           /\ \A i \in 1..Len(t) : (s \o t)[Len(s) + i] = t[i]
           /\ \A i \in (Len(s) + 1)..(Len(s) + Len(t)) : (s \o t)[i] = t[i - Len(s)]
BY ConcatProperties DEF Texts

LEMMA Regrouped ==
    ASSUME NEW s \in Texts, NEW t \in Texts, NEW u \in Texts
    PROVE  (s \o t) \o u = s \o (t \o u)
<1> DEFINE a == (s \o t) \o u
           b == s \o (t \o u)
<1>1. /\ a \in Seq(Chars) /\ b \in Seq(Chars)
      /\ Len(a) = Len(s) + Len(t) + Len(u) /\ Len(b) = Len(a)
      /\ Len(s) \in Nat /\ Len(t) \in Nat /\ Len(u) \in Nat
    BY DEF Texts
<1>2. ASSUME NEW i \in 1..Len(a) PROVE a[i] = b[i]
    <2>1. CASE i <= Len(s)
        BY <1>1, <1>2, <2>1 DEF Texts
    <2>2. CASE i > Len(s) /\ i <= Len(s) + Len(t)
        BY <1>1, <1>2, <2>2 DEF Texts
    <2>3. CASE i > Len(s) + Len(t)
        BY <1>1, <1>2, <2>3 DEF Texts
    <2> QED BY <1>1, <1>2, <2>1, <2>2, <2>3
<1> HIDE DEF a, b
<1>3. a = b
    BY <1>1, <1>2, SeqEqual
<1> QED BY <1>3 DEF a, b

\* Concatenation by name, where only its laws count and not what it is made of.
Glue(s, t) == s \o t

LEMMA GlueLaws ==
    ASSUME NEW s \in Texts, NEW t \in Texts
    PROVE  /\ Glue(s, t) \in Texts
           /\ \A u \in Texts : Glue(Glue(s, t), u) = Glue(s, Glue(t, u))
<1>1. s \o t \in Texts
    BY Glued
<1>2. ASSUME NEW u \in Texts PROVE (s \o t) \o u = s \o (t \o u)
    BY Regrouped
<1> QED BY <1>1, <1>2 DEF Glue

\* What is cut off is not there afterwards: the middle of three parts.
LEMMA Middle ==
    ASSUME NEW p \in Texts, NEW h \in Texts, NEW t \in Texts
    PROVE  SubSeq((p \o h) \o t, Len(p) + 1, Len(p) + Len(h)) = h
<1> DEFINE s == (p \o h) \o t
           m == SubSeq(s, Len(p) + 1, Len(p) + Len(h))
<1>1. /\ p \o h \in Texts /\ Len(p \o h) = Len(p) + Len(h)
      /\ Len(p) \in Nat /\ Len(h) \in Nat /\ Len(t) \in Nat
      /\ \A i \in 1..Len(h) : (p \o h)[Len(p) + i] = h[i]
    BY Glued
<1>2. /\ s \in Texts /\ Len(s) = Len(p) + Len(h) + Len(t)
      /\ \A i \in 1..(Len(p) + Len(h)) : s[i] = (p \o h)[i]
    BY <1>1, Glued
<1> HIDE DEF s
<1>3. \A i \in 1..Len(h) : s[Len(p) + i] = h[i]
    BY <1>1, <1>2
<1>4. \A i \in (Len(p) + 1)..(Len(p) + Len(h)) : s[i] \in Chars
    BY <1>1, <1>2 DEF Texts
<1>5. /\ m \in Seq(Chars)
      /\ Len(m) = Len(h)
      /\ \A i \in 1..Len(h) : m[i] = s[Len(p) + i]
    BY <1>1, <1>4
<1> HIDE DEF m
<1>6. m = h
    BY <1>3, <1>5, SeqEqual DEF Texts
<1> QED BY <1>6 DEF m, s

LEMMA StripPadding ==
    ASSUME NEW C, NEW p \in Texts, NEW h \in Texts, NEW t \in Texts,
           Only(p, C), Only(t, C), h # <<>>, h[1] \notin C, h[Len(h)] \notin C
    PROVE  Strip((p \o h) \o t, C) = h
<1> DEFINE s == (p \o h) \o t
           kept == {i \in DOMAIN s : s[i] \notin C}
<1>1. /\ Len(p) \in Nat /\ Len(h) \in Nat \ {0} /\ Len(t) \in Nat
      /\ p \o h \in Texts /\ Len(p \o h) = Len(p) + Len(h)
      /\ \A i \in 1..Len(p) : (p \o h)[i] = p[i]
      /\ \A i \in 1..Len(h) : (p \o h)[Len(p) + i] = h[i]
    BY Glued, EmptySeq DEF Texts
<1>2. /\ DOMAIN s = 1..(Len(p) + Len(h) + Len(t))
      /\ \A i \in 1..(Len(p) + Len(h)) : s[i] = (p \o h)[i]
      /\ \A i \in (Len(p) + Len(h) + 1)..(Len(p) + Len(h) + Len(t)) :
            s[i] = t[i - (Len(p) + Len(h))]
    <2> DEFINE k == p \o h
    <2>1. k \in Texts /\ Len(k) = Len(p) + Len(h)
        BY <1>1
    <2> HIDE DEF k
    <2>2. /\ DOMAIN (k \o t) = 1..(Len(k) + Len(t))
          /\ \A i \in 1..Len(k) : (k \o t)[i] = k[i]
          /\ \A i \in (Len(k) + 1)..(Len(k) + Len(t)) : (k \o t)[i] = t[i - Len(k)]
        BY <2>1, Glued
    <2> QED BY <2>1, <2>2 DEF k
<1> HIDE DEF s
<1>3. /\ \A i \in 1..Len(p) : s[i] = p[i]
      /\ s[Len(p) + 1] = h[1] /\ s[Len(p) + Len(h)] = h[Len(h)]
    BY <1>1, <1>2
<1>4. DOMAIN p = 1..Len(p) /\ DOMAIN t = 1..Len(t)
    BY DEF Texts
<1>5. \A i \in 1..Len(p) : s[i] \in C
    BY <1>1, <1>3, <1>4 DEF Only
<1>6. \A i \in (Len(p) + Len(h) + 1)..(Len(p) + Len(h) + Len(t)) : s[i] \in C
    <2> TAKE i \in (Len(p) + Len(h) + 1)..(Len(p) + Len(h) + Len(t))
    <2>1. i - (Len(p) + Len(h)) \in 1..Len(t)
        BY <1>1
    <2> QED BY <1>2, <1>4, <2>1 DEF Only
<1>7. Len(p) + 1 \in kept /\ Len(p) + Len(h) \in kept
    BY <1>1, <1>2, <1>3
<1>8. \A i \in kept : i \in Nat /\ Len(p) + 1 <= i /\ i <= Len(p) + Len(h)
    <2> TAKE i \in kept
    <2>1. i \in 1..(Len(p) + Len(h) + Len(t)) /\ s[i] \notin C
        BY <1>2
    <2> QED BY <1>1, <1>5, <1>6, <2>1
<1>9. Strip(s, C) = IF kept = {} THEN <<>> ELSE SubSeq(s, Min(kept), Max(kept))
    BY DEF Strip
<1> HIDE DEF kept
<1>10. Min(kept) = Len(p) + 1
    <2>1. kept \in SUBSET Nat
        BY <1>8
    <2> QED BY <1>7, <1>8, <2>1, MinIs
<1>11. Max(kept) = Len(p) + Len(h)
    <2>1. kept \in SUBSET (1..(Len(p) + Len(h))) /\ Len(p) + Len(h) \in Nat
        BY <1>1, <1>8
    <2>2. \A i \in kept : Len(p) + Len(h) >= i
        BY <1>1, <1>8
    <2> QED BY <1>7, <2>1, <2>2, MaxIs
<1>12. Strip(s, C) = SubSeq(s, Len(p) + 1, Len(p) + Len(h))
    BY <1>7, <1>9, <1>10, <1>11
<1> QED BY <1>12, Middle DEF s

LEMMA BeforeCut ==
    ASSUME NEW c, NEW D, NEW h \in Texts, NEW t \in Texts, Only(h, D), c \notin D,
           t # <<>> => t[1] = c
    PROVE  Before(h \o t, c) = h
<1> DEFINE s == h \o t
           cuts == {i \in DOMAIN s : s[i] = c}
<1>1. /\ s \in Texts /\ Len(h) \in Nat /\ Len(t) \in Nat /\ DOMAIN h = 1..Len(h)
      /\ DOMAIN s = 1..(Len(h) + Len(t))
      /\ \A i \in 1..Len(h) : s[i] = h[i]
      /\ \A i \in 1..Len(t) : s[Len(h) + i] = t[i]
    BY Glued
<1>2. \A i \in 1..Len(h) : s[i] # c
    BY <1>1 DEF Only
<1>3. CASE t = <<>>
    <2>1. s = h
        BY <1>3, ConcatEmptySeq DEF Texts
    <2>2. cuts = {}
        BY <1>1, <1>2, <2>1
    <2> QED BY <2>1, <2>2 DEF Before
<1>4. CASE t # <<>>
    <2>1. Len(t) \in Nat \ {0}
        BY <1>4, EmptySeq DEF Texts
    <2>2. Len(h) + 1 \in cuts
        BY <1>1, <1>4, <2>1
    <2>3. cuts \in SUBSET Nat /\ \A i \in cuts : Len(h) + 1 <= i
        BY <1>1, <1>2
    <2>4. Before(s, c) = IF cuts = {} THEN s ELSE SubSeq(s, 1, Min(cuts) - 1)
        BY DEF Before
    <2> HIDE DEF cuts
    <2>5. Min(cuts) = Len(h) + 1
        BY <2>2, <2>3, MinIs
    <2>6. Before(s, c) = SubSeq(s, 1, Len(h))
        BY <1>1, <2>2, <2>4, <2>5
    <2>7. <<>> \in Texts /\ Len(<<>>) = 0 /\ <<>> \o h = h
        BY EmptySeq, ConcatEmptySeq DEF Texts
    <2>8. SubSeq((<<>> \o h) \o t, Len(<<>>) + 1, Len(<<>>) + Len(h)) = h
        BY <2>7, Middle
    <2> QED BY <1>1, <2>6, <2>7, <2>8
<1> QED BY <1>3, <1>4

\* A letter stays a letter, and whatever is no letter stays what it is.
LEMMA LowerCaseKeeps ==
    ASSUME NEW s \in Texts
    PROVE  /\ LowerCase(s) \in Texts /\ Len(LowerCase(s)) = Len(s)
           /\ LowerCase(s) = <<>> <=> s = <<>>
           /\ \A i \in 1..Len(s) : LowerCase(s)[i] = IF s[i] = "A" THEN "a" ELSE s[i]
<1>1. DOMAIN s = 1..Len(s)
    BY DEF Texts
<1>2. LowerCase(s) \in Texts /\ Len(LowerCase(s)) = Len(s)
    BY LowerCaseIs
<1>3. LowerCase(s) = <<>> <=> s = <<>>
    BY <1>2, EmptySeq DEF Texts
<1> QED BY <1>1, <1>2, <1>3 DEF LowerCase

LEMMA LowerCaseGlued ==
    ASSUME NEW s \in Texts, NEW t \in Texts
    PROVE  LowerCase(s \o t) = LowerCase(s) \o LowerCase(t)
<1> DEFINE x == LowerCase(s \o t)
           y == LowerCase(s) \o LowerCase(t)
<1>1. /\ s \o t \in Texts /\ Len(s \o t) = Len(s) + Len(t)
      /\ Len(s) \in Nat /\ Len(t) \in Nat
      /\ \A i \in 1..Len(s) : (s \o t)[i] = s[i]
      /\ \A i \in (Len(s) + 1)..(Len(s) + Len(t)) : (s \o t)[i] = t[i - Len(s)]
    BY Glued
<1>2. /\ x \in Texts /\ Len(x) = Len(s) + Len(t)
      /\ \A i \in 1..(Len(s) + Len(t)) :
            x[i] = IF (s \o t)[i] = "A" THEN "a" ELSE (s \o t)[i]
    BY <1>1, LowerCaseKeeps
<1>3. /\ LowerCase(s) \in Texts /\ Len(LowerCase(s)) = Len(s)
      /\ LowerCase(t) \in Texts /\ Len(LowerCase(t)) = Len(t)
      /\ \A i \in 1..Len(s) : LowerCase(s)[i] = IF s[i] = "A" THEN "a" ELSE s[i]
      /\ \A i \in 1..Len(t) : LowerCase(t)[i] = IF t[i] = "A" THEN "a" ELSE t[i]
    BY LowerCaseKeeps
<1>4. /\ y \in Texts /\ Len(y) = Len(s) + Len(t)
      /\ \A i \in 1..Len(s) : y[i] = LowerCase(s)[i]
      /\ \A i \in (Len(s) + 1)..(Len(s) + Len(t)) : y[i] = LowerCase(t)[i - Len(s)]
    <2> DEFINE a == LowerCase(s)
               b == LowerCase(t)
    <2>1. a \in Texts /\ Len(a) = Len(s) /\ b \in Texts /\ Len(b) = Len(t)
        BY <1>3
    <2> HIDE DEF a, b
    <2>2. /\ a \o b \in Texts /\ Len(a \o b) = Len(a) + Len(b)
          /\ \A i \in 1..Len(a) : (a \o b)[i] = a[i]
          /\ \A i \in (Len(a) + 1)..(Len(a) + Len(b)) : (a \o b)[i] = b[i - Len(a)]
        BY <2>1, Glued
    <2> QED BY <2>1, <2>2 DEF a, b
<1> HIDE DEF x, y
<1>5. ASSUME NEW i \in 1..(Len(s) + Len(t)) PROVE x[i] = y[i]
    <2>1. CASE i <= Len(s)
        <3>1. i \in 1..Len(s)
            BY <1>1, <2>1
        <3> QED BY <1>1, <1>2, <1>3, <1>4, <3>1
    <2>2. CASE i > Len(s)
        <3>1. i \in (Len(s) + 1)..(Len(s) + Len(t)) /\ i - Len(s) \in 1..Len(t)
            BY <1>1, <2>2
        <3> QED BY <1>1, <1>2, <1>3, <1>4, <3>1
    <2> QED BY <1>1, <2>1, <2>2
<1>6. x = y
    BY <1>2, <1>4, <1>5, SeqEqual DEF Texts
<1> QED BY <1>6 DEF x, y

\* A scheme with its colon and slashes, in any case.
Scheme(u) ==
    \E m \in Nat \ {0} : /\ Len(u) = m + 3 /\ \A i \in 1..m : u[i] \in {"a", "A"}
                         /\ u[m + 1] = ":" /\ u[m + 2] = "/" /\ u[m + 3] = "/"

\* A dot comes before the first colon: s has no scheme.
Dotted(s) == \E k \in DOMAIN s : s[k] = "." /\ \A i \in 1..k : s[i] # ":"

LEMMA NoProtocol ==
    ASSUME NEW s \in Texts, Dotted(s)
    PROVE  WithoutProtocol(s) = s
<1> DEFINE names == {n \in 1..(Len(s) - 3) :
                        /\ \A i \in 1..n : s[i] = "a"
                        /\ SubSeq(s, n + 1, n + 3) = <<":", "/", "/">>}
<1>1. PICK k \in 1..Len(s) : s[k] = "." /\ \A i \in 1..k : s[i] # ":"
    BY DEF Dotted, Texts
<1>2. names = {}
    <2> SUFFICES ASSUME NEW n \in names PROVE FALSE
        OBVIOUS
    <2>1. /\ Len(s) \in Nat /\ n \in 1..(Len(s) - 3) /\ \A i \in 1..n : s[i] = "a"
          /\ SubSeq(s, n + 1, n + 3) = <<":", "/", "/">>
        BY DEF Texts
    <2>2. SubSeq(s, n + 1, n + 3)[1] = s[n + 1]
        <3>1. \A i \in (n + 1)..(n + 3) : s[i] \in Chars
            BY <2>1 DEF Texts
        <3> QED BY <2>1, <3>1, SubSeqProperties
    <2>3. s[n + 1] = ":"
        <3>1. <<":", "/", "/">>[1] = ":"
            OBVIOUS
        <3> QED BY <2>1, <2>2, <3>1
    <2>4. n < k
        BY <1>1, <2>1
    <2> QED BY <1>1, <2>1, <2>3, <2>4
<1> QED BY <1>2 DEF WithoutProtocol

LEMMA ProtocolCut ==
    ASSUME NEW u \in Texts, Scheme(u), Only(u, Chars \ {"A"}), NEW s \in Texts
    PROVE  WithoutProtocol(u \o s) = s
<1> DEFINE t == u \o s
           names == {n \in 1..(Len(t) - 3) :
                        /\ \A i \in 1..n : t[i] = "a"
                        /\ SubSeq(t, n + 1, n + 3) = <<":", "/", "/">>}
<1>1. PICK m \in Nat \ {0} : /\ Len(u) = m + 3 /\ \A i \in 1..m : u[i] \in {"a", "A"}
                            /\ u[m + 1] = ":" /\ u[m + 2] = "/" /\ u[m + 3] = "/"
    BY DEF Scheme
<1>2. \A i \in 1..m : u[i] = "a"
    <2>1. \A i \in 1..m : i \in DOMAIN u
        BY <1>1 DEF Texts
    <2> QED BY <1>1, <2>1 DEF Only
<1>3. /\ t \in Texts /\ Len(t) = Len(u) + Len(s) /\ Len(s) \in Nat
      /\ \A i \in 1..Len(u) : t[i] = u[i]
    BY Glued
<1> HIDE DEF t
<1>4. /\ \A i \in 1..m : t[i] = "a"
      /\ t[m + 1] = ":" /\ t[m + 2] = "/" /\ t[m + 3] = "/"
    BY <1>1, <1>2, <1>3
<1>5. \A n \in 1..(Len(t) - 3) :
          /\ Len(SubSeq(t, n + 1, n + 3)) = 3 /\ SubSeq(t, n + 1, n + 3) \in Texts
          /\ SubSeq(t, n + 1, n + 3)[1] = t[n + 1]
          /\ SubSeq(t, n + 1, n + 3)[2] = t[n + 2]
          /\ SubSeq(t, n + 1, n + 3)[3] = t[n + 3]
    <2> TAKE n \in 1..(Len(t) - 3)
    <2>1. n \in Nat /\ n + 3 <= Len(t) /\ Len(t) \in Nat
        BY <1>3 DEF Texts
    <2>2. \A i \in (n + 1)..(n + 3) : t[i] \in Chars
        BY <1>3, <2>1 DEF Texts
    <2>3. /\ SubSeq(t, n + 1, n + 3) \in Seq(Chars)
          /\ Len(SubSeq(t, n + 1, n + 3)) = 3
          /\ \A i \in 1..3 : SubSeq(t, n + 1, n + 3)[i] = t[n + i]
        BY <2>1, <2>2
    <2> QED BY <2>3 DEF Texts
<1>6. m \in names
    <2>1. m \in 1..(Len(t) - 3)
        BY <1>1, <1>3
    <2>2. SubSeq(t, m + 1, m + 3) = <<":", "/", "/">>
        <3> DEFINE x == SubSeq(t, m + 1, m + 3)
        <3>1. x \in Seq(Chars) /\ Len(x) = 3 /\ x[1] = ":" /\ x[2] = "/" /\ x[3] = "/"
            BY <1>4, <1>5, <2>1 DEF Texts
        <3> HIDE DEF x
        <3>2. x = <<":", "/", "/">>
            BY <3>1
        <3> QED BY <3>2 DEF x
    <2> QED BY <1>4, <2>1, <2>2
<1>7. \A n \in names : n = m
    <2> TAKE n \in names
    <2>1. /\ n \in 1..(Len(t) - 3) /\ \A i \in 1..n : t[i] = "a"
          /\ SubSeq(t, n + 1, n + 3) = <<":", "/", "/">>
        OBVIOUS
    <2>2. t[n + 1] = ":"
        <3>1. <<":", "/", "/">>[1] = ":"
            OBVIOUS
        <3>2. SubSeq(t, n + 1, n + 3)[1] = t[n + 1]
            BY <1>5, <2>1
        <3> QED BY <2>1, <3>1, <3>2
    <2>3. ~ (n < m)
        BY <1>4, <2>1, <2>2
    <2>4. ~ (n > m)
        BY <1>4, <2>1
    <2> QED BY <2>1, <2>3, <2>4
<1>8. WithoutProtocol(t) = IF names = {} THEN t ELSE SubSeq(t, Max(names) + 4, Len(t))
    BY DEF WithoutProtocol
<1> HIDE DEF names
<1>9. Max(names) = m
    <2>1. names \in SUBSET (1..m) /\ \A n \in names : m >= n
        BY <1>7
    <2> QED BY <1>6, <2>1, MaxIs
<1>10. WithoutProtocol(t) = SubSeq(t, Len(u) + 1, Len(u) + Len(s))
    BY <1>1, <1>3, <1>6, <1>8, <1>9
<1>11. <<>> \in Texts /\ t \o <<>> = t
    BY <1>3, EmptySeq, ConcatEmptySeq DEF Texts
<1>12. SubSeq((u \o s) \o <<>>, Len(u) + 1, Len(u) + Len(s)) = s
    BY <1>11, Middle
<1> QED BY <1>10, <1>11, <1>12 DEF t

\* What may follow a host: dots, a port, a query and a path, each possibly empty.
Port(x) == Only(x, Chars \ {"/", "?"}) /\ (x # <<>> => x[1] = ":")
Query(y) == Only(y, Chars \ {"/"}) /\ (y # <<>> => y[1] = "?")
Path(z) == z # <<>> => z[1] = "/"
Rest(w, x, y, z) == ((w \o x) \o y) \o z

\* A part in lower case is the part that it was.
LEMMA LowerCaseParts ==
    ASSUME NEW s \in Texts
    PROVE  /\ Only(s, {"."}) => Only(LowerCase(s), {"."})
           /\ Port(s) => Port(LowerCase(s))
           /\ Query(s) => Query(LowerCase(s))
           /\ Path(s) => Path(LowerCase(s))
           /\ Scheme(s) => Scheme(LowerCase(s))
<1> DEFINE t == LowerCase(s)
<1>1. /\ t \in Texts /\ Len(t) = Len(s) /\ Len(s) \in Nat
      /\ t = <<>> <=> s = <<>>
      /\ \A i \in 1..Len(s) : t[i] = IF s[i] = "A" THEN "a" ELSE s[i]
    BY LowerCaseKeeps DEF Texts
<1> HIDE DEF t
<1>2. /\ DOMAIN s = 1..Len(s) /\ DOMAIN t = 1..Len(s)
      /\ \A i \in 1..Len(s) : s[i] \in Chars /\ t[i] \in Chars
    BY <1>1 DEF Texts
<1>3. s # <<>> => 1 \in 1..Len(s)
    BY <1>1, EmptySeq DEF Texts
<1>4. Only(s, {"."}) => Only(t, {"."})
    BY <1>1, <1>2 DEF Only
<1>5. Only(s, Chars \ {"/", "?"}) => Only(t, Chars \ {"/", "?"})
    BY <1>1, <1>2 DEF Only, Chars
<1>6. Only(s, Chars \ {"/"}) => Only(t, Chars \ {"/"})
    BY <1>1, <1>2 DEF Only, Chars
<1>7. s # <<>> => t # <<>> /\ t[1] = IF s[1] = "A" THEN "a" ELSE s[1]
    BY <1>1, <1>3
<1>8. Scheme(s) => Scheme(t)
    <2> SUFFICES ASSUME Scheme(s) PROVE Scheme(t)
        OBVIOUS
    <2>1. PICK m \in Nat \ {0} : /\ Len(s) = m + 3 /\ \A i \in 1..m : s[i] \in {"a", "A"}
                                /\ s[m + 1] = ":" /\ s[m + 2] = "/" /\ s[m + 3] = "/"
        BY DEF Scheme
    <2>2. /\ Len(t) = m + 3 /\ \A i \in 1..m : t[i] \in {"a", "A"}
          /\ t[m + 1] = ":" /\ t[m + 2] = "/" /\ t[m + 3] = "/"
        BY <1>1, <2>1
    <2> QED BY <2>2 DEF Scheme
<1> QED BY <1>1, <1>4, <1>5, <1>6, <1>7, <1>8 DEF t, Port, Query, Path

LEMMA OnlyGlued ==
    ASSUME NEW C, NEW s \in Texts, NEW t \in Texts, Only(s, C), Only(t, C)
    PROVE  Only(s \o t, C)
<1>1. /\ DOMAIN (s \o t) = 1..(Len(s) + Len(t)) /\ Len(s) \in Nat /\ Len(t) \in Nat
      /\ DOMAIN s = 1..Len(s) /\ DOMAIN t = 1..Len(t)
      /\ \A i \in 1..Len(s) : (s \o t)[i] = s[i]
      /\ \A i \in (Len(s) + 1)..(Len(s) + Len(t)) : (s \o t)[i] = t[i - Len(s)]
    BY Glued
<1> SUFFICES ASSUME NEW i \in 1..(Len(s) + Len(t)) PROVE (s \o t)[i] \in C
    BY <1>1 DEF Only
<1>2. CASE i \in 1..Len(s)
    BY <1>1, <1>2 DEF Only
<1>3. CASE i \in (Len(s) + 1)..(Len(s) + Len(t))
    <2>1. i - Len(s) \in 1..Len(t)
        BY <1>1, <1>3
    <2> QED BY <1>1, <1>3, <2>1 DEF Only
<1> QED BY <1>1, <1>2, <1>3

\* The rest after a host, part by part.
RestAfter(h, w, x, y, z) == h \o Rest(w, x, y, z) = (((h \o w) \o x) \o y) \o z

\* Grouped as the URL is written, or as the cuts undo it.
LEMMA RestUnrolled ==
    ASSUME NEW h \in Texts, NEW w \in Texts, NEW x \in Texts, NEW y \in Texts, NEW z \in Texts
    PROVE  RestAfter(h, w, x, y, z)
<1>1. Glue(w, x) \in Texts /\ Glue(Glue(w, x), y) \in Texts
    BY GlueLaws
<1>2. Glue(Glue(h, w), x) = Glue(h, Glue(w, x))
    BY GlueLaws
<1>3. Glue(Glue(h, Glue(w, x)), y) = Glue(h, Glue(Glue(w, x), y))
    BY <1>1, GlueLaws
<1>4. Glue(Glue(h, Glue(Glue(w, x), y)), z) = Glue(h, Glue(Glue(Glue(w, x), y), z))
    BY <1>1, GlueLaws
<1>5. Glue(h, Glue(Glue(Glue(w, x), y), z)) = Glue(Glue(Glue(Glue(h, w), x), y), z)
    BY <1>2, <1>3, <1>4
<1> QED BY <1>5 DEF Glue, Rest, RestAfter

\* Whatever follows it, the host is found.
LEMMA PathCut ==
    ASSUME NEW h \in Texts, IsHost(h),
           NEW w \in Texts, NEW x \in Texts, NEW y \in Texts, NEW z \in Texts,
           Only(w, {"."}), Port(x), Query(y), Path(z)
    PROVE  WithoutPath(h \o Rest(w, x, y, z)) = h
<1> DEFINE a == h \o w
           b == a \o x
           c == b \o y
<1>1. Only(h, {"a", "0", "."})
    BY DEF IsHost, Only
<1>2. a \in Texts /\ Only(a, {"a", "0", "."})
    <2>1. Only(w, {"a", "0", "."})
        BY DEF Only
    <2> QED BY <1>1, <2>1, Glued, OnlyGlued
<1> HIDE DEF a
<1>3. b \in Texts /\ Only(b, Chars \ {"/", "?"})
    <2>1. Only(a, Chars \ {"/", "?"})
        BY <1>2 DEF Only, Chars
    <2> QED BY <1>2, <2>1, Glued, OnlyGlued DEF Port
<1> HIDE DEF b
<1>4. c \in Texts /\ Only(c, Chars \ {"/"})
    <2>1. Only(b, Chars \ {"/"})
        BY <1>3 DEF Only
    <2> QED BY <1>3, <2>1, Glued, OnlyGlued DEF Query
<1> HIDE DEF c
<1>5. Before(c \o z, "/") = c
    BY <1>4, BeforeCut, "/" \notin Chars \ {"/"} DEF Path
<1>6. Before(c, "?") = b
    <2>1. y # <<>> => y[1] = "?"
        BY DEF Query
    <2> QED BY <1>3, <2>1, BeforeCut, "?" \notin Chars \ {"/", "?"} DEF c
<1>7. Before(b, ":") = a
    <2>1. x # <<>> => x[1] = ":"
        BY DEF Port
    <2> QED BY <1>2, <2>1, BeforeCut, ":" \notin {"a", "0", "."} DEF b
<1>8. Strip(a, {"."}) = h
    <2>1. h # <<>> /\ h[1] \notin {"."} /\ h[Len(h)] \notin {"."}
        <3>1. DOMAIN <<>> = {}
            OBVIOUS
        <3> QED BY <3>1 DEF IsHost, Holds
    <2>2. <<>> \in Texts /\ Only(<<>>, {"."}) /\ <<>> \o h = h
        BY EmptySeq, ConcatEmptySeq DEF Texts, Only
    <2> QED BY <2>1, <2>2, StripPadding DEF a
<1>9. h \o Rest(w, x, y, z) = c \o z
    <2>1. RestAfter(h, w, x, y, z)
        BY RestUnrolled
    <2> QED BY <2>1 DEF RestAfter, a, b, c
<1> QED BY <1>5, <1>6, <1>7, <1>8, <1>9 DEF WithoutPath

-----------------------------------------------------------------------------
(* Every spelling of a host                                                  *)

\* A host n between blanks, a scheme and a tail.
Spelling(q, u, n, t, r) == (q \o ((u \o n) \o t)) \o r

\* Blanks, a scheme, the host in any case, a tail that does not end in a blank, blanks.
Parts(h, q, u, n, t, r) ==
    /\ Only(q, {"blank"}) /\ Only(r, {"blank"}) /\ (t # <<>> => t[Len(t)] # "blank")
    /\ u # <<>> => Scheme(u)
    /\ LowerCase(n) = h

\* s is the host h, in any case, with blanks around it, perhaps a scheme before it
\* and anything that a URL can have after it.
Written(h, s) ==
    \E q, u, n, w, x, y, z, r \in Texts :
       /\ s = Spelling(q, u, n, Rest(w, x, y, z), r)
       /\ Parts(h, q, u, n, Rest(w, x, y, z), r)
       /\ Only(w, {"."}) /\ Port(x) /\ Query(y) /\ Path(z)

LEMMA HostChars ==
    ASSUME NEW h \in Texts, IsHost(h)
    PROVE  /\ h # <<>> /\ Len(h) \in Nat \ {0} /\ DOMAIN h = 1..Len(h)
           /\ \A i \in 1..Len(h) : h[i] \in {"a", "0", "."}
<1>1. DOMAIN <<>> = {}
    OBVIOUS
<1> QED BY <1>1, EmptySeq DEF IsHost, Holds, Texts

LEMMA HostDotted ==
    ASSUME NEW h \in Texts, IsHost(h), NEW t \in Texts
    PROVE  Dotted(h \o t)
<1>1. PICK k \in 1..Len(h) : h[k] = "."
    BY HostChars DEF IsHost, Holds
<1>2. /\ DOMAIN (h \o t) = 1..(Len(h) + Len(t)) /\ Len(h) \in Nat /\ Len(t) \in Nat
      /\ \A i \in 1..Len(h) : (h \o t)[i] = h[i]
    BY Glued
<1>3. k \in DOMAIN (h \o t) /\ (h \o t)[k] = "."
    BY <1>1, <1>2
<1>4. \A i \in 1..k : (h \o t)[i] # ":"
    <2> TAKE i \in 1..k
    <2>1. i \in 1..Len(h)
        BY <1>1, <1>2
    <2> QED BY <1>2, <2>1, HostChars
<1> QED BY <1>3, <1>4 DEF Dotted

\* The ends of a concatenation.
LEMMA GluedEnds ==
    ASSUME NEW s \in Texts, NEW t \in Texts
    PROVE  /\ s # <<>> => s \o t # <<>> /\ (s \o t)[1] = s[1]
           /\ t # <<>> => s \o t # <<>> /\ (s \o t)[Len(s \o t)] = t[Len(t)]
           /\ s = <<>> => s \o t = t
           /\ t = <<>> => s \o t = s
<1>1. /\ s \o t \in Texts /\ Len(s \o t) = Len(s) + Len(t)
      /\ Len(s) \in Nat /\ Len(t) \in Nat
      /\ \A i \in 1..Len(s) : (s \o t)[i] = s[i]
      /\ \A i \in 1..Len(t) : (s \o t)[Len(s) + i] = t[i]
    BY Glued
<1>2. Len(<<>>) = 0 /\ (s # <<>> => Len(s) \in Nat \ {0}) /\ (t # <<>> => Len(t) \in Nat \ {0})
    BY EmptySeq DEF Texts
<1>3. /\ s = <<>> => s \o t = t
      /\ t = <<>> => s \o t = s
    BY ConcatEmptySeq DEF Texts
<1>4. s # <<>> => s \o t # <<>> /\ (s \o t)[1] = s[1]
    BY <1>1, <1>2
<1>5. t # <<>> => s \o t # <<>> /\ (s \o t)[Len(s \o t)] = t[Len(t)]
    BY <1>1, <1>2
<1> QED BY <1>3, <1>4, <1>5

LEMMA LowerCaseParted ==
    ASSUME NEW s \in Texts, NEW t \in Texts, NEW u \in Texts
    PROVE  LowerCase(Glue(Glue(s, t), u)) = Glue(LowerCase(s), Glue(LowerCase(t), LowerCase(u)))
<1>1. s \o t \in Texts
    BY Glued
<1>2. LowerCase((s \o t) \o u) = (LowerCase(s) \o LowerCase(t)) \o LowerCase(u)
    <2>1. LowerCase(s \o t) = LowerCase(s) \o LowerCase(t)
        BY LowerCaseGlued
    <2>2. LowerCase((s \o t) \o u) = LowerCase(s \o t) \o LowerCase(u)
        BY <1>1, LowerCaseGlued
    <2> QED BY <2>1, <2>2
<1>3. LowerCase(s) \in Texts /\ LowerCase(t) \in Texts /\ LowerCase(u) \in Texts
    BY LowerCaseKeeps
<1>4. LowerCase(Glue(Glue(s, t), u)) = Glue(Glue(LowerCase(s), LowerCase(t)), LowerCase(u))
    BY <1>2 DEF Glue
<1> QED BY <1>3, <1>4, GlueLaws

LEMMA RestIs ==
    ASSUME NEW w \in Texts, NEW x \in Texts, NEW y \in Texts, NEW z \in Texts
    PROVE  /\ Rest(w, x, y, z) \in Texts
           /\ LowerCase(Rest(w, x, y, z))
                = Rest(LowerCase(w), LowerCase(x), LowerCase(y), LowerCase(z))
<1>1. w \o x \in Texts /\ (w \o x) \o y \in Texts /\ ((w \o x) \o y) \o z \in Texts
    BY Glued
<1>2. LowerCase(w \o x) = LowerCase(w) \o LowerCase(x)
    BY LowerCaseGlued
<1>3. LowerCase((w \o x) \o y) = LowerCase(w \o x) \o LowerCase(y)
    BY <1>1, LowerCaseGlued
<1>4. LowerCase(((w \o x) \o y) \o z) = LowerCase((w \o x) \o y) \o LowerCase(z)
    BY <1>1, LowerCaseGlued
<1> QED BY <1>1, <1>2, <1>3, <1>4 DEF Rest

\* Without the blanks, the case and the scheme there is the host and its tail.
LEMMA HostAndTail ==
    ASSUME NEW h \in Texts, IsHost(h), NEW q \in Texts, NEW u \in Texts, NEW n \in Texts,
           NEW t \in Texts, NEW r \in Texts, Parts(h, q, u, n, t, r)
    PROVE  WithoutProtocol(LowerCase(Strip(Spelling(q, u, n, t, r), {"blank"})))
             = Glue(h, LowerCase(t))
<1>0. /\ Only(q, {"blank"}) /\ Only(r, {"blank"}) /\ (t # <<>> => t[Len(t)] # "blank")
      /\ u # <<>> => Scheme(u)
      /\ LowerCase(n) = h
    BY DEF Parts
<1> DEFINE m == (u \o n) \o t
           v == LowerCase(u)
<1>1. /\ n # <<>> /\ Len(n) \in Nat \ {0}
      /\ \A i \in 1..Len(n) : n[i] # "blank"
    <2>1. /\ Len(h) = Len(n) /\ (h = <<>> <=> n = <<>>)
          /\ \A i \in 1..Len(n) : h[i] = IF n[i] = "A" THEN "a" ELSE n[i]
        BY <1>0, LowerCaseKeeps
    <2>2. /\ h # <<>> /\ Len(h) \in Nat \ {0}
          /\ \A i \in 1..Len(h) : h[i] \in {"a", "0", "."}
        BY HostChars
    <2>3. \A i \in 1..Len(n) : n[i] = "blank" => h[i] = "blank"
        BY <2>1
    <2>4. \A i \in 1..Len(n) : h[i] # "blank"
        BY <2>1, <2>2
    <2> QED BY <2>1, <2>2, <2>3, <2>4
<1>2. n[1] # "blank" /\ n[Len(n)] # "blank"
    <2>1. 1 \in 1..Len(n) /\ Len(n) \in 1..Len(n)
        BY <1>1
    <2> QED BY <1>1, <2>1
<1>3. u # <<>> => u[1] # "blank"
    <2> SUFFICES ASSUME u # <<>> PROVE u[1] # "blank"
        OBVIOUS
    <2>1. PICK k \in Nat \ {0} : \A i \in 1..k : u[i] \in {"a", "A"}
        BY <1>0 DEF Scheme
    <2>2. 1 \in 1..k
        BY <2>1
    <2> QED BY <2>1, <2>2
<1>4. u \o n \in Texts /\ m \in Texts
    BY Glued
<1>5. m # <<>> /\ m[1] # "blank" /\ m[Len(m)] # "blank"
    <2> DEFINE k == u \o n
    <2>1. k \in Texts /\ k # <<>> /\ k[1] # "blank" /\ k[Len(k)] # "blank"
        BY <1>1, <1>2, <1>3, <1>4, GluedEnds
    <2> HIDE DEF k
    <2>2. k \o t # <<>> /\ (k \o t)[1] # "blank" /\ (k \o t)[Len(k \o t)] # "blank"
        BY <1>0, <2>1, GluedEnds
    <2> QED BY <2>2 DEF k
<1>6. Strip((q \o m) \o r, {"blank"}) = m
    <2> HIDE DEF m
    <2> QED BY <1>0, <1>4, <1>5, StripPadding
<1>8. v \in Texts /\ LowerCase(t) \in Texts
    BY LowerCaseKeeps
<1>9. LowerCase(m) = v \o (h \o LowerCase(t))
    <2>1. LowerCase(Glue(Glue(u, n), t)) = Glue(v, Glue(LowerCase(n), LowerCase(t)))
        BY LowerCaseParted
    <2> QED BY <1>0, <2>1 DEF m, Glue
<1>10. h \o LowerCase(t) \in Texts
    BY <1>8, Glued
<1>11. WithoutProtocol(v \o (h \o LowerCase(t))) = h \o LowerCase(t)
    <2>1. CASE u = <<>>
        <3>1. v = <<>>
            BY <2>1, LowerCaseKeeps
        <3>2. v \o (h \o LowerCase(t)) = h \o LowerCase(t)
            BY <1>8, <1>10, <3>1, GluedEnds
        <3> QED BY <1>8, <1>10, <3>2, HostDotted, NoProtocol
    <2>2. CASE u # <<>>
        <3>1. Scheme(v) /\ Only(v, Chars \ {"A"})
            BY <1>0, <2>2, LowerCaseParts, LowerCaseIs
        <3> QED BY <1>8, <1>10, <3>1, ProtocolCut
    <2> QED BY <2>1, <2>2
<1> QED BY <1>6, <1>9, <1>11 DEF m, Spelling, Glue

\* One publisher, one host, for every text: whatever the blanks, the scheme, the case,
\* the dots, the port, the query and the path are, normalizeDomain returns the host.
THEOREM EverySpelling ==
    ASSUME NEW h \in Texts, IsHost(h), NEW s, Written(h, s)
    PROVE  normalizeDomain(s) = h
<1>1. PICK q, u, n, w, x, y, z, r \in Texts :
         /\ s = Spelling(q, u, n, Rest(w, x, y, z), r)
         /\ Parts(h, q, u, n, Rest(w, x, y, z), r)
         /\ Only(w, {"."}) /\ Port(x) /\ Query(y) /\ Path(z)
    BY DEF Written
<1> DEFINE t == Rest(w, x, y, z)
           lw == LowerCase(w)
           lx == LowerCase(x)
           ly == LowerCase(y)
           lz == LowerCase(z)
<1>2. t \in Texts /\ LowerCase(t) = Rest(lw, lx, ly, lz)
    BY RestIs
<1>3. s = Spelling(q, u, n, t, r) /\ Parts(h, q, u, n, t, r)
    BY <1>1
<1>4. WithoutProtocol(LowerCase(Strip(s, {"blank"}))) = h \o LowerCase(t)
    <2>1. t \in Texts
        BY <1>2
    <2> HIDE DEF t
    <2>2. WithoutProtocol(LowerCase(Strip(Spelling(q, u, n, t, r), {"blank"})))
            = Glue(h, LowerCase(t))
        BY <1>3, <2>1, HostAndTail
    <2> QED BY <1>3, <2>2 DEF Glue
<1>5. /\ lw \in Texts /\ lx \in Texts /\ ly \in Texts /\ lz \in Texts
      /\ Only(lw, {"."}) /\ Port(lx) /\ Query(ly) /\ Path(lz)
    BY <1>1, LowerCaseKeeps, LowerCaseParts
<1>6. WithoutPath(h \o Rest(lw, lx, ly, lz)) = h
    <2> HIDE DEF lw, lx, ly, lz
    <2> QED BY <1>5, PathCut
<1>7. WithoutPath(h \o LowerCase(t)) = h
    BY <1>2, <1>6
<1>8. Holds(h, ".") /\ ~ Holds(h, "blank")
    BY HostChars DEF IsHost, Holds
<1> QED BY <1>4, <1>7, <1>8 DEF normalizeDomain

\* The spellings that TLC tries are among them.
LEMMA ProtocolsAre ==
    ASSUME NEW p \in Protocols
    PROVE  \E q, u \in Texts : p = q \o u /\ Only(q, {"blank"}) /\ (u # <<>> => Scheme(u))
<1> DEFINE OK(q, u) == /\ q \in Texts /\ u \in Texts
                       /\ p = q \o u /\ Only(q, {"blank"}) /\ (u # <<>> => Scheme(u))
<1> SUFFICES \E q, u : OK(q, u)
    OBVIOUS
<1>1. <<>> \in Texts /\ Only(<<>>, {"blank"})
    BY EmptySeq DEF Texts, Only
<1>2. <<"blank">> \in Texts /\ Only(<<"blank">>, {"blank"})
    BY DEF Texts, Only, Chars
<1>3. <<"a", ":", "/", "/">> \in Texts /\ Scheme(<<"a", ":", "/", "/">>)
    <2> DEFINE v == <<"a", ":", "/", "/">>
    <2>1. /\ v \in Seq(Chars) /\ Len(v) = 4
          /\ v[1] = "a" /\ v[2] = ":" /\ v[3] = "/" /\ v[4] = "/"
        BY DEF Chars
    <2> HIDE DEF v
    <2>2. /\ Len(v) = 1 + 3 /\ \A i \in 1..1 : v[i] \in {"a", "A"}
          /\ v[1 + 1] = ":" /\ v[1 + 2] = "/" /\ v[1 + 3] = "/"
        BY <2>1
    <2>3. v \in Texts /\ Scheme(v)
        BY <2>1, <2>2, 1 \in Nat \ {0} DEF Scheme, Texts
    <2> QED BY <2>3 DEF v
<1>4. <<"A", "A", ":", "/", "/">> \in Texts /\ Scheme(<<"A", "A", ":", "/", "/">>)
    <2> DEFINE v == <<"A", "A", ":", "/", "/">>
    <2>1. /\ v \in Seq(Chars) /\ Len(v) = 5
          /\ v[1] = "A" /\ v[2] = "A" /\ v[3] = ":" /\ v[4] = "/" /\ v[5] = "/"
        BY DEF Chars
    <2> HIDE DEF v
    <2>2. /\ Len(v) = 2 + 3 /\ \A i \in 1..2 : v[i] \in {"a", "A"}
          /\ v[2 + 1] = ":" /\ v[2 + 2] = "/" /\ v[2 + 3] = "/"
        BY <2>1
    <2>3. v \in Texts /\ Scheme(v)
        BY <2>1, <2>2, 2 \in Nat \ {0} DEF Scheme, Texts
    <2> QED BY <2>3 DEF v
<1>5. CASE p = <<>>
    <2>1. OK(<<>>, <<>>)
        BY <1>1, <1>5, ConcatEmptySeq DEF Texts
    <2> QED BY <2>1
<1>6. CASE p = <<"blank">>
    <2>1. OK(<<"blank">>, <<>>)
        BY <1>1, <1>2, <1>6, ConcatEmptySeq DEF Texts
    <2> QED BY <2>1
<1>7. CASE p = <<"a", ":", "/", "/">>
    <2>1. OK(<<>>, <<"a", ":", "/", "/">>)
        BY <1>1, <1>3, <1>7, ConcatEmptySeq DEF Texts
    <2> QED BY <2>1
<1>8. CASE p = <<"blank", "A", "A", ":", "/", "/">>
    <2>1. p = <<"blank">> \o <<"A", "A", ":", "/", "/">>
        BY <1>8
    <2>2. OK(<<"blank">>, <<"A", "A", ":", "/", "/">>)
        BY <1>2, <1>4, <2>1
    <2> QED BY <2>2
<1> QED BY <1>5, <1>6, <1>7, <1>8 DEF Protocols

TailIs(t, w, x, y, z, r) ==
    /\ w \in Texts /\ x \in Texts /\ y \in Texts /\ z \in Texts /\ r \in Texts
    /\ t = Rest(w, x, y, z) \o r
    /\ Rest(w, x, y, z) # <<>> => Rest(w, x, y, z)[Len(Rest(w, x, y, z))] # "blank"
    /\ Only(w, {"."}) /\ Port(x) /\ Query(y) /\ Path(z) /\ Only(r, {"blank"})

LEMMA TailsAre ==
    ASSUME NEW t \in Tails
    PROVE  \E w, x, y, z, r : TailIs(t, w, x, y, z, r)
<1>1. CASE t = <<>>
    <2>1. TailIs(t, <<>>, <<>>, <<>>, <<>>, <<>>)
        BY <1>1, EmptySeq, ConcatEmptySeq DEF TailIs, Texts, Rest, Only, Port, Query, Path
    <2> QED BY <2>1
<1>2. CASE t = <<".">>
    <2>1. TailIs(t, <<".">>, <<>>, <<>>, <<>>, <<>>)
        BY <1>2, EmptySeq, ConcatEmptySeq DEF TailIs, Texts, Rest, Only, Port, Query, Path, Chars
    <2> QED BY <2>1
<1>3. CASE t = <<":", "0">>
    <2>1. TailIs(t, <<>>, <<":", "0">>, <<>>, <<>>, <<>>)
        BY <1>3, EmptySeq, ConcatEmptySeq DEF TailIs, Texts, Rest, Only, Port, Query, Path, Chars
    <2> QED BY <2>1
<1>4. CASE t = <<".", ":", "0", "/">>
    <2>1. TailIs(t, <<".">>, <<":", "0">>, <<>>, <<"/">>, <<>>)
        BY <1>4, EmptySeq, ConcatEmptySeq DEF TailIs, Texts, Rest, Only, Port, Query, Path, Chars
    <2> QED BY <2>1
<1>5. CASE t = <<"/", "a", "?", ":">>
    <2>1. TailIs(t, <<>>, <<>>, <<>>, <<"/", "a", "?", ":">>, <<>>)
        BY <1>5, EmptySeq, ConcatEmptySeq DEF TailIs, Texts, Rest, Only, Port, Query, Path, Chars
    <2> QED BY <2>1
<1>6. CASE t = <<"?", "a", ".", "/">>
    <2>1. TailIs(t, <<>>, <<>>, <<"?", "a", ".">>, <<"/">>, <<>>)
        BY <1>6, EmptySeq, ConcatEmptySeq DEF TailIs, Texts, Rest, Only, Port, Query, Path, Chars
    <2> QED BY <2>1
<1>7. CASE t = <<"/", ":", "/", "/", "blank">>
    <2>1. TailIs(t, <<>>, <<>>, <<>>, <<"/", ":", "/", "/">>, <<"blank">>)
        BY <1>7, EmptySeq, ConcatEmptySeq DEF TailIs, Texts, Rest, Only, Port, Query, Path, Chars
    <2> QED BY <2>1
<1> QED BY <1>1, <1>2, <1>3, <1>4, <1>5, <1>6, <1>7 DEF Tails

LEMMA HostInCapitals ==
    ASSUME NEW h \in Texts, IsHost(h), NEW n \in {h, UpperCase(h)}
    PROVE  n \in Texts /\ LowerCase(n) = h
<1>1. /\ DOMAIN h = 1..Len(h) /\ Len(h) \in Nat
      /\ \A i \in 1..Len(h) : h[i] \in {"a", "0", "."}
    BY HostChars
<1>2. /\ n \in Texts /\ Len(n) = Len(h)
      /\ \A i \in 1..Len(h) : n[i] = h[i] \/ (n[i] = "A" /\ h[i] = "a")
    <2>1. CASE n = h
        BY <2>1
    <2>2. CASE n = UpperCase(h)
        <3>1. n = [i \in 1..Len(h) |-> IF h[i] = "a" THEN "A" ELSE h[i]]
            BY <1>1, <2>2 DEF UpperCase
        <3>2. n \in [1..Len(h) -> Chars]
            BY <1>1, <3>1 DEF Chars
        <3>3. n \in Seq(Chars)
            BY <1>1, <3>2, SeqDef
        <3>4. Len(n) = Len(h)
            BY <1>1, <3>1, <3>3
        <3>5. \A i \in 1..Len(h) : n[i] = h[i] \/ (n[i] = "A" /\ h[i] = "a")
            BY <3>1
        <3> QED BY <3>3, <3>4, <3>5 DEF Texts
    <2> QED BY <2>1, <2>2
<1>3. /\ LowerCase(n) \in Texts /\ Len(LowerCase(n)) = Len(h)
      /\ \A i \in 1..Len(h) : LowerCase(n)[i] = IF n[i] = "A" THEN "a" ELSE n[i]
    BY <1>2, LowerCaseKeeps
<1>4. \A i \in 1..Len(h) : LowerCase(n)[i] = h[i]
    BY <1>1, <1>2, <1>3
<1> QED BY <1>1, <1>2, <1>3, <1>4, SeqEqual DEF Texts

LEMMA SpellingsAre ==
    ASSUME NEW h
    PROVE  \A s : s \in Spellings(h)
                  <=> \E p \in Protocols, n \in {h, UpperCase(h)}, t \in Tails :
                         s = (p \o n) \o t
<1> DEFINE N == {h, UpperCase(h)}
           T == {p \o n \o t : p \in Protocols, n \in N, t \in Tails}
<1>1. Spellings(h) = T
    BY DEF Spellings
<1>2. \A s : s \in T <=> \E p \in Protocols, n \in N, t \in Tails : s = (p \o n) \o t
    <2> HIDE DEF N
    <2> QED OBVIOUS
<1> HIDE DEF T
<1> QED BY <1>1, <1>2

\* A prefix of blanks and scheme, and a tail with blanks, are a spelling.
LEMMA Respelled ==
    ASSUME NEW q \in Texts, NEW u \in Texts, NEW n \in Texts, NEW t \in Texts, NEW r \in Texts
    PROVE  Glue(Glue(Glue(q, u), n), Glue(t, r)) = Glue(Glue(q, Glue(Glue(u, n), t)), r)
<1>1. Glue(Glue(q, u), n) = Glue(q, Glue(u, n))
    BY GlueLaws
<1>2. Glue(u, n) \in Texts
    BY GlueLaws
<1>3. \A k \in Texts : Glue(Glue(q, k), Glue(t, r)) = Glue(Glue(q, Glue(k, t)), r)
    <2> TAKE k \in Texts
    <2>1. Glue(q, k) \in Texts
        BY GlueLaws
    <2>2. Glue(Glue(Glue(q, k), t), r) = Glue(Glue(q, k), Glue(t, r))
        BY <2>1, GlueLaws
    <2>3. Glue(Glue(q, k), t) = Glue(q, Glue(k, t))
        BY GlueLaws
    <2> QED BY <2>2, <2>3
<1> QED BY <1>1, <1>2, <1>3

LEMMA SpellingsAreWritten ==
    ASSUME NEW h \in Texts, IsHost(h), NEW s \in Spellings(h)
    PROVE  Written(h, s)
<1>1. PICK p \in Protocols, n \in {h, UpperCase(h)}, t \in Tails : s = (p \o n) \o t
    BY SpellingsAre
<1>2. PICK q, u \in Texts : p = q \o u /\ Only(q, {"blank"}) /\ (u # <<>> => Scheme(u))
    BY ProtocolsAre
<1>3. PICK w, x, y, z, r : TailIs(t, w, x, y, z, r)
    BY TailsAre
<1>4. n \in Texts /\ LowerCase(n) = h
    BY HostInCapitals
<1>5. Rest(w, x, y, z) \in Texts
    BY <1>3, RestIs DEF TailIs
<1>6. s = Spelling(q, u, n, Rest(w, x, y, z), r)
    <2>1. s = ((q \o u) \o n) \o (Rest(w, x, y, z) \o r)
        BY <1>1, <1>2, <1>3 DEF TailIs
    <2>2. r \in Texts
        BY <1>3 DEF TailIs
    <2>3. ((q \o u) \o n) \o (Rest(w, x, y, z) \o r) = Spelling(q, u, n, Rest(w, x, y, z), r)
        <3> DEFINE k == Rest(w, x, y, z)
        <3>1. k \in Texts
            BY <1>5
        <3> HIDE DEF k
        <3>2. Glue(Glue(Glue(q, u), n), Glue(k, r)) = Glue(Glue(q, Glue(Glue(u, n), k)), r)
            BY <1>4, <2>2, <3>1, Respelled
        <3> QED BY <3>2 DEF k, Glue, Spelling
    <2> QED BY <2>1, <2>3
<1> QED BY <1>2, <1>3, <1>4, <1>6 DEF TailIs, Parts, Written

\* A host is a spelling of itself: normalizeDomain may be applied to its own result,
\* as fetch and buildAdsTxtUrl do, and whatever it returns is a host.
THEOREM NormalizingTwice ==
    ASSUME NEW value \in Texts, normalizeDomain(value) # Invalid
    PROVE  /\ IsHost(normalizeDomain(value))
           /\ normalizeDomain(normalizeDomain(value)) = normalizeDomain(value)
<1> DEFINE h == normalizeDomain(value)
<1>1. h \in Texts /\ IsHost(h)
    BY NormalizedIsHost
<1> HIDE DEF h
<1>2. <<>> \in Protocols /\ <<>> \in Tails /\ (<<>> \o h) \o <<>> = h
    BY <1>1, ConcatEmptySeq DEF Protocols, Tails, Texts
<1>3. h \in Spellings(h)
    BY <1>2, SpellingsAre
<1>4. normalizeDomain(h) = h
    BY <1>1, <1>3, SpellingsAreWritten, EverySpelling
<1> QED BY <1>1, <1>4 DEF h

=============================================================================
