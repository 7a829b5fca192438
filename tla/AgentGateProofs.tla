--------------------------- MODULE AgentGateProofs ---------------------------
(***************************************************************************)
(* What the minimisation of the first gate promises, for any payloads,     *)
(* rules and words, and whatever agents write into what they handed in:    *)
(* ScrubbedIsClean is about the algorithm of policy.py, IsMinimised about  *)
(* what reaches a tool.                                                    *)
(***************************************************************************)
EXTENDS AgentGate, FiniteSetTheorems, SequenceTheorems, WellFoundedInduction, TLAPS

-----------------------------------------------------------------------------
(* Numbers, folds and sequences.  Induction is over sets: what holds of 0  *)
(* and of n + 1 when of n, is a set that Nat is part of.                   *)

\* A set of numbers has a least.
LEMMA Least ==
    ASSUME NEW N \in SUBSET Nat, N # {}
    PROVE  \E n \in N : \A m \in N : n <= m
  <1>1. PICK x \in N : \A y \in N : ~ (<<y, x>> \in OpToRel(<, Nat))
    <2> HIDE DEF OpToRel
    <2> QED BY WFMin, NatLessThanWellFounded
  <1>2. \A y \in N : ~ (y < x)
    BY <1>1 DEF OpToRel
  <1> QED BY <1>2

\* Counting up from 0 reaches every number.
LEMMA CountUp ==
    ASSUME NEW N, 0 \in N, \A n \in Nat : n \in N => n + 1 \in N
    PROVE  Nat \subseteq N
  <1> SUFFICES ASSUME Nat \ N # {}
               PROVE  FALSE
    OBVIOUS
  <1>1. PICK n \in Nat \ N : \A m \in Nat \ N : n <= m
    BY Least
  <1>2. n # 0 /\ n - 1 \in Nat
    BY <1>1
  <1>3. n - 1 \in N
    BY <1>1, <1>2
  <1> QED BY <1>1, <1>2, <1>3

\* What a fold by f from a over s has made after each step.
Folds(f, a, s, A) ==
    {g \in [0..Len(s) -> A] : g[0] = a /\ \A i \in 1..Len(s) : g[i] = f[<<g[i - 1], s[i]>>]}

\* A fold over a sequence has a value at every step.
LEMMA FoldExists ==
    ASSUME NEW A, NEW B, NEW f \in [A \X B -> A], NEW a \in A, NEW s \in Seq(B)
    PROVE  Folds(f, a, s, A) # {}
  <1> DEFINE Upto(n) == \E g \in [0..n -> A] : g[0] = a /\ \A i \in 1..n : g[i] = f[<<g[i - 1], s[i]>>]
             N == {n \in Nat : n <= Len(s) => Upto(n)}
  <1>1. 0 \in N
    <2> DEFINE g == [i \in 0..0 |-> a]
    <2>1. g \in [0..0 -> A] /\ g[0] = a /\ \A i \in 1..0 : g[i] = f[<<g[i - 1], s[i]>>]
      OBVIOUS
    <2> QED BY <2>1
  <1>2. ASSUME NEW n \in Nat, n \in N
        PROVE  n + 1 \in N
    <2> SUFFICES ASSUME n + 1 <= Len(s)
                 PROVE  Upto(n + 1)
      OBVIOUS
    <2>1. PICK g \in [0..n -> A] : g[0] = a /\ \A i \in 1..n : g[i] = f[<<g[i - 1], s[i]>>]
      BY <1>2
    <2> DEFINE h == [i \in 0..(n + 1) |-> IF i = n + 1 THEN f[<<g[n], s[n + 1]>>] ELSE g[i]]
    <2>2. h[0] = a /\ \A i \in 1..(n + 1) : h[i] = f[<<h[i - 1], s[i]>>]
      <3>1. h[n + 1] = f[<<g[n], s[n + 1]>>] /\ \A i \in 0..n : h[i] = g[i]
        OBVIOUS
      <3> HIDE DEF h
      <3>2. h[0] = a
        BY <2>1, <3>1
      <3>3. ASSUME NEW i \in 1..(n + 1)
            PROVE  h[i] = f[<<h[i - 1], s[i]>>]
        <4>1. CASE i = n + 1
          <5>1. i - 1 = n /\ h[i - 1] = g[n] /\ h[i] = f[<<g[n], s[i]>>]
            BY <3>1, <4>1
          <5> QED BY <5>1
        <4>2. CASE i # n + 1
          <5>1. i \in 1..n /\ h[i] = g[i] /\ h[i - 1] = g[i - 1]
            BY <3>1, <4>2
          <5> QED BY <2>1, <5>1
        <4> QED BY <4>1, <4>2
      <3> QED BY <3>2, <3>3
    <2>3. h \in [0..(n + 1) -> A]
      <3>1. s[n + 1] \in B /\ g[n] \in A
        BY ElementOfSeq
      <3> QED BY <3>1
    <2> QED BY <2>2, <2>3
  <1> HIDE DEF N
  <1>3. Len(s) \in N
    BY <1>1, <1>2, CountUp
  <1>4. Upto(Len(s))
    BY <1>3 DEF N
  <1> QED BY <1>4 DEF Folds

\* Every property of <<>> that appending keeps is one of all sequences.
LEMMA SeqInduction ==
    ASSUME NEW S, NEW T, <<>> \in T, \A s \in Seq(S), e \in S : s \in T => Append(s, e) \in T
    PROVE  Seq(S) \subseteq T
  <1> DEFINE N == {n \in Nat : \A s \in Seq(S) : Len(s) = n => s \in T}
  <1>1. 0 \in N
    BY EmptySeq
  <1>2. ASSUME NEW n \in Nat, n \in N
        PROVE  n + 1 \in N
    <2> SUFFICES ASSUME NEW s \in Seq(S), Len(s) = n + 1
                 PROVE  s \in T
      OBVIOUS
    <2>1. s # <<>>
      OBVIOUS
    <2>2. PICK r \in Seq(S), e \in S : s = Append(r, e)
      BY <2>1, SequenceEmptyOrAppend
    <2>3. Len(r) = n
      BY <2>2, AppendProperties
    <2> QED BY <1>2, <2>2, <2>3
  <1> HIDE DEF N
  <1>3. \A s \in Seq(S) : Len(s) \in N
    BY <1>1, <1>2, CountUp
  <1> QED BY <1>3 DEF N

-----------------------------------------------------------------------------
(* str.replace. *)

\* g is what str.replace makes of every suffix of a text.
Scans(g, text, w) ==
    /\ g \in [1..(Len(text) + 1) -> Seq(Letters)]
    /\ g[Len(text) + 1] = <<>>
    /\ \A i \in 1..Len(text) :
         g[i] = IF OccursAt(w, text, i) THEN <<Mark>> \o g[i + Len(w)] ELSE <<text[i]>> \o g[i + 1]

\* A word that occurs ends in the text.
LEMMA OccursWithin ==
    ASSUME NEW text \in Seq(Letters), NEW w \in Seq(Letters), w # <<>>,
           NEW i \in 1..Len(text), OccursAt(w, text, i)
    PROVE  i + Len(w) \in (i + 1)..(Len(text) + 1)
  BY DEF OccursAt

\* The suffixes are replaced from the last to the first.
LEMMA ScanExists ==
    ASSUME NEW text \in Seq(Letters), NEW w \in Seq(Letters), w # <<>>
    PROVE  \E g : Scans(g, text, w)
  <1> DEFINE n == Len(text)
             Good(g, i) == g[i] = IF OccursAt(w, text, i) THEN <<Mark>> \o g[i + Len(w)]
                                                          ELSE <<text[i]>> \o g[i + 1]
             From(k) == \E g \in [(n + 1 - k)..(n + 1) -> Seq(Letters)] :
                            g[n + 1] = <<>> /\ \A i \in (n + 1 - k)..n : Good(g, i)
             N == {k \in Nat : k <= n => From(k)}
  <1>0. n \in Nat
    BY LenProperties
  <1>1. 0 \in N
    <2> DEFINE g == [i \in (n + 1 - 0)..(n + 1) |-> <<>>]
    <2>1. g \in [(n + 1 - 0)..(n + 1) -> Seq(Letters)] /\ g[n + 1] = <<>>
      OBVIOUS
    <2>2. (n + 1 - 0)..n = {}
      BY <1>0
    <2> QED BY <2>1, <2>2
  <1>2. ASSUME NEW k \in Nat, k \in N
        PROVE  k + 1 \in N
    <2> SUFFICES ASSUME k + 1 <= n
                 PROVE  From(k + 1)
      <3> HIDE DEF From, n
      <3> QED OBVIOUS
    <2>1. PICK g \in [(n + 1 - k)..(n + 1) -> Seq(Letters)] :
                   g[n + 1] = <<>> /\ \A i \in (n + 1 - k)..n : Good(g, i)
      BY <1>2
    <2> DEFINE d == n - k
               new == IF OccursAt(w, text, d) THEN <<Mark>> \o g[d + Len(w)] ELSE <<text[d]>> \o g[d + 1]
               h == [i \in (n + 1 - (k + 1))..(n + 1) |-> IF i = d THEN new ELSE g[i]]
    <2>2. d \in 1..n /\ n + 1 - (k + 1) = d /\ d + 1 = n + 1 - k
      OBVIOUS
    <2>3. OccursAt(w, text, d) => d + Len(w) \in (n + 1 - k)..(n + 1)
      BY <2>2, OccursWithin
    <2>4. new \in Seq(Letters)
      <3>1. text[d] \in Letters /\ Mark \in Letters
        BY <2>2, ScrubAssumption
      <3> DEFINE e == d + Len(w)
      <3>2. g[d + 1] \in Seq(Letters)
        <4>1. d + 1 \in (n + 1 - k)..(n + 1)
          BY <1>0, <2>2
        <4> HIDE DEF d
        <4> QED BY <2>1, <4>1
      <3>3. OccursAt(w, text, d) => g[e] \in Seq(Letters)
        <4> HIDE DEF d
        <4> QED BY <2>1, <2>3
      <3> QED BY <3>1, <3>2, <3>3
    <2>5. /\ h \in [(n + 1 - (k + 1))..(n + 1) -> Seq(Letters)]
          /\ h[d] = new /\ \A i \in (n + 1 - k)..(n + 1) : h[i] = g[i]
      <3> HIDE DEF new
      <3> QED BY <2>1, <2>2, <2>4
    <2> HIDE DEF h
    <2>6. h[n + 1] = <<>>
      BY <2>1, <2>5
    <2>7. ASSUME NEW i \in (n + 1 - (k + 1))..n
          PROVE  Good(h, i)
      <3>1. CASE i = d
        <4>1. h[d + 1] = g[d + 1]
          BY <2>2, <2>5
        <4>2. OccursAt(w, text, d) => h[d + Len(w)] = g[d + Len(w)]
          <5> HIDE DEF d
          <5> QED BY <2>3, <2>5
        <4> QED BY <2>5, <3>1, <4>1, <4>2
      <3>2. CASE i # d
        <4>1. i \in (n + 1 - k)..n /\ i \in 1..n
          BY <2>2, <3>2
        <4>2. OccursAt(w, text, i) => i + Len(w) \in (n + 1 - k)..(n + 1)
          BY <4>1, OccursWithin
        <4>3. h[i] = g[i] /\ h[i + 1] = g[i + 1] /\ (OccursAt(w, text, i) => h[i + Len(w)] = g[i + Len(w)])
          BY <2>5, <4>1, <4>2
        <4>4. Good(g, i)
          BY <2>1, <4>1
        <4> QED BY <4>3, <4>4
      <3> QED BY <3>1, <3>2
    <2> QED BY <2>5, <2>6, <2>7
  <1> HIDE DEF N
  <1>3. n \in N
    BY <1>1, <1>2, CountUp
  <1>4. From(n)
    BY <1>3 DEF N
  <1>5. PICK g \in [(n + 1 - n)..(n + 1) -> Seq(Letters)] :
                 g[n + 1] = <<>> /\ \A i \in (n + 1 - n)..n : Good(g, i)
    BY <1>4
  <1>6. n + 1 - n = 1
    OBVIOUS
  <1> QED BY <1>5, <1>6 DEF Scans

\* str.replace is the only scan there is.
LEMMA ReplacedIsScan ==
    ASSUME NEW text \in Seq(Letters), NEW w \in Seq(Letters), w # <<>>, NEW g, Scans(g, text, w)
    PROVE  Replaced(text, w) = g[1]
  <1> DEFINE n == Len(text)
             Table(h) == [i \in 1..(n + 1) |->
                             IF i > n THEN <<>>
                             ELSE IF OccursAt(w, text, i) THEN <<Mark>> \o h[i + Len(w)]
                             ELSE <<text[i]>> \o h[i + 1]]
  <1>0. n \in Nat
    BY LenProperties
  <1>1. g = Table(g)
    <2>1. g = [i \in 1..(n + 1) |-> g[i]]
      BY DEF Scans
    <2>2. \A i \in 1..(n + 1) : i > n <=> i = n + 1
      BY <1>0
    <2>3. ASSUME NEW i \in 1..(n + 1)
          PROVE  g[i] = Table(g)[i]
      <3>1. CASE i = n + 1
        BY <1>0, <2>2, <3>1 DEF Scans
      <3>2. CASE i # n + 1
        <4>1. i \in 1..n /\ ~ (i > n)
          BY <1>0, <3>2
        <4> QED BY <4>1 DEF Scans
      <3> QED BY <3>1, <3>2
    <2> HIDE DEF n
    <2> QED BY <2>1, <2>3
  <1>2. PICK h : h = Table(h) /\ Replaced(text, w) = h[1]
    BY <1>1 DEF Replaced
  <1> HIDE DEF Table
  <1>3. h[n + 1] = <<>> /\ \A i \in 1..n : h[i] = IF OccursAt(w, text, i) THEN <<Mark>> \o h[i + Len(w)]
                                                                      ELSE <<text[i]>> \o h[i + 1]
    <2>1. \A i \in 1..(n + 1) : h[i] = Table(h)[i]
      BY <1>2
    <2>2. n + 1 \in 1..(n + 1) /\ n + 1 > n /\ \A i \in 1..n : i \in 1..(n + 1) /\ ~ (i > n)
      BY <1>0
    <2> HIDE DEF n
    <2> QED BY <2>1, <2>2 DEF Table
  <1> DEFINE N == {k \in Nat : \A i \in 1..(n + 1) : i >= n + 1 - k => h[i] = g[i]}
  <1>4. 0 \in N
    BY <1>0, <1>3 DEF Scans
  <1>5. ASSUME NEW k \in Nat, k \in N
        PROVE  k + 1 \in N
    <2> SUFFICES ASSUME NEW i \in 1..(n + 1), i >= n + 1 - (k + 1)
                 PROVE  h[i] = g[i]
      OBVIOUS
    <2>1. CASE i >= n + 1 - k
      BY <1>5, <2>1
    <2>2. CASE ~ (i >= n + 1 - k)
      <3>1. i \in 1..n /\ i + 1 \in 1..(n + 1) /\ i + 1 >= n + 1 - k
        BY <1>0, <2>2
      <3>2. OccursAt(w, text, i) => i + Len(w) \in 1..(n + 1) /\ i + Len(w) >= n + 1 - k
        BY <1>0, <3>1, OccursWithin
      <3>3. h[i + 1] = g[i + 1] /\ (OccursAt(w, text, i) => h[i + Len(w)] = g[i + Len(w)])
        BY <1>5, <3>1, <3>2
      <3> QED BY <1>3, <3>1, <3>3 DEF Scans
    <2> QED BY <2>1, <2>2
  <1> HIDE DEF N
  <1>6. n \in N
    BY <1>0, <1>4, <1>5, CountUp
  <1> QED BY <1>0, <1>2, <1>6 DEF N

\* An occurrence, character by character.
LEMMA OccursByChars ==
    ASSUME NEW text \in Seq(Letters), NEW w \in Seq(Letters), NEW i \in 1..(Len(text) + 1)
    PROVE  OccursAt(w, text, i) <=>
               i + Len(w) - 1 <= Len(text) /\ \A q \in 1..Len(w) : text[i + q - 1] = w[q]
  <1> DEFINE m == i + Len(w) - 1
             sub == SubSeq(text, i, m)
  <1> SUFFICES ASSUME m <= Len(text)
               PROVE  sub = w <=> \A q \in 1..Len(w) : text[i + q - 1] = w[q]
    BY DEF OccursAt
  <1>1. sub \in Seq(Letters) /\ Len(sub) = Len(w) /\ \A q \in 1..Len(w) : sub[q] = text[i + q - 1]
    BY SubSeqProperties
  <1> HIDE DEF sub
  <1> QED BY <1>1, SeqEqual

\* Where a scan writes no mark it copies, character after character.
LEMMA ScanCopies ==
    ASSUME NEW text \in Seq(Letters), NEW w \in Seq(Letters), w # <<>>, NEW g, Scans(g, text, w)
    PROVE  \A i \in 1..(Len(text) + 1), m \in Nat :
               m <= Len(g[i]) /\ (\A q \in 1..m : g[i][q] # Mark) =>
                   i + m - 1 <= Len(text) /\ \A q \in 1..m : g[i][q] = text[i + q - 1]
  <1> DEFINE n == Len(text)
             Copies(i, m) == m <= Len(g[i]) /\ (\A q \in 1..m : g[i][q] # Mark) =>
                                 i + m - 1 <= n /\ \A q \in 1..m : g[i][q] = text[i + q - 1]
             M == {m \in Nat : \A i \in 1..(n + 1) : Copies(i, m)}
  <1>0. n \in Nat /\ Mark \in Letters
    BY LenProperties, ScrubAssumption
  <1>1. 0 \in M
    BY <1>0
  <1>2. ASSUME NEW m \in Nat, m \in M
        PROVE  m + 1 \in M
    <2> SUFFICES ASSUME NEW i \in 1..(n + 1), m + 1 <= Len(g[i]), \A q \in 1..(m + 1) : g[i][q] # Mark
                 PROVE  i + (m + 1) - 1 <= n /\ \A q \in 1..(m + 1) : g[i][q] = text[i + q - 1]
      <3> HIDE DEF n
      <3> QED OBVIOUS
    <2>1. i \in 1..n
      BY <1>0 DEF Scans
    <2>2. ~ OccursAt(w, text, i)
      <3> SUFFICES ASSUME OccursAt(w, text, i)
                   PROVE  g[i][1] = Mark
        OBVIOUS
      <3>1. i + Len(w) \in 1..(n + 1)
        BY <1>0, <2>1, OccursWithin
      <3>2. g[i + Len(w)] \in Seq(Letters) /\ g[i] = <<Mark>> \o g[i + Len(w)]
        BY <2>1, <3>1 DEF Scans
      <3> QED BY <1>0, <3>2
    <2>3. i + 1 \in 1..(n + 1) /\ g[i + 1] \in Seq(Letters) /\ g[i] = <<text[i]>> \o g[i + 1] /\ text[i] \in Letters
      <3>1. i + 1 \in 1..(n + 1) /\ text[i] \in Letters
        BY <1>0, <2>1
      <3>2. g[i + 1] \in Seq(Letters)
        BY <3>1 DEF Scans
      <3>3. g[i] = <<text[i]>> \o g[i + 1]
        BY <2>1, <2>2 DEF Scans
      <3> QED BY <3>1, <3>2, <3>3
    <2>4. /\ Len(g[i]) = Len(g[i + 1]) + 1 /\ g[i][1] = text[i]
          /\ \A q \in 1..Len(g[i + 1]) : g[i][q + 1] = g[i + 1][q]
      BY <2>3
    <2>5. m <= Len(g[i + 1]) /\ \A q \in 1..m : g[i + 1][q] # Mark
      <3>1. Len(g[i + 1]) \in Nat /\ m <= Len(g[i + 1])
        BY <2>3, <2>4
      <3>2. ASSUME NEW q \in 1..m
            PROVE  g[i + 1][q] # Mark
        <4>1. q \in 1..Len(g[i + 1]) /\ q + 1 \in 1..(m + 1)
          BY <3>1
        <4> QED BY <2>4, <4>1
      <3> QED BY <3>1, <3>2
    <2>6. (i + 1) + m - 1 <= n /\ \A q \in 1..m : g[i + 1][q] = text[(i + 1) + q - 1]
      BY <1>2, <2>3, <2>5
    <2>7. ASSUME NEW q \in 1..(m + 1)
          PROVE  g[i][q] = text[i + q - 1]
      <3>1. CASE q = 1
        BY <2>1, <2>4, <3>1
      <3>2. CASE q # 1
        <4> DEFINE r == q - 1
        <4>1. r \in 1..m /\ q = r + 1 /\ r \in 1..Len(g[i + 1]) /\ (i + 1) + r - 1 = i + q - 1
          BY <2>1, <2>3, <2>5, <3>2
        <4> HIDE DEF r
        <4>2. g[i][q] = g[i + 1][r] /\ g[i + 1][r] = text[(i + 1) + r - 1]
          BY <2>4, <2>6, <4>1
        <4> QED BY <4>1, <4>2
      <3> QED BY <3>1, <3>2
    <2> QED BY <1>0, <2>1, <2>6, <2>7
  <1> HIDE DEF M
  <1>3. Nat \subseteq M
    BY <1>1, <1>2, CountUp
  <1> QED BY <1>3 DEF M

\* A word without the mark that is in what a scan returns was in the text, at a place
\* the scan has copied.
LEMMA ScanAddsNothing ==
    ASSUME NEW text \in Seq(Letters), NEW w \in Seq(Letters), w # <<>>, NEW g, Scans(g, text, w),
           NEW v \in Seq(Letters \ {Mark}), v # <<>>
    PROVE  \A i \in 1..(Len(text) + 1) : \A k \in DOMAIN g[i] : OccursAt(v, g[i], k) =>
               \E j \in 1..Len(text) : OccursAt(v, text, j) /\ ~ OccursAt(w, text, j)
  <1> DEFINE n == Len(text)
             Copied == \E j \in 1..n : OccursAt(v, text, j) /\ ~ OccursAt(w, text, j)
             Good(i) == \A k \in DOMAIN g[i] : OccursAt(v, g[i], k) => Copied
             N == {m \in Nat : \A i \in 1..(n + 1) : i >= n + 1 - m => Good(i)}
  <1>0. n \in Nat /\ Mark \in Letters /\ v \in Seq(Letters) /\ Len(v) \in Nat \ {0}
        /\ \A q \in 1..Len(v) : v[q] # Mark
    BY LenProperties, ScrubAssumption
  <1>1. 0 \in N
    <2>1. DOMAIN g[n + 1] = {}
      BY DEF Scans
    <2>2. \A i \in 1..(n + 1) : i >= n + 1 - 0 => i = n + 1
      BY <1>0
    <2> HIDE DEF n, Copied
    <2> QED BY <2>1, <2>2
  <1>2. ASSUME NEW m \in Nat, m \in N
        PROVE  m + 1 \in N
    <2> SUFFICES ASSUME NEW i \in 1..(n + 1), i >= n + 1 - (m + 1),
                        NEW k \in DOMAIN g[i], OccursAt(v, g[i], k)
                 PROVE  Copied
      <3> HIDE DEF n, Copied
      <3> QED OBVIOUS
    <2>1. CASE i >= n + 1 - m
      <3> HIDE DEF n, Copied
      <3> QED BY <1>2, <2>1
    <2>2. CASE ~ (i >= n + 1 - m)
      <3>1. i \in 1..n /\ g[i] \in Seq(Letters)
        BY <1>0, <2>2 DEF Scans
      <3>2. k \in 1..Len(g[i])
        BY <3>1
      <3>3. k + Len(v) - 1 <= Len(g[i]) /\ \A q \in 1..Len(v) : g[i][k + q - 1] = v[q]
        <4>1. k \in 1..(Len(g[i]) + 1)
          BY <3>1, <3>2
        <4> QED BY <1>0, <3>1, <4>1, OccursByChars
      <3>4. ASSUME NEW d \in 1..(n + 1), d > i, NEW c \in Letters, g[i] = <<c>> \o g[d], k # 1
            PROVE  Copied
        <4> DEFINE l == k - 1
        <4>1. g[d] \in Seq(Letters)
          BY <3>4 DEF Scans
        <4>2. /\ Len(g[i]) = Len(g[d]) + 1
              /\ \A q \in 1..Len(g[d]) : g[i][q + 1] = g[d][q]
          BY <3>4, <4>1
        <4>3. l \in 1..Len(g[d]) /\ k = l + 1
          BY <3>2, <3>4, <4>1, <4>2
        <4> HIDE DEF l
        <4>4. l + Len(v) - 1 <= Len(g[d])
          BY <1>0, <3>3, <4>1, <4>2, <4>3
        <4>5. ASSUME NEW q \in 1..Len(v)
              PROVE  g[d][l + q - 1] = v[q]
          <5>1. l + q - 1 \in 1..Len(g[d]) /\ (l + q - 1) + 1 = k + q - 1
            <6>1. l \in Int /\ q \in Int /\ Len(v) \in Int /\ Len(g[d]) \in Int
              BY <1>0, <4>1, <4>3
            <6>2. 1 <= l /\ 1 <= q /\ q <= Len(v) /\ k = l + 1
              BY <1>0, <4>3
            <6> QED BY <4>4, <6>1, <6>2
          <5> QED BY <3>3, <4>2, <5>1
        <4>6. OccursAt(v, g[d], l)
          <5>1. l \in 1..(Len(g[d]) + 1)
            BY <4>1, <4>3
          <5> QED BY <1>0, <4>1, <4>4, <4>5, <5>1, OccursByChars
        <4>7. d >= n + 1 - m /\ l \in DOMAIN g[d]
          BY <1>0, <2>2, <3>4, <4>1, <4>3
        <4> HIDE DEF n, Copied
        <4> QED BY <1>2, <4>6, <4>7
      <3>5. CASE OccursAt(w, text, i)
        <4>1. i + Len(w) \in 1..(n + 1) /\ i + Len(w) > i
          BY <1>0, <3>1, <3>5, OccursWithin
        <4>2. g[i] = <<Mark>> \o g[i + Len(w)] /\ g[i + Len(w)] \in Seq(Letters)
          BY <3>1, <3>5, <4>1 DEF Scans
        <4>3. g[i][1] = Mark
          BY <1>0, <4>2
        <4>4. k # 1
          <5>1. 1 \in 1..Len(v)
            BY <1>0
          <5> QED BY <1>0, <3>3, <4>3, <5>1
        <4> QED BY <1>0, <3>4, <4>1, <4>2, <4>4
      <3>6. CASE ~ OccursAt(w, text, i)
        <4>1. /\ i + 1 \in 1..(n + 1) /\ i + 1 > i /\ text[i] \in Letters
              /\ g[i] = <<text[i]>> \o g[i + 1]
          <5>1. i + 1 \in 1..(n + 1) /\ i + 1 > i /\ text[i] \in Letters
            BY <1>0, <3>1
          <5>2. g[i] = <<text[i]>> \o g[i + 1]
            BY <3>1, <3>6 DEF Scans
          <5> QED BY <5>1, <5>2
        <4>2. CASE k # 1
          BY <3>4, <4>1, <4>2
        <4>3. CASE k = 1
          <5>1. \A q \in 1..Len(v) : 1 + q - 1 = q
            OBVIOUS
          <5>2. Len(v) <= Len(g[i]) /\ \A q \in 1..Len(v) : g[i][q] = v[q]
            BY <1>0, <3>1, <3>3, <4>3, <5>1
          <5>3. i + Len(v) - 1 <= n /\ \A q \in 1..Len(v) : g[i][q] = text[i + q - 1]
            <6>1. Len(v) \in Nat /\ \A q \in 1..Len(v) : g[i][q] # Mark
              BY <1>0, <5>2
            <6> QED BY <5>2, <6>1, ScanCopies
          <5>4. OccursAt(v, text, i)
            BY <1>0, <5>2, <5>3, OccursByChars
          <5> QED BY <3>1, <3>6, <5>4
        <4> QED BY <4>2, <4>3
      <3> QED BY <3>5, <3>6
    <2> QED BY <2>1, <2>2
  <1> HIDE DEF N
  <1>3. n \in N
    BY <1>0, <1>1, <1>2, CountUp
  <1>4. \A i \in 1..(n + 1) : i >= n + 1 - n
    BY <1>0
  <1> QED BY <1>3, <1>4 DEF N

\* What can be scrubbed out of a text.
Secrets == Seq(Letters) \ {<<>>}

\* One replacement takes every occurrence of its word out, and brings no other in that
\* has no mark.
LEMMA ReplacedKeepsOut ==
    ASSUME NEW text \in Seq(Letters), NEW w \in Secrets
    PROVE  /\ Replaced(text, w) \in Seq(Letters)
           /\ \A v \in Seq(Letters \ {Mark}) \ {<<>>} :
                v = w \/ ~ Occurs(v, text) => ~ Occurs(v, Replaced(text, w))
           /\ text \in {<<>>, <<Mark>>} => Replaced(text, w) = text
  <1>1. w \in Seq(Letters) /\ w # <<>> /\ Mark \in Letters /\ Len(text) \in Nat /\ Len(w) \in Nat \ {0}
    BY ScrubAssumption DEF Secrets
  <1>2. PICK g : Scans(g, text, w)
    BY <1>1, ScanExists
  <1>3. Replaced(text, w) = g[1]
    BY <1>1, <1>2, ReplacedIsScan
  <1>4. 1 \in 1..(Len(text) + 1)
    BY <1>1
  <1>5. g[1] \in Seq(Letters)
    BY <1>2, <1>4 DEF Scans
  <1>6. ASSUME NEW v \in Seq(Letters \ {Mark}) \ {<<>>}, Occurs(v, g[1])
        PROVE  v # w /\ Occurs(v, text)
    <2>1. \A k \in DOMAIN g[1] : OccursAt(v, g[1], k) =>
              \E j \in 1..Len(text) : OccursAt(v, text, j) /\ ~ OccursAt(w, text, j)
      BY <1>1, <1>2, <1>4, ScanAddsNothing
    <2>2. DOMAIN text = 1..Len(text)
      OBVIOUS
    <2> QED BY <1>6, <2>1, <2>2 DEF Occurs
  <1>7. ASSUME text = <<>>
        PROVE  g[1] = <<>>
    <2>1. Len(text) + 1 = 1
      BY <1>7
    <2> QED BY <1>2, <2>1 DEF Scans
  <1>8. ASSUME text = <<Mark>>
        PROVE  g[1] = <<Mark>>
    <2>1. Len(text) = 1 /\ text[1] = Mark
      BY <1>8
    <2>2. OccursAt(w, text, 1) => Len(w) = 1
      BY <1>1, <2>1 DEF OccursAt
    <2>3. g[2] = <<>> /\ g[1] = IF OccursAt(w, text, 1) THEN <<Mark>> \o g[1 + Len(w)] ELSE <<text[1]>> \o g[2]
      BY <1>2, <2>1 DEF Scans
    <2>4. g[1] = <<Mark>> \o <<>>
      <3>1. OccursAt(w, text, 1) => 1 + Len(w) = 2
        BY <1>1, <2>2
      <3> QED BY <2>1, <2>3, <3>1
    <2>5. <<Mark>> \o <<>> = <<Mark>>
      OBVIOUS
    <2> QED BY <2>4, <2>5
  <1> QED BY <1>3, <1>5, <1>6, <1>7, <1>8

\* The replacements, one after the other.
LEMMA AllReplacedSteps ==
    ASSUME NEW text \in Seq(Letters), NEW order \in Seq(Secrets)
    PROVE  \E g \in [0..Len(order) -> Seq(Letters)] :
             /\ g[0] = text /\ AllReplaced(text, order) = g[Len(order)]
             /\ \A i \in 1..Len(order) : order[i] \in Secrets /\ g[i] = Replaced(g[i - 1], order[i])
  <1> DEFINE n == Len(order)
             Step(h, i) == h[i] = IF i = 0 THEN text ELSE Replaced(h[i - 1], order[i])
             f == [x \in Seq(Letters) \X Secrets |-> Replaced(x[1], x[2])]
  <1>0. n \in Nat /\ \A i \in 1..n : order[i] \in Secrets
    BY LenProperties
  <1>1. f \in [Seq(Letters) \X Secrets -> Seq(Letters)]
    BY ReplacedKeepsOut
  <1>2. \A x \in Seq(Letters), w \in Secrets : f[<<x, w>>] = Replaced(x, w)
    OBVIOUS
  <1> HIDE DEF f
  <1>3. PICK g \in [0..n -> Seq(Letters)] : g[0] = text /\ \A i \in 1..n : g[i] = f[<<g[i - 1], order[i]>>]
    <2>1. Folds(f, text, order, Seq(Letters)) # {}
      BY <1>1, FoldExists
    <2> QED BY <2>1 DEF Folds
  <1>4. ASSUME NEW i \in 1..n
        PROVE  g[i] = Replaced(g[i - 1], order[i])
    <2>1. i - 1 \in 0..n
      BY <1>0
    <2>2. g[i - 1] \in Seq(Letters) /\ order[i] \in Secrets
      BY <1>0, <1>3, <2>1
    <2> QED BY <1>2, <1>3, <2>2
  <1>5. \A i \in 0..n : i # 0 => i \in 1..n
    BY <1>0
  <1>6. \A i \in 0..n : Step(g, i)
    BY <1>3, <1>4, <1>5
  <1>7. g = [i \in 0..n |-> IF i = 0 THEN text ELSE Replaced(g[i - 1], order[i])]
    BY <1>3, <1>6
  <1>8. PICK h : /\ h = [i \in 0..n |-> IF i = 0 THEN text ELSE Replaced(h[i - 1], order[i])]
                 /\ AllReplaced(text, order) = h[n]
    BY <1>7 DEF AllReplaced
  <1>9. \A i \in 0..n : Step(h, i)
    BY <1>8
  <1> DEFINE N == {m \in Nat : m \in 0..n => h[m] = g[m]}
  <1>10. 0 \in N
    BY <1>0, <1>6, <1>9
  <1>11. ASSUME NEW m \in Nat, m \in N
         PROVE  m + 1 \in N
    <2> SUFFICES ASSUME m + 1 \in 0..n
                 PROVE  h[m + 1] = g[m + 1]
      OBVIOUS
    <2>1. m \in 0..n /\ (m + 1) - 1 = m /\ m + 1 # 0
      BY <1>0
    <2>2. h[m] = g[m]
      BY <1>11, <2>1
    <2> QED BY <1>6, <1>9, <2>1, <2>2
  <1> HIDE DEF N
  <1>12. n \in N
    BY <1>0, <1>10, <1>11, CountUp
  <1>13. h[n] = g[n]
    BY <1>0, <1>12 DEF N
  <1> QED BY <1>0, <1>3, <1>4, <1>8, <1>13

\* However they are ordered: no word of them is left, none comes in, and what was
\* empty or redacted stays so.
LEMMA AllReplacedKeepOut ==
    ASSUME NEW text \in Seq(Letters), NEW order \in Seq(Secrets)
    PROVE  /\ AllReplaced(text, order) \in Seq(Letters)
           /\ \A v \in Seq(Letters \ {Mark}) \ {<<>>} :
                (\E k \in DOMAIN order : v = order[k]) \/ ~ Occurs(v, text) => ~ Occurs(v, AllReplaced(text, order))
           /\ text \in {<<>>, <<Mark>>} => AllReplaced(text, order) = text
  <1> DEFINE n == Len(order)
             V == Seq(Letters \ {Mark}) \ {<<>>}
  <1>0. n \in Nat /\ DOMAIN order = 1..n
    BY LenProperties
  <1>1. PICK g \in [0..n -> Seq(Letters)] :
             /\ g[0] = text /\ AllReplaced(text, order) = g[n]
             /\ \A i \in 1..n : order[i] \in Secrets /\ g[i] = Replaced(g[i - 1], order[i])
    BY AllReplacedSteps
  <1> DEFINE Kept(i) == /\ \A v \in V : (\E k \in 1..i : v = order[k]) \/ ~ Occurs(v, text) => ~ Occurs(v, g[i])
                        /\ text \in {<<>>, <<Mark>>} => g[i] = text
             N == {m \in Nat : m <= n => Kept(m)}
  <1>2. 0 \in N
    <2>1. 1..0 = {}
      OBVIOUS
    <2> HIDE DEF V
    <2> QED BY <1>1, <2>1
  <1>3. ASSUME NEW m \in Nat, m \in N
        PROVE  m + 1 \in N
    <2> SUFFICES ASSUME m + 1 <= n
                 PROVE  Kept(m + 1)
      <3> HIDE DEF Kept
      <3> QED OBVIOUS
    <2>1. m + 1 \in 1..n /\ m \in 0..n /\ (m + 1) - 1 = m
      BY <1>0
    <2>2. g[m] \in Seq(Letters) /\ order[m + 1] \in Secrets /\ g[m + 1] = Replaced(g[m], order[m + 1])
      BY <1>1, <2>1
    <2>3. \A v \in V : v = order[m + 1] \/ ~ Occurs(v, g[m]) => ~ Occurs(v, g[m + 1])
      BY <2>2, ReplacedKeepsOut
    <2>4. g[m] \in {<<>>, <<Mark>>} => g[m + 1] = g[m]
      BY <2>2, ReplacedKeepsOut
    <2>5. Kept(m)
      BY <1>0, <1>3, <2>1
    <2>6. \A k \in 1..(m + 1) : k = m + 1 \/ k \in 1..m
      OBVIOUS
    <2> HIDE DEF V
    <2> QED BY <2>3, <2>4, <2>5, <2>6
  <1> HIDE DEF N
  <1>4. n \in N
    BY <1>0, <1>2, <1>3, CountUp
  <1>5. Kept(n)
    BY <1>0, <1>4 DEF N
  <1>6. g[n] \in Seq(Letters)
    BY <1>0, <1>1
  <1> QED BY <1>0, <1>1, <1>5, <1>6

-----------------------------------------------------------------------------
(* Minimisation. *)

\* An ordering of a finite set leaves nothing of it out.
LEMMA OrderingCovers ==
    ASSUME NEW S, IsFiniteSet(S), NEW f \in SetToSeqs(S)
    PROVE  /\ f \in Seq(S) /\ \A w \in S : \E k \in DOMAIN f : w = f[k]
  <1> DEFINE n == Cardinality(S)
  <1>1. n \in Nat
    BY FS_CardinalityType
  <1>2. f \in [1..n -> S] /\ \A i, j \in 1..n : i # j => f[i] # f[j]
    BY DEF SetToSeqs
  <1>3. f \in Injection(1..n, S)
    BY <1>2 DEF Injection, IsInjective
  <1>4. Cardinality(1..n) = n
    BY <1>1, FS_Interval
  <1>5. f \in Surjection(1..n, S)
    BY <1>3, <1>4, FS_Injection
  <1> QED BY <1>1, <1>2, <1>5 DEF Surjection

\* Of words that stand at one place there is a longest.
LEMMA LongestExists ==
    ASSUME NEW pat, pat.words \subseteq Secrets, NEW text \in Seq(Letters), NEW i \in 1..Len(text),
           MatchesAt(pat, text, i) # {}
    PROVE  Longest(MatchesAt(pat, text, i)) \in MatchesAt(pat, text, i)
  <1> DEFINE M == MatchesAt(pat, text, i)
             N == {n \in Nat : \E w \in M : n = Len(text) - Len(w)}
  <1>1. \A w \in M : Len(w) \in Nat /\ Len(text) - Len(w) \in Nat
    BY DEF MatchesAt, OccursAt, Secrets
  <1>2. N # {}
    BY <1>1
  <1>3. PICK n \in N : \A m \in N : n <= m
    BY <1>2, Least
  <1>4. PICK w \in M : n = Len(text) - Len(w)
    BY <1>3
  <1>5. \A v \in M : Len(v) <= Len(w)
    <2> SUFFICES ASSUME NEW v \in M
                 PROVE  Len(v) <= Len(w)
      OBVIOUS
    <2>1. Len(text) - Len(v) \in N
      BY <1>1
    <2>2. n <= Len(text) - Len(v)
      BY <1>3, <2>1
    <2> HIDE DEF M
    <2> QED BY <1>1, <1>4, <2>2
  <1> HIDE DEF M
  <1> QED BY <1>4, <1>5 DEF Longest, M

\* Where a pattern matches at all, findall finds a word of it.
LEMMA FindAllFinds ==
    ASSUME NEW pat, pat.words \subseteq Secrets, NEW text \in Seq(Letters),
           NEW at \in DOMAIN text, MatchesAt(pat, text, at) # {}
    PROVE  \E w \in pat.words : w \in FindAll(pat, text)
  <1> DEFINE n == Len(text)
             At(i) == MatchesAt(pat, text, i)
             A == [next : Nat, found : SUBSET pat.words]
             B == 1..n
             start == [next |-> 1, found |-> {}]
             New(a, i) == IF i < a.next \/ At(i) = {} THEN a
                          ELSE [next |-> i + Len(Longest(At(i))), found |-> a.found \cup {Longest(At(i))}]
             f == [x \in A \X B |-> New(x[1], x[2])]
             s == [i \in 1..n |-> i]
             Step(h, i) == h[i] = IF i = 0 THEN start ELSE New(h[i - 1], i)
  <1>0. n \in Nat /\ at \in 1..n /\ \A i \in 1..n : At(i) \subseteq pat.words
    BY DEF MatchesAt
  <1>1. \A i \in 1..n : At(i) # {} => Longest(At(i)) \in At(i) /\ Len(Longest(At(i))) \in Nat
    <2>1. \A i \in 1..n : At(i) # {} => Longest(At(i)) \in At(i)
      BY LongestExists
    <2> HIDE DEF At
    <2> QED BY <1>0, <2>1 DEF Secrets
  <1>2. \A a \in A, i \in B : New(a, i) \in A
    <2> SUFFICES ASSUME NEW a \in A, NEW i \in B
                 PROVE  New(a, i) \in A
      OBVIOUS
    <2> HIDE DEF At
    <2>1. CASE i < a.next \/ At(i) = {}
      BY <2>1
    <2>2. CASE ~ (i < a.next \/ At(i) = {})
      BY <1>0, <1>1, <2>2
    <2> QED BY <2>1, <2>2
  <1> HIDE DEF New
  <1>3. f \in [A \X B -> A]
    BY <1>2
  <1>4. \A a \in A, i \in B : f[<<a, i>>] = New(a, i)
    OBVIOUS
  <1>5. start \in A /\ s \in Seq(B) /\ Len(s) = n /\ \A i \in 1..n : s[i] = i
    BY <1>0
  <1> HIDE DEF f, s, A
  <1>6. PICK g \in [0..n -> A] : g[0] = start /\ \A i \in 1..n : g[i] = f[<<g[i - 1], s[i]>>]
    <2>1. Folds(f, start, s, A) # {}
      BY <1>3, <1>5, FoldExists
    <2> QED BY <1>5, <2>1 DEF Folds
  <1>7. \A i \in 0..n : Step(g, i)
    <2> SUFFICES ASSUME NEW i \in 0..n
                 PROVE  Step(g, i)
      OBVIOUS
    <2>1. CASE i = 0
      BY <1>6, <2>1
    <2>2. CASE i # 0
      <3>1. i \in B /\ i - 1 \in 0..n /\ g[i - 1] \in A
        BY <1>0, <1>6, <2>2
      <3> QED BY <1>4, <1>5, <1>6, <2>2, <3>1
    <2> QED BY <2>1, <2>2
  <1>8. g = [i \in 0..n |-> IF i = 0 THEN start ELSE New(g[i - 1], i)]
    BY <1>6, <1>7
  <1>9. PICK h : /\ h = [i \in 0..n |-> IF i = 0 THEN start ELSE New(h[i - 1], i)]
                 /\ FindAll(pat, text) = h[n].found
    BY <1>8 DEF FindAll, New
  <1>10. \A i \in 0..n : Step(h, i)
    BY <1>9
  <1> DEFINE Some(i) == \E j \in 1..i : At(j) # {}
             N == {m \in Nat : m \in 0..n =>
                     IF Some(m) THEN \E w \in pat.words : w \in h[m].found ELSE h[m] = start}
  <1>11. 0 \in N
    BY <1>0, <1>10
  <1>12. ASSUME NEW m \in Nat, m \in N
         PROVE  m + 1 \in N
    <2> SUFFICES ASSUME m + 1 \in 0..n
                 PROVE  IF Some(m + 1) THEN \E w \in pat.words : w \in h[m + 1].found ELSE h[m + 1] = start
      OBVIOUS
    <2> HIDE DEF At
    <2>1. m \in 0..n /\ m + 1 \in 1..n /\ (m + 1) - 1 = m /\ m + 1 # 0
      BY <1>0
    <2>2. h[m + 1] = New(h[m], m + 1)
      BY <1>10, <2>1
    <2>3. CASE Some(m)
      <3>1. PICK w \in pat.words : w \in h[m].found
        BY <1>12, <2>1, <2>3
      <3>2. w \in h[m + 1].found
        BY <2>2, <3>1 DEF New
      <3>3. Some(m + 1)
        BY <2>3
      <3> QED BY <3>2, <3>3
    <2>4. CASE ~ Some(m)
      <3>1. h[m] = start
        BY <1>12, <2>1, <2>4
      <3>2. CASE At(m + 1) = {}
        <4>1. ~ Some(m + 1) /\ h[m + 1] = start
          <5>1. \A j \in 1..(m + 1) : j = m + 1 \/ j \in 1..m
            OBVIOUS
          <5> QED BY <2>2, <2>4, <3>1, <3>2, <5>1 DEF New
        <4> QED BY <4>1
      <3>3. CASE At(m + 1) # {}
        <4>1. ~ (m + 1 < start.next)
          OBVIOUS
        <4>2. Longest(At(m + 1)) \in h[m + 1].found
          BY <2>2, <3>1, <3>3, <4>1 DEF New
        <4>3. Longest(At(m + 1)) \in pat.words
          BY <1>0, <1>1, <2>1, <3>3
        <4>4. Some(m + 1)
          BY <3>3
        <4> QED BY <4>2, <4>3, <4>4
      <3> QED BY <3>2, <3>3
    <2> QED BY <2>3, <2>4
  <1> HIDE DEF N
  <1>13. n \in N
    BY <1>0, <1>11, <1>12, CountUp
  <1>14. Some(n)
    BY <1>0
  <1> QED BY <1>0, <1>9, <1>13, <1>14 DEF N

\* What can be cut off a path.
LEMMA CutAtFirst ==
    ASSUME NEW K, NEW p \in Seq(K), NEW hits \in SUBSET DOMAIN p, hits # {}
    PROVE  \E m \in hits :
             /\ \A i \in hits : m <= i
             /\ Cut(p, hits) \in Seq(K) /\ Len(Cut(p, hits)) = m
             /\ \A i \in 1..m : i \in DOMAIN p /\ Cut(p, hits)[i] = p[i]
  <1>0. DOMAIN p = 1..Len(p) /\ Len(p) \in Nat
    OBVIOUS
  <1>1. hits \subseteq Nat
    BY <1>0
  <1>2. \E i \in hits : \A j \in hits : i <= j
    BY <1>1, Least
  <1> DEFINE m == CHOOSE i \in hits : \A j \in hits : i <= j
  <1>3. m \in hits /\ \A j \in hits : m <= j
    BY <1>2
  <1>4. Cut(p, hits) = SubSeq(p, 1, m)
    BY DEF Cut
  <1> HIDE DEF m
  <1>5. m \in 1..Len(p)
    BY <1>0, <1>3
  <1>6. SubSeq(p, 1, m) \in Seq(K) /\ Len(SubSeq(p, 1, m)) = m /\ \A i \in 1..m : SubSeq(p, 1, m)[i] = p[i]
    BY <1>0, <1>5
  <1> QED BY <1>0, <1>3, <1>4, <1>5, <1>6

\* Redaction leaves no named field.
LEMMA FieldsAreBlanked ==
    ASSUME NEW pay, IsPayload(pay), NEW fields
    PROVE  /\ \A q \in DOMAIN RedactFields(pay, fields) : RedactFields(pay, fields)[q] \in Scalars
           /\ \A rule : rule.fields = fields => NoNamedField(RedactFields(pay, fields), rule)
  <1> DEFINE red == RedactFields(pay, fields)
             H(p) == Hits(pay, p, fields)
  <1>1. DOMAIN red = {Cut(p, H(p)) : p \in DOMAIN pay}
    BY DEF RedactFields
  <1>2. \A q \in DOMAIN red : red[q] = IF q \in DOMAIN pay /\ H(q) = {} THEN pay[q] ELSE Blanked
    BY DEF RedactFields
  <1>3. Blanked \in Scalars
    <2>1. <<Mark>> \in Seq(Letters)
      BY ScrubAssumption
    <2> QED BY <2>1 DEF Blanked, Text, Scalars
  <1>4. \A p \in DOMAIN pay : p \in Seq(Range(p)) /\ pay[p] \in Scalars
    BY DEF IsPayload
  <1> HIDE DEF red
  <1>5. \A q \in DOMAIN red : red[q] \in Scalars
    BY <1>2, <1>3, <1>4
  <1>6. ASSUME NEW q \in DOMAIN red, NEW i \in DOMAIN q, q[i] \in fields
        PROVE  i = Len(q) /\ (red[q] = Blanked \/ Empty(red[q]))
    <2>1. PICK p \in DOMAIN pay : q = Cut(p, H(p))
      BY <1>1
    <2>2. p \in Seq(Range(p)) /\ H(p) \in SUBSET DOMAIN p
      BY <1>4 DEF Hits
    <2>3. CASE H(p) = {}
      <3>1. q = p
        BY <2>1, <2>3 DEF Cut
      <3>2. red[q] = pay[q]
        BY <1>2, <2>3, <3>1
      <3>3. i = Len(p) /\ Empty(pay[p])
        BY <1>6, <2>3, <3>1 DEF Hits
      <3> QED BY <3>1, <3>2, <3>3
    <2>4. CASE H(p) # {}
      <3>1. PICK m \in H(p) : /\ \A j \in H(p) : m <= j
                              /\ q \in Seq(Range(p)) /\ Len(q) = m
                              /\ \A j \in 1..m : j \in DOMAIN p /\ q[j] = p[j]
        BY <2>1, <2>2, <2>4, CutAtFirst
      <3>2. i \in 1..m /\ i \in DOMAIN p /\ p[i] \in fields /\ m \in 1..Len(p)
        BY <1>6, <2>2, <3>1
      <3>3. i = m
        <4> SUFFICES ASSUME i # m
                     PROVE  FALSE
          OBVIOUS
        <4>1. i # Len(p) /\ ~ (m <= i)
          BY <2>2, <3>2
        <4>2. i \in H(p)
          BY <3>2, <4>1 DEF Hits
        <4> QED BY <3>1, <4>1, <4>2
      <3>4. CASE q \in DOMAIN pay /\ H(q) = {}
        <4>1. i \in DOMAIN q /\ i \notin H(q)
          BY <3>4
        <4>2. Empty(pay[q])
          BY <1>6, <4>1 DEF Hits
        <4> QED BY <1>2, <3>1, <3>3, <3>4, <4>2
      <3>5. CASE ~ (q \in DOMAIN pay /\ H(q) = {})
        BY <1>2, <3>1, <3>3, <3>5
      <3> QED BY <3>4, <3>5
    <2> QED BY <2>3, <2>4
  <1> QED BY <1>5, <1>6 DEF NoNamedField, red

\* The secrets of a payload are finitely many words.
LEMMA SecretsAreWords ==
    ASSUME NEW pay, IsPayload(pay), NEW rule, IsRule(rule)
    PROVE  IsFiniteSet(RuleSecrets(pay, rule)) /\ RuleSecrets(pay, rule) \subseteq Secrets
  <1> DEFINE Q == {q \in DOMAIN pay : /\ pay[q].kind \in {"text", "number"}
                                      /\ Len(pay[q].text) >= MinScrubLen
                                      /\ Len(q) \in Hits(pay, q, rule.fields)
                                      /\ Cut(q, Hits(pay, q, rule.fields)) = q}
             A == FieldSecrets(pay, rule.fields)
             B == PatternSecrets(RedactFields(pay, rule.fields), rule)
             f == [q \in Q |-> pay[q].text]
  <1>1. A = {pay[q].text : q \in Q}
    BY DEF FieldSecrets
  <1>2. IsFiniteSet(Q)
    <2>1. IsFiniteSet(DOMAIN pay) /\ Q \in SUBSET DOMAIN pay
      BY DEF IsPayload
    <2> HIDE DEF Q
    <2> QED BY <2>1, FS_Subset
  <1>3. f \in Surjection(Q, A)
    <2> HIDE DEF Q
    <2> QED BY <1>1 DEF Surjection
  <1>4. IsFiniteSet(A)
    <2> HIDE DEF A, Q, f
    <2> QED BY <1>2, <1>3, FS_Surjection
  <1>5. A \subseteq Secrets
    <2> SUFFICES ASSUME NEW q \in Q
                 PROVE  pay[q].text \in Secrets
      BY <1>1
    <2>1. pay[q].text \in Seq(Letters) /\ Len(pay[q].text) >= MinScrubLen /\ MinScrubLen >= 1
      BY ScrubAssumption DEF IsPayload, Scalars
    <2>2. pay[q].text # <<>>
      BY <2>1, ScrubAssumption
    <2> QED BY <2>1, <2>2 DEF Secrets
  <1>6. B \in SUBSET RuleWords(rule)
    BY DEF PatternSecrets
  <1>7. IsFiniteSet(B) /\ B \subseteq Secrets
    <2> HIDE DEF B
    <2> QED BY <1>6, FS_Subset DEF IsRule, Secrets
  <1>8. RuleSecrets(pay, rule) = A \cup B
    BY DEF RuleSecrets
  <1> HIDE DEF A, B
  <1> QED BY <1>4, <1>5, <1>7, <1>8, FS_Union

\* No word has the mark.
Unmarked(pay, rule) ==
    /\ \A p \in DOMAIN pay : pay[p].text \in Seq(Letters \ {Mark})
    /\ RuleWords(rule) \subseteq Seq(Letters \ {Mark})

\* What a rule makes of a payload is clean, whatever the order of the secrets.
LEMMA ScrubbedIsClean ==
    ASSUME NEW pay, IsPayload(pay), NEW rule, IsRule(rule), Unmarked(pay, rule),
           NEW order \in SetToSeqs(RuleSecrets(pay, rule)),
           NEW got, got = Scrub(RedactFields(pay, rule.fields), order)
    PROVE  /\ NoNamedField(got, rule)
           /\ \A w \in RuleSecrets(pay, rule) : \A t \in Texts(got) : ~ Occurs(w, t)
  <1> DEFINE red == RedactFields(pay, rule.fields)
             All == RuleSecrets(pay, rule)
             V == Seq(Letters \ {Mark}) \ {<<>>}
  <1>1. order \in Seq(All) /\ (\A w \in All : \E k \in DOMAIN order : w = order[k]) /\ All \subseteq Secrets
    BY SecretsAreWords, OrderingCovers
  <1>2. order \in Seq(Secrets)
    <2> HIDE DEF All
    <2> QED BY <1>1
  <1>3. /\ \A q \in DOMAIN red : red[q] \in Scalars
        /\ NoNamedField(red, rule)
    BY FieldsAreBlanked
  <1>4. /\ DOMAIN got = DOMAIN red
        /\ \A p \in DOMAIN red : got[p] = IF red[p].kind # "text" THEN red[p]
                                          ELSE Text(AllReplaced(red[p].text, order))
    BY DEF Scrub
  <1> HIDE DEF red
  <1>5. ASSUME NEW t \in Texts(got)
        PROVE  \E u \in Texts(red) \cap Seq(Letters) : t = AllReplaced(u, order)
    <2>1. PICK p \in DOMAIN got : got[p].kind = "text" /\ t = got[p].text
      BY DEF Texts
    <2>2. red[p].kind = "text" /\ got[p] = Text(AllReplaced(red[p].text, order))
      BY <1>4, <2>1
    <2>3. t = AllReplaced(red[p].text, order)
      BY <2>1, <2>2 DEF Text
    <2>4. red[p].text \in Texts(red) /\ red[p].text \in Seq(Letters)
      BY <1>3, <1>4, <2>2 DEF Texts, Scalars
    <2> QED BY <2>3, <2>4
  <1>6. ASSUME NEW w \in V, w \in All, NEW t \in Texts(got)
        PROVE  ~ Occurs(w, t)
    <2>1. PICK u \in Texts(red) \cap Seq(Letters) : t = AllReplaced(u, order)
      BY <1>5
    <2>2. \E k \in DOMAIN order : w = order[k]
      BY <1>1, <1>6
    <2> HIDE DEF V, All
    <2> QED BY <1>2, <2>1, <2>2, AllReplacedKeepOut DEF V
  <1>7. All \subseteq V
    <2>1. FieldSecrets(pay, rule.fields) \subseteq Seq(Letters \ {Mark})
      BY DEF FieldSecrets, Unmarked
    <2>2. PatternSecrets(red, rule) \subseteq Seq(Letters \ {Mark})
      BY DEF PatternSecrets, Unmarked
    <2>3. <<>> \notin All
      BY <1>1 DEF Secrets
    <2> QED BY <2>1, <2>2, <2>3 DEF RuleSecrets, red
  <1>8. \A w \in All : \A t \in Texts(got) : ~ Occurs(w, t)
    <2> HIDE DEF V, All
    <2> QED BY <1>6, <1>7
  <1>12. ASSUME NEW p \in DOMAIN got, red[p] = Blanked \/ Empty(red[p])
         PROVE  got[p] = Blanked \/ Empty(got[p])
    <2>1. got[p] = IF red[p].kind # "text" THEN red[p] ELSE Text(AllReplaced(red[p].text, order))
      BY <1>4
    <2>2. CASE red[p].kind # "text"
      BY <1>12, <2>1, <2>2 DEF Blanked, Text
    <2>3. CASE red[p].kind = "text"
      <3>1. red[p] \in {Text(<<>>), Text(<<Mark>>)}
        BY <1>12, <2>3 DEF Blanked, Empty
      <3>2. red[p].text \in {<<>>, <<Mark>>} /\ red[p] = Text(red[p].text)
        BY <3>1 DEF Text
      <3>3. <<>> \in Seq(Letters) /\ <<Mark>> \in Seq(Letters)
        BY ScrubAssumption
      <3>4. AllReplaced(red[p].text, order) = red[p].text
        BY <1>2, <3>2, <3>3, AllReplacedKeepOut
      <3>5. got[p] = red[p]
        BY <2>1, <2>3, <3>2, <3>4
      <3> QED BY <1>12, <3>5
    <2> QED BY <2>2, <2>3
  <1>13. NoNamedField(got, rule)
    BY <1>3, <1>4, <1>12 DEF NoNamedField
  <1> QED BY <1>8, <1>13

\* A payload no rule has anything to take out of is minimal.
LEMMA NothingToTakeOut ==
    ASSUME NEW load, IsPayload(load), NEW rule, IsRule(rule), ~ RuleHits(load, rule)
    PROVE  Screened(load, rule)
  <1>1. \A p \in DOMAIN load : Hits(load, p, rule.fields) = {}
    BY DEF RuleHits
  <1>2. /\ DOMAIN RedactFields(load, rule.fields) = DOMAIN load
        /\ \A p \in DOMAIN load : RedactFields(load, rule.fields)[p] = load[p]
    <2>1. \A p \in DOMAIN load : Cut(p, Hits(load, p, rule.fields)) = p
      BY <1>1 DEF Cut
    <2>2. {Cut(p, Hits(load, p, rule.fields)) : p \in DOMAIN load} = DOMAIN load
      BY <2>1
    <2> QED
      BY <1>1, <2>2 DEF RedactFields
  <1>3. Texts(RedactFields(load, rule.fields)) = Texts(load) /\ Texts(load) \subseteq Seq(Letters)
    BY <1>2 DEF Texts, IsPayload, Scalars
  <1>4. ASSUME NEW pat \in rule.patterns, NEW t \in Texts(load), NEW i \in DOMAIN t,
               MatchesAt(pat, t, i) # {}
        PROVE  FALSE
    <2>1. pat.words \subseteq RuleWords(rule) /\ RuleWords(rule) \subseteq Secrets
      BY DEF RuleWords, IsRule, Secrets
    <2>2. PICK w \in pat.words : w \in FindAll(pat, t)
      BY <1>3, <1>4, <2>1, FindAllFinds
    <2>3. w \in PatternSecrets(RedactFields(load, rule.fields), rule)
      BY <1>3, <2>1, <2>2 DEF PatternSecrets
    <2> QED
      BY <2>3 DEF RuleHits, RuleSecrets
  <1>5. ASSUME NEW p \in DOMAIN load, NEW i \in DOMAIN p, p[i] \in rule.fields
        PROVE  i = Len(p) /\ Empty(load[p])
    BY <1>1, <1>5 DEF Hits
  <1> QED
    BY <1>4, <1>5 DEF Screened, NoNamedField, NoMatch

-----------------------------------------------------------------------------
(* The gate. *)

\* No text an agent, a payload or a pattern has says [REDACTED] of its own.
NoMark(load) == \A p \in DOMAIN load : load[p].text \in Seq(Letters \ {Mark})

MarkIsFresh ==
    /\ \A i \in DOMAIN Plan : NoMark(Plan[i].payload)
    /\ \A v \in Tampered : v.text \in Seq(Letters \ {Mark})
    /\ \A r \in Range(Rules) : RuleWords(r) \subseteq Seq(Letters \ {Mark})

\* What a caller may have in its hands.
Handed(load) == IsPayload(load) /\ (MarkIsFresh => NoMark(load))

AgentType ==
    /\ todo \in [Agents -> Seq(DOMAIN Plan)]
    /\ stage \in [Agents -> {"plan", "evaluate", "record", "execute"}]
    /\ DOMAIN ruling = Agents /\ ruling = [g \in Agents |-> ruling[g]]
    /\ DOMAIN in_hand = Agents /\ in_hand = [g \in Agents |-> in_hand[g]]
    /\ \A g \in Agents : Handed(in_hand[g])

\* No rule has anything to take out.
NoneApplies(i, load) == Applicable(Rules, Plan[i].action_purpose, load) = {}

\* What minimisation made of a payload that had something to take out.
MadeOf(i, load, got) ==
    /\ Handed(load) /\ ~ NoneApplies(i, load)
    /\ got \in Minimised(Rules, Plan[i].action_purpose, load)

\* What may run as it came: no rule applied to it, and an Action still has its top level.
AsItCame(g, i, load, now) ==
    /\ Handed(load) /\ NoneApplies(i, load)
    /\ g \in ActionAgents => SameTop(load, now)

\* Between its ruling and its tool an intent has the ruling on record, was allowed only
\* if no rule applied to what was ruled on, and otherwise has what the rule made of it.
OnRecord(g) ==
    /\ stage[g] # "plan" => todo[g] # <<>>
    /\ stage[g] = "execute" => Decided(g) \in decisions /\ ruling[g].verdict # "deny"
    /\ stage[g] \in {"record", "execute"} =>
         /\ ruling[g].verdict = "allow" =>
              AsItCame(g, Head(todo[g]), ruling[g].ruled_on, in_hand[g])
         /\ ruling[g].verdict = "transform" =>
              MadeOf(Head(todo[g]), ruling[g].ruled_on, ruling[g].transformed)

HandedOver ==
    \A x \in delivered :
        /\ x.verdict = "allow" => AsItCame(x.agent, x.intent, x.ruled_on, x.got)
        /\ x.verdict = "transform" => MadeOf(x.intent, x.ruled_on, x.got)

AgentIInv ==
    /\ AgentType
    /\ \A g \in Agents : OnRecord(g)
    /\ PermitOnRecord
    /\ HandedOver

\* An agent that has nothing in its hands.
LEMMA EmptyIsHanded == Handed(<<>>)
  <1>1. DOMAIN <<>> = {} /\ IsFiniteSet({})
    BY FS_EmptySet
  <1> QED
    BY <1>1 DEF Handed, IsPayload, NoMark

\* What a caller writes into its payload leaves it a payload.
LEMMA TamperedIsHanded ==
    ASSUME NEW load, Handed(load), NEW p \in DOMAIN load, NEW v \in Tampered
    PROVE  Handed([load EXCEPT ![p] = v])
  <1> DEFINE new == [load EXCEPT ![p] = v]
  <1>1. DOMAIN new = DOMAIN load /\ \A q \in DOMAIN load : new[q] \in {load[q], v}
    OBVIOUS
  <1>2. v \in Scalars
    BY PayloadAssumption
  <1> HIDE DEF new
  <1>3. IsPayload(new)
    BY <1>1, <1>2 DEF Handed, IsPayload
  <1>4. MarkIsFresh => NoMark(new)
    BY <1>1 DEF Handed, NoMark, MarkIsFresh
  <1> QED
    BY <1>3, <1>4 DEF Handed, new

\* Nobody has proposed anything.
LEMMA AgentStarts ==
    ASSUME GateInit
    PROVE  AgentIInv
  <1>1. /\ todo \in [Agents -> Seq(DOMAIN Plan)]
        /\ stage = [g \in Agents |-> "plan"] /\ ruling = [g \in Agents |-> Unruled]
        /\ in_hand = [g \in Agents |-> <<>>]
        /\ decisions = {} /\ delivered = {}
    BY AgentAssumption DEF GateInit
  <1>2. AgentType
    BY <1>1, EmptyIsHanded DEF AgentType
  <1> QED
    BY <1>1, <1>2 DEF AgentIInv, OnRecord, PermitOnRecord, HandedOver

\* A step of g leaves the others' rulings alone, and what is decided stays decided.
LEMMA OthersOnRecord ==
    ASSUME AgentIInv, NEW g \in Agents, decisions \subseteq decisions',
           \A h \in Agents \ {g} : /\ stage'[h] = stage[h] /\ todo'[h] = todo[h]
                                  /\ ruling'[h] = ruling[h] /\ in_hand'[h] = in_hand[h]
    PROVE  \A h \in Agents \ {g} : OnRecord(h)'
  BY DEF AgentIInv, OnRecord, Decided

\* A dispatch that is over owes nothing.
LEMMA OverIsOnRecord ==
    ASSUME AgentIInv, NEW g \in Agents, decisions \subseteq decisions', Over(g), stage[g] # "plan"
    PROVE  AgentType' /\ \A h \in Agents : OnRecord(h)'
  <1>1. /\ DOMAIN ruling' = Agents /\ ruling' = [h \in Agents |-> ruling'[h]]
        /\ stage' \in [Agents -> {"plan", "evaluate", "record", "execute"}]
    BY DEF Over, AgentIInv, AgentType
  <1>2. todo' \in [Agents -> Seq(DOMAIN Plan)]
    <2>1. Tail(todo[g]) \in Seq(DOMAIN Plan)
      BY DEF AgentIInv, AgentType, OnRecord
    <2> QED
      BY <2>1 DEF Over, AgentIInv, AgentType
  <1>3. /\ DOMAIN in_hand' = Agents /\ in_hand' = [h \in Agents |-> in_hand'[h]]
        /\ \A h \in Agents : in_hand'[h] \in {in_hand[h], <<>>}
    BY DEF Over, AgentIInv, AgentType
  <1>4. \A h \in Agents : Handed(in_hand'[h])
    BY <1>3, EmptyIsHanded DEF AgentIInv, AgentType
  <1>5. AgentType'
    <2>1. \A h \in Agents : Handed(in_hand[h])'
      BY <1>4 DEF Handed
    <2> QED
      BY <1>1, <1>2, <1>3, <2>1 DEF AgentType
  <1>6. \A h \in Agents \ {g} : /\ stage'[h] = stage[h] /\ todo'[h] = todo[h]
                                 /\ ruling'[h] = ruling[h] /\ in_hand'[h] = in_hand[h]
    BY DEF Over, AgentIInv, AgentType
  <1>7. stage'[g] = "plan"
    BY DEF Over, AgentIInv, AgentType
  <1> QED
    BY <1>5, <1>6, <1>7, OthersOnRecord DEF OnRecord

\* What an agent, its gate, its log and its tools do.
LEMMA AgentKept ==
    ASSUME AgentIInv, GateNext
    PROVE  AgentIInv'
  <1> PICK g \in Agents :
        \/ Propose(g) \/ PolicyEvaluate(g)
        \/ RecordDecision(g) \/ RecordDecisionRaises(g)
        \/ RunTool(g) \/ RunToolRaises(g)
        \/ \E p \in DOMAIN in_hand[g], v \in Tampered : Tamper(g, p, v)
    BY DEF GateNext
  <1>1. decisions \subseteq decisions'
    BY DEF Propose, PolicyEvaluate, RecordDecision, RecordDecisionRaises, RunTool, RunToolRaises, Tamper
  <1>2. delivered' = delivered => PermitOnRecord' /\ HandedOver'
    BY <1>1 DEF AgentIInv, PermitOnRecord, HandedOver
  <1>3. CASE Propose(g)
    <2>1. /\ stage[g] = "plan" /\ todo[g] # <<>> /\ todo' = todo /\ ruling' = ruling /\ delivered' = delivered
          /\ in_hand' = [in_hand EXCEPT ![g] = Current(g).payload]
          /\ stage' = [stage EXCEPT ![g] = "evaluate"]
      BY <1>3 DEF Propose
    <2>2. Handed(Current(g).payload)
      <3>1. Head(todo[g]) \in DOMAIN Plan
        BY <2>1 DEF AgentIInv, AgentType
      <3> QED
        BY <3>1, PayloadAssumption DEF Current, Handed, MarkIsFresh
    <2>3. /\ DOMAIN in_hand' = Agents /\ in_hand' = [h \in Agents |-> in_hand'[h]]
          /\ \A h \in Agents : in_hand'[h] \in {in_hand[h], Current(g).payload}
      BY <2>1 DEF AgentIInv, AgentType
    <2>4. \A h \in Agents : Handed(in_hand'[h])
      BY <2>2, <2>3 DEF AgentIInv, AgentType
    <2>5. AgentType'
      BY <2>1, <2>3, <2>4 DEF AgentIInv, AgentType
    <2>6. stage'[g] = "evaluate"
          /\ \A h \in Agents \ {g} : /\ stage'[h] = stage[h] /\ todo'[h] = todo[h]
                                 /\ ruling'[h] = ruling[h] /\ in_hand'[h] = in_hand[h]
      BY <2>1 DEF AgentIInv, AgentType
    <2> QED
      BY <1>1, <1>2, <2>1, <2>5, <2>6, OthersOnRecord DEF AgentIInv, OnRecord
  <1>4. CASE PolicyEvaluate(g)
    <2> DEFINE i == Head(todo[g])
    <2>1. PICK v, load :
            /\ ruling' = [ruling EXCEPT ![g] = [verdict |-> v, transformed |-> load, ruled_on |-> in_hand[g]]]
            /\ v = "allow" => AsItCame(g, i, in_hand[g], in_hand[g])
            /\ v = "transform" => MadeOf(i, in_hand[g], load)
      <3>1. CASE ~ Bound(Current(g))
        BY <1>4, <3>1, "deny" # "allow", "deny" # "transform" DEF PolicyEvaluate
      <3>2. CASE Bound(Current(g)) /\ Applicable(Rules, Current(g).action_purpose, in_hand[g]) = {}
        <4>1. AsItCame(g, i, in_hand[g], in_hand[g])
          BY <3>2 DEF AsItCame, NoneApplies, Current, SameTop, AgentIInv, AgentType
        <4> QED
          BY <1>4, <3>2, <4>1, "allow" # "transform" DEF PolicyEvaluate
      <3>3. CASE Bound(Current(g)) /\ Applicable(Rules, Current(g).action_purpose, in_hand[g]) # {}
        <4>1. PICK load \in Minimised(Rules, Plan[i].action_purpose, in_hand[g]) :
                 ruling' = [ruling EXCEPT ![g] =
                               [verdict |-> "transform", transformed |-> load, ruled_on |-> in_hand[g]]]
          BY <1>4, <3>3 DEF PolicyEvaluate, Current
        <4>2. MadeOf(i, in_hand[g], load)
          BY <3>3 DEF MadeOf, NoneApplies, Current, AgentIInv, AgentType
        <4> DEFINE v == "transform"
        <4>3. /\ ruling' = [ruling EXCEPT ![g] = [verdict |-> v, transformed |-> load, ruled_on |-> in_hand[g]]]
              /\ v # "allow"
          BY <4>1
        <4> HIDE DEF v, i
        <4> QED
          BY <4>2, <4>3
      <3> QED
        BY <3>1, <3>2, <3>3
    <2>2. /\ stage[g] = "evaluate" /\ stage' = [stage EXCEPT ![g] = "record"]
          /\ UNCHANGED <<todo, in_hand, decisions, delivered>>
      BY <1>4 DEF PolicyEvaluate
    <2>3. AgentType'
      BY <2>1, <2>2 DEF AgentIInv, AgentType
    <2>4. \A h \in Agents \ {g} : /\ stage'[h] = stage[h] /\ todo'[h] = todo[h]
                                 /\ ruling'[h] = ruling[h] /\ in_hand'[h] = in_hand[h]
      BY <2>1, <2>2 DEF AgentIInv, AgentType
    <2>5. /\ stage'[g] = "record" /\ todo'[g] = todo[g]
          /\ ruling'[g] = [verdict |-> v, transformed |-> load, ruled_on |-> in_hand[g]]
      BY <2>1, <2>2 DEF AgentIInv, AgentType
    <2>6. OnRecord(g)'
      <3>1. /\ ruling'[g].verdict = v /\ ruling'[g].transformed = load /\ ruling'[g].ruled_on = in_hand[g]
            /\ Head(todo'[g]) = i /\ in_hand'[g] = in_hand[g]
        BY <2>2, <2>5
      <3> HIDE DEF i
      <3>2. stage'[g] # "execute" /\ todo'[g] # <<>>
        BY <2>2, <2>5 DEF AgentIInv, OnRecord
      <3> QED
        BY <2>1, <3>1, <3>2 DEF OnRecord, AsItCame, MadeOf
    <2> QED
      BY <1>1, <1>2, <2>2, <2>3, <2>4, <2>6, OthersOnRecord DEF AgentIInv
  <1>5. CASE RecordDecision(g)
    <2>1. stage[g] = "record" /\ decisions' = decisions \cup {Decided(g)} /\ delivered' = delivered
      BY <1>5 DEF RecordDecision
    <2>2. CASE ruling[g].verdict = "deny"
      <3>1. Over(g)
        BY <1>5, <2>2 DEF RecordDecision
      <3> QED
        BY <1>1, <1>2, <2>1, <3>1, OverIsOnRecord DEF AgentIInv
    <2>3. CASE ruling[g].verdict # "deny"
      <3>1. stage' = [stage EXCEPT ![g] = "execute"] /\ todo' = todo /\ ruling' = ruling /\ in_hand' = in_hand
        BY <1>5, <2>3 DEF RecordDecision
      <3>2. AgentType' /\ \A h \in Agents \ {g} : stage'[h] = stage[h]
        BY <3>1 DEF AgentIInv, AgentType
      <3>3. OnRecord(g)'
        BY <2>1, <2>3, <3>1 DEF AgentIInv, OnRecord, Decided
      <3> QED
        BY <1>1, <1>2, <2>1, <3>1, <3>2, <3>3, OthersOnRecord DEF AgentIInv
    <2> QED
      BY <2>2, <2>3
  <1>6. CASE RecordDecisionRaises(g)
    <2>1. Over(g) /\ delivered' = delivered /\ stage[g] # "plan"
      BY <1>6 DEF RecordDecisionRaises
    <2> QED
      BY <1>1, <1>2, <2>1, OverIsOnRecord DEF AgentIInv
  <1>7. CASE RunTool(g)
    <2> DEFINE x == [agent |-> g, intent |-> Head(todo[g]), got |-> Effective(g),
                     verdict |-> ruling[g].verdict, ruled_on |-> ruling[g].ruled_on]
    <2>1. Over(g) /\ delivered' = delivered \cup {x} /\ decisions' = decisions /\ stage[g] = "execute"
      BY <1>7 DEF RunTool
    <2>2. <<x.agent, x.intent, x.verdict>> \in decisions /\ x.verdict # "deny"
      BY <2>1 DEF AgentIInv, OnRecord, Decided
    <2>3. /\ x.verdict = "allow" => AsItCame(x.agent, x.intent, x.ruled_on, x.got)
          /\ x.verdict = "transform" => MadeOf(x.intent, x.ruled_on, x.got)
      BY <2>1, "allow" # "transform" DEF AgentIInv, OnRecord, Effective
    <2> HIDE DEF x
    <2>4. PermitOnRecord' /\ HandedOver'
      BY <2>1, <2>2, <2>3 DEF AgentIInv, PermitOnRecord, HandedOver
    <2> QED
      BY <1>1, <2>1, <2>4, OverIsOnRecord DEF AgentIInv
  <1>8. CASE RunToolRaises(g)
    <2>1. Over(g) /\ delivered' = delivered /\ stage[g] # "plan"
      BY <1>8 DEF RunToolRaises
    <2> QED
      BY <1>1, <1>2, <2>1, OverIsOnRecord DEF AgentIInv
  <1>9. ASSUME NEW p \in DOMAIN in_hand[g], NEW v \in Tampered, Tamper(g, p, v)
        PROVE  AgentIInv'
    <2>1. /\ in_hand' = [in_hand EXCEPT ![g][p] = v]
          /\ UNCHANGED <<todo, stage, ruling, decisions, delivered>>
      BY <1>9 DEF Tamper
    <2>2. Handed([in_hand[g] EXCEPT ![p] = v])
      BY TamperedIsHanded DEF AgentIInv, AgentType
    <2>3. /\ DOMAIN in_hand' = Agents /\ in_hand' = [h \in Agents |-> in_hand'[h]]
          /\ \A h \in Agents : in_hand'[h] \in {in_hand[h], [in_hand[g] EXCEPT ![p] = v]}
      BY <2>1 DEF AgentIInv, AgentType
    <2>4. \A h \in Agents : Handed(in_hand'[h])
      BY <2>2, <2>3 DEF AgentIInv, AgentType
    <2>5. AgentType'
      BY <2>1, <2>3, <2>4 DEF AgentIInv, AgentType
    <2>6. g \in ActionAgents =>
              \A load : SameTop(load, in_hand[g]) => SameTop(load, [in_hand[g] EXCEPT ![p] = v])
      <3> SUFFICES ASSUME g \in ActionAgents, NEW load, SameTop(load, in_hand[g])
                   PROVE  SameTop(load, [in_hand[g] EXCEPT ![p] = v])
        OBVIOUS
      <3>1. Len(p) > 1
        BY <1>9 DEF Tamper, Shared
      <3>2. \A q \in DOMAIN in_hand[g] : Len(q) = 1 => q # p
        <4>1. ~ (1 > 1)
          OBVIOUS
        <4> QED
          BY <3>1, <4>1, Zenon
      <3> QED
        BY <3>2, Zenon DEF SameTop
    <2>7. OnRecord(g)'
      <3>1. in_hand'[g] = [in_hand[g] EXCEPT ![p] = v]
        BY <2>1 DEF AgentIInv, AgentType
      <3>2. \A i, load : AsItCame(g, i, load, in_hand[g]) => AsItCame(g, i, load, in_hand'[g])
        BY <2>6, <3>1 DEF AsItCame
      <3>3. OnRecord(g)
        BY DEF AgentIInv
      <3> QED
        BY <2>1, <3>2, <3>3 DEF OnRecord, Decided
    <2>8. \A h \in Agents \ {g} : in_hand'[h] = in_hand[h]
      BY <2>1 DEF AgentIInv, AgentType
    <2>9. \A h \in Agents \ {g} : /\ stage'[h] = stage[h] /\ todo'[h] = todo[h]
                                  /\ ruling'[h] = ruling[h] /\ in_hand'[h] = in_hand[h]
      BY <2>1, <2>8
    <2>10. \A h \in Agents : OnRecord(h)'
      BY <1>1, <2>7, <2>9, OthersOnRecord
    <2> QED
      BY <1>2, <2>1, <2>5, <2>10 DEF AgentIInv
  <1> QED
    BY <1>3, <1>4, <1>5, <1>6, <1>7, <1>8, <1>9

\* What an agent, its gate, its log and its tools leave as it is.
LEMMA AgentRests ==
    ASSUME AgentIInv, UNCHANGED gateVars
    PROVE  AgentIInv'
  BY DEF gateVars, AgentIInv, AgentType, OnRecord, Decided, PermitOnRecord, HandedOver

\* The rules that a payload is under, by their place.
Mine(x) == {i \in DOMAIN Rules : Rules[i].purpose = Plan[x.intent].action_purpose}

\* A rule that does not apply had nothing to take out.
LEMMA NotApplicable ==
    ASSUME NEW x, Handed(x.ruled_on), NEW i \in Mine(x),
           i \notin Applicable(Rules, Plan[x.intent].action_purpose, x.ruled_on)
    PROVE  Screened(x.ruled_on, Rules[i])
  <1>1. ~ RuleHits(x.ruled_on, Rules[i])
    BY DEF Mine, Applicable
  <1>2. IsRule(Rules[i]) /\ IsPayload(x.ruled_on)
    BY PayloadAssumption DEF Mine, Range, Handed
  <1> QED
    BY <1>1, <1>2, NothingToTakeOut

\* What was let through as it came was minimal, and an Action's top level is.
LEMMA AllowedWasMinimal ==
    ASSUME HandedOver, NEW x \in delivered, x.verdict = "allow"
    PROVE  /\ \A i \in Mine(x) : Screened(x.ruled_on, Rules[i])
           /\ x.agent \in ActionAgents => SameTop(x.ruled_on, x.got)
  BY NotApplicable DEF HandedOver, AsItCame, NoneApplies

\* What was made minimal is, by the first rule that had something to take out.
LEMMA TransformedIsClean ==
    ASSUME HandedOver, MarkIsFresh, NEW x \in delivered, x.verdict = "transform"
    PROVE  \E i \in Mine(x) :
               /\ \A j \in Mine(x) : j < i => Screened(x.ruled_on, Rules[j])
               /\ RuleHits(x.ruled_on, Rules[i])
               /\ NoNamedField(x.got, Rules[i])
               /\ \A w \in RuleSecrets(x.ruled_on, Rules[i]) : \A t \in Texts(x.got) : ~ Occurs(w, t)
  <1> DEFINE purpose == Plan[x.intent].action_purpose
             hitting == Applicable(Rules, purpose, x.ruled_on)
             first == CHOOSE i \in hitting : \A j \in hitting : i <= j
             rule == Rules[first]
  <1>1. MadeOf(x.intent, x.ruled_on, x.got)
    BY DEF HandedOver
  <1>2. hitting # {} /\ hitting \in SUBSET Nat /\ Mine(x) \subseteq Nat
    BY <1>1, PayloadAssumption DEF MadeOf, NoneApplies, Applicable, Mine
  <1>3. \E i \in hitting : \A j \in hitting : i <= j
    <2> HIDE DEF hitting
    <2> QED
      BY <1>2, Least
  <1>4. first \in hitting /\ \A j \in hitting : first <= j
    <2> HIDE DEF hitting
    <2> QED
      BY <1>3
  <1>5. first \in Mine(x) /\ RuleHits(x.ruled_on, rule)
    BY <1>4 DEF Applicable, Mine
  <1>6. IsRule(rule)
    BY <1>5, PayloadAssumption DEF Mine, Range
  <1>7. \E order \in SetToSeqs(RuleSecrets(x.ruled_on, rule)) :
            x.got = Scrub(RedactFields(x.ruled_on, rule.fields), order)
    BY <1>1, <1>2 DEF MadeOf, Minimised
  <1>8. IsPayload(x.ruled_on) /\ Unmarked(x.ruled_on, rule)
    BY <1>1, <1>5 DEF MadeOf, Handed, NoMark, MarkIsFresh, Unmarked, Range, Mine
  <1>9. \A j \in Mine(x) : j < first => Screened(x.ruled_on, Rules[j])
    <2> SUFFICES ASSUME NEW j \in Mine(x), j < first
                 PROVE  j \notin hitting
      BY <1>1, NotApplicable DEF MadeOf
    <2> HIDE DEF hitting, first
    <2> QED
      BY <1>2, <1>4, <1>5
  <1>10. NoNamedField(x.got, rule) /\ \A w \in RuleSecrets(x.ruled_on, rule) : \A t \in Texts(x.got) : ~ Occurs(w, t)
    <2> HIDE DEF rule
    <2> QED
      BY <1>6, <1>7, <1>8, ScrubbedIsClean
  <1> QED
    BY <1>5, <1>9, <1>10

\* What was taken out stays out.
LEMMA IsMinimised ==
    ASSUME HandedOver, MarkIsFresh
    PROVE  MinimisedStaysMinimised
  BY AllowedWasMinimal, TransformedIsClean DEF MinimisedStaysMinimised, Mine
=============================================================================
