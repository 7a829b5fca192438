--------------------------- MODULE AuditChainProofs ---------------------------
(***************************************************************************)
(* The audited log with one writer, which is what it is sound for: run     *)
(* AuditTwoWriters breaks the chain with two.  For any bodies, any length  *)
(* and any faults, its chain stays linked, what it lost shows, the sink's  *)
(* heads agree with it, and a change behind its back is detected.          *)
(***************************************************************************)
EXTENDS AuditChain, SequenceTheorems, TLAPS

\* record() is called by one thread: nothing in the class makes it safe for more.
OneWriter == \A v, w \in Writers : v = w

\* What json.loads refuses is no entry.
JunkIsNoLine == \A s, b, p, h : Junk # [seq |-> s, body |-> b, prev |-> p, hash |-> h]

IsSeq(s) == s \in Seq(ToSet(s))

IsLine(l) ==
    /\ l = [seq |-> l.seq, body |-> l.body, prev |-> l.prev, hash |-> l.hash]
    /\ l.seq \in 0..(MaxLines - 1)
    /\ l.body \in Bodies

\* What the writer has in hand is an entry with its own hash; nobody writes to a log
\* without an object.
Shape ==
    /\ faults \in Environments
    /\ IsSeq(file) /\ \A i \in DOMAIN file : file[i] = Junk \/ IsLine(file[i])
    /\ newline \in BOOLEAN /\ (~ newline => file # <<>>)
    /\ phase \in {"up", "down", "refused"}
    /\ pc \in [Writers -> {"idle", "write", "advance", "publish"}]
    /\ DOMAIN entry = Writers
    /\ \A w \in Writers :
         IF pc[w] = "idle" THEN entry[w] = NoEntry
         ELSE /\ phase = "up"
              /\ IsLine(entry[w])
              /\ entry[w].hash = CanonicalHash(entry[w].seq, entry[w].body, entry[w].prev)
    /\ IsSeq(recorded) /\ IsSeq(anchored)
    /\ \A e \in returned : IsLine(e)
    /\ altered \in BOOLEAN
    /\ next_seq \in 0..MaxLines

\* The head in memory is where the writer's entry says it is.
Counter ==
    \A w \in Writers :
        /\ pc[w] = "write" => entry[w].seq = next_seq /\ entry[w].prev = last_hash
        /\ pc[w] = "advance" => entry[w].seq = next_seq
        /\ pc[w] = "publish" => entry[w].seq = next_seq - 1 /\ entry[w].hash = last_hash

Advancing == \E w \in Writers : pc[w] = "advance"

\* Its line is on disk, and not acknowledged.
Done(w) == pc[w] \in {"advance", "publish"}

\* A log that is only appended to is what was recorded, with the head in memory.
Linked ==
    Sound =>
        /\ file = recorded
        /\ Intact(file)
        /\ phase = "up" /\ ~ Advancing => last_hash = HashAt(file, Len(file))
        /\ \A w \in Writers : Done(w) => /\ file # <<>> /\ entry[w] = Last(file)
                                         /\ entry[w] \notin returned
        /\ file # <<>> /\ Last(file) \in returned =>
              /\ anchored # <<>>
              /\ Last(anchored) = <<Last(file).seq, Last(file).hash>>

\* Every line that was written is in the file, or a corrupt line is.
Evidence ==
    ~ altered =>
        \/ Junk \in ToSet(file)
        \/ /\ returned \subseteq ToSet(file)
           /\ \A w \in Writers : Done(w) => entry[w] \in ToSet(file)
           /\ \A i \in DOMAIN anchored : \E e \in ToSet(file) : anchored[i] = <<e.seq, e.hash>>

\* The heads the sink took are behind the head that comes next.
Increasing ==
    ~ altered =>
        /\ \A i \in DOMAIN anchored : anchored[i] = <<anchored[i][1], anchored[i][2]>>
        /\ \A i \in DOMAIN anchored : anchored[i][1] \in Int
        /\ HeadsIncrease
        /\ phase = "up" => \A i \in DOMAIN anchored : anchored[i][1] < next_seq
        /\ \A w \in Writers : pc[w] = "publish" => \A i \in DOMAIN anchored : anchored[i][1] < entry[w].seq

\* What was recorded is as long as the head in memory says, so that a log which was
\* changed and still verifies cannot grow into something else.
Detecting ==
    "torn" \notin faults =>
        /\ newline
        /\ phase = "up" => Len(recorded) = next_seq + (IF Advancing THEN 1 ELSE 0)
        /\ VerifyDetects

IInv == Shape /\ Counter /\ Linked /\ Evidence /\ Increasing /\ Detecting

-----------------------------------------------------------------------------

\* Sequences of anything: what each way to change one leaves.

\* A sequence of anything has its members, and is empty when it is 0 long.
LEMMA SeqFacts ==
    ASSUME NEW s, IsSeq(s)
    PROVE  /\ Len(s) \in Nat
           /\ DOMAIN s = 1..Len(s)
           /\ \A i \in DOMAIN s : s[i] \in ToSet(s)
           /\ s # <<>> <=> Len(s) > 0
           /\ \A x \in ToSet(s) : \E i \in DOMAIN s : x = s[i]
  <1>1. Len(s) \in Nat /\ DOMAIN s = 1..Len(s)
    BY LenProperties DEF IsSeq
  <1>2. s # <<>> <=> Len(s) > 0
    BY <1>1, EmptySeq DEF IsSeq
  <1> QED
    BY <1>1, <1>2 DEF ToSet

\* A typed sequence is a sequence of anything.
LEMMA SeqOfAny ==
    ASSUME NEW S, NEW s \in Seq(S)
    PROVE  IsSeq(s)
  <1>1. s \in [1..Len(s) -> S] /\ Len(s) \in Nat
    BY LenProperties
  <1>2. s \in [1..Len(s) -> ToSet(s)]
    BY <1>1 DEF ToSet
  <1> QED
    BY <1>1, <1>2, SeqDef DEF IsSeq

\* One more line at the end.
LEMMA AppendedSeq ==
    ASSUME NEW s, IsSeq(s), NEW x
    PROVE  /\ IsSeq(Append(s, x))
           /\ Len(Append(s, x)) = Len(s) + 1
           /\ Append(s, x) # <<>>
           /\ \A i \in 1..Len(s) : Append(s, x)[i] = s[i]
           /\ Append(s, x)[Len(s) + 1] = x
           /\ ToSet(Append(s, x)) = ToSet(s) \cup {x}
  <1> DEFINE T == ToSet(s) \cup {x}
             r == Append(s, x)
  <1>1. s \in Seq(T)
    BY SeqMonotonic DEF IsSeq
  <1>2. /\ r \in Seq(T) /\ r # <<>> /\ Len(r) = Len(s) + 1
        /\ \A i \in 1..Len(s) : r[i] = s[i]
        /\ r[Len(s) + 1] = x
    BY <1>1, AppendProperties
  <1>3. DOMAIN r = 1..(Len(s) + 1) /\ DOMAIN s = 1..Len(s) /\ Len(s) \in Nat
    BY <1>1, <1>2, LenProperties
  <1> HIDE DEF r
  <1>4. ToSet(r) = ToSet(s) \cup {x}
    <2>1. ASSUME NEW i \in DOMAIN r
          PROVE  r[i] \in ToSet(s) \cup {x}
      BY <1>2, <1>3 DEF ToSet
    <2>2. ASSUME NEW i \in DOMAIN s
          PROVE  s[i] \in ToSet(r)
      <3>1. i \in DOMAIN r /\ r[i] = s[i]
        BY <1>2, <1>3
      <3> QED
        BY <3>1 DEF ToSet
    <2>3. x \in ToSet(r)
      <3>1. Len(s) + 1 \in DOMAIN r
        BY <1>3
      <3> QED
        BY <1>2, <3>1 DEF ToSet
    <2> QED
      BY <2>1, <2>2, <2>3 DEF ToSet
  <1>5. IsSeq(r)
    BY <1>2, SeqOfAny
  <1> QED
    BY <1>2, <1>4, <1>5 DEF r

\* One line replaced.
LEMMA ReplacedSeq ==
    ASSUME NEW s, IsSeq(s), NEW i \in DOMAIN s, NEW x
    PROVE  /\ IsSeq([s EXCEPT ![i] = x])
           /\ Len([s EXCEPT ![i] = x]) = Len(s)
           /\ DOMAIN [s EXCEPT ![i] = x] = DOMAIN s
           /\ \A j \in DOMAIN s : [s EXCEPT ![i] = x][j] = IF j = i THEN x ELSE s[j]
           /\ x \in ToSet([s EXCEPT ![i] = x])
  <1> DEFINE T == ToSet(s) \cup {x}
             r == [s EXCEPT ![i] = x]
  <1>1. s \in Seq(T) /\ DOMAIN s = 1..Len(s)
    BY SeqMonotonic, SeqFacts DEF IsSeq
  <1>2. r \in Seq(T) /\ Len(r) = Len(s)
    BY <1>1, ExceptSeq
  <1>3. IsSeq(r)
    BY <1>2, SeqOfAny
  <1>4. r[i] = x /\ i \in DOMAIN r
    OBVIOUS
  <1>5. x \in ToSet(r)
    BY <1>4 DEF ToSet
  <1> QED
    BY <1>2, <1>3, <1>5

\* Some lines in the middle.
LEMMA PartOfSeq ==
    ASSUME NEW s, IsSeq(s), NEW m \in Nat \ {0}, NEW n \in 0..Len(s)
    PROVE  /\ SubSeq(s, m, n) \in Seq(ToSet(s))
           /\ Len(SubSeq(s, m, n)) = IF m <= n THEN n - m + 1 ELSE 0
           /\ \A i \in 1..(n - m + 1) : SubSeq(s, m, n)[i] = s[m + i - 1]
  <1>1. \A i \in m..n : s[i] \in ToSet(s)
    BY SeqFacts
  <1> QED
    BY <1>1, SubSeqProperties, SeqFacts

\* One part after the other.
LEMMA JoinedSeq ==
    ASSUME NEW T, NEW a \in Seq(T), NEW b \in Seq(T)
    PROVE  /\ IsSeq(a \o b) /\ a \o b \in Seq(T)
           /\ Len(a \o b) = Len(a) + Len(b)
           /\ \A j \in 1..Len(a) : (a \o b)[j] = a[j]
           /\ \A j \in (Len(a) + 1)..(Len(a) + Len(b)) : (a \o b)[j] = b[j - Len(a)]
  <1>1. /\ Len(a) \in Nat /\ Len(b) \in Nat
        /\ a \o b \in Seq(T) /\ Len(a \o b) = Len(a) + Len(b)
        /\ \A j \in 1..(Len(a) + Len(b)) : (a \o b)[j] = IF j <= Len(a) THEN a[j] ELSE b[j - Len(a)]
    BY LenProperties, ConcatProperties
  <1>2. IsSeq(a \o b)
    BY <1>1, SeqOfAny
  <1> HIDE DEF IsSeq
  <1>3. ASSUME NEW j \in 1..Len(a)
        PROVE  (a \o b)[j] = a[j]
    BY <1>1
  <1>4. ASSUME NEW j \in (Len(a) + 1)..(Len(a) + Len(b))
        PROVE  (a \o b)[j] = b[j - Len(a)]
    BY <1>1
  <1> QED
    BY <1>1, <1>2, <1>3, <1>4

\* One line dropped.
LEMMA RemovedSeq ==
    ASSUME NEW s, IsSeq(s), NEW i \in DOMAIN s
    PROVE  /\ IsSeq(RemoveAt(s, i))
           /\ Len(RemoveAt(s, i)) = Len(s) - 1
           /\ \A j \in 1..(i - 1) : RemoveAt(s, i)[j] = s[j]
           /\ \A j \in i..(Len(s) - 1) : RemoveAt(s, i)[j] = s[j + 1]
  <1> DEFINE a == SubSeq(s, 1, i - 1)
             b == SubSeq(s, i + 1, Len(s))
  <1>1. Len(s) \in Nat /\ i \in 1..Len(s)
    BY SeqFacts
  <1>2. /\ a \in Seq(ToSet(s)) /\ Len(a) = i - 1
        /\ \A j \in 1..(i - 1) : a[j] = s[j]
    BY <1>1, PartOfSeq
  <1>3. /\ b \in Seq(ToSet(s)) /\ Len(b) = Len(s) - i
        /\ \A j \in 1..(Len(s) - i) : b[j] = s[i + j]
    <2>1. i + 1 \in Nat \ {0} /\ Len(s) \in 0..Len(s) /\ Len(s) - (i + 1) + 1 = Len(s) - i
      BY <1>1
    <2>2. /\ b \in Seq(ToSet(s))
          /\ Len(b) = IF i + 1 <= Len(s) THEN Len(s) - (i + 1) + 1 ELSE 0
          /\ \A j \in 1..(Len(s) - (i + 1) + 1) : b[j] = s[(i + 1) + j - 1]
      BY <2>1, PartOfSeq
    <2> HIDE DEF b
    <2>3. \A j \in 1..(Len(s) - i) : b[j] = s[i + j]
      <3> TAKE j \in 1..(Len(s) - i)
      <3>1. (i + 1) + j - 1 = i + j
        BY <1>1
      <3> QED
        BY <2>1, <2>2, <3>1
    <2> QED
      BY <1>1, <2>1, <2>2, <2>3
  <1>4. RemoveAt(s, i) = a \o b
    BY DEF RemoveAt
  <1> HIDE DEF a, b
  <1>5. /\ IsSeq(a \o b) /\ Len(a \o b) = Len(a) + Len(b)
        /\ \A j \in 1..Len(a) : (a \o b)[j] = a[j]
        /\ \A j \in (Len(a) + 1)..(Len(a) + Len(b)) : (a \o b)[j] = b[j - Len(a)]
    BY <1>2, <1>3, JoinedSeq
  <1>6. Len(a) + Len(b) = Len(s) - 1 /\ Len(a) + 1 = i
    BY <1>1, <1>2, <1>3
  <1>7. ASSUME NEW j \in i..(Len(s) - 1)
        PROVE  (a \o b)[j] = s[j + 1]
    <2>1. /\ j - (i - 1) \in 1..(Len(s) - i) /\ i + (j - (i - 1)) = j + 1
          /\ j \in (Len(a) + 1)..(Len(a) + Len(b))
      BY <1>1, <1>6
    <2>2. (a \o b)[j] = b[j - (i - 1)]
      BY <1>2, <1>5, <2>1
    <2> QED
      BY <1>3, <2>1, <2>2
  <1> QED
    BY <1>2, <1>4, <1>5, <1>6, <1>7

\* One line doubled.
LEMMA InsertedSeq ==
    ASSUME NEW s, IsSeq(s), NEW i \in DOMAIN s
    PROVE  /\ IsSeq(InsertAt(s, i, s[i]))
           /\ Len(InsertAt(s, i, s[i])) = Len(s) + 1
           /\ \A j \in 1..i : InsertAt(s, i, s[i])[j] = s[j]
           /\ \A j \in (i + 1)..(Len(s) + 1) : InsertAt(s, i, s[i])[j] = s[j - 1]
  <1> DEFINE a == SubSeq(s, 1, i - 1)
             b == SubSeq(s, i, Len(s))
             x == <<s[i]>>
  <1>1. Len(s) \in Nat /\ i \in 1..Len(s) /\ s[i] \in ToSet(s)
    BY SeqFacts
  <1>2. /\ a \in Seq(ToSet(s)) /\ Len(a) = i - 1
        /\ \A j \in 1..(i - 1) : a[j] = s[j]
    BY <1>1, PartOfSeq
  <1>3. /\ b \in Seq(ToSet(s)) /\ Len(b) = Len(s) - i + 1
        /\ \A j \in 1..(Len(s) - i + 1) : b[j] = s[i + j - 1]
    BY <1>1, PartOfSeq
  <1>4. x \in Seq(ToSet(s)) /\ Len(x) = 1 /\ x[1] = s[i]
    BY <1>1
  <1>5. InsertAt(s, i, s[i]) = (a \o x) \o b
    BY DEF InsertAt
  <1> HIDE DEF a, b, x
  <1> DEFINE c == a \o x
  <1>6. /\ c \in Seq(ToSet(s)) /\ Len(c) = Len(a) + Len(x)
        /\ \A j \in 1..Len(a) : c[j] = a[j]
        /\ \A j \in (Len(a) + 1)..(Len(a) + Len(x)) : c[j] = x[j - Len(a)]
    BY <1>2, <1>4, JoinedSeq
  <1> HIDE DEF c
  <1>7. Len(c) = i /\ \A j \in 1..i : c[j] = s[j]
    <2>1. Len(a) + Len(x) = i /\ Len(a) + 1 = i
      BY <1>1, <1>2, <1>4
    <2>2. c[i] = s[i]
      <3>1. i \in (Len(a) + 1)..(Len(a) + Len(x)) /\ i - Len(a) = 1
        BY <1>1, <2>1, <1>2
      <3> QED
        BY <1>4, <1>6, <3>1
    <2>3. ASSUME NEW j \in 1..i
          PROVE  c[j] = s[j]
      <3>1. CASE j = i
        BY <2>2, <3>1
      <3>2. CASE j # i
        <4>1. j \in 1..(i - 1)
          BY <1>1, <3>2
        <4> QED
          BY <1>2, <1>6, <4>1
      <3> QED
        BY <3>1, <3>2
    <2> QED
      BY <1>6, <2>1, <2>3
  <1>8. /\ IsSeq(c \o b) /\ Len(c \o b) = Len(c) + Len(b)
        /\ \A j \in 1..Len(c) : (c \o b)[j] = c[j]
        /\ \A j \in (Len(c) + 1)..(Len(c) + Len(b)) : (c \o b)[j] = b[j - Len(c)]
    <2>1. c \in Seq(ToSet(s)) /\ b \in Seq(ToSet(s))
      BY <1>3, <1>6
    <2> QED
      BY <2>1, JoinedSeq
  <1>9. Len(c) + Len(b) = Len(s) + 1
    BY <1>1, <1>3, <1>7
  <1>10. ASSUME NEW j \in (i + 1)..(Len(s) + 1)
         PROVE  (c \o b)[j] = s[j - 1]
    <2>1. j - i \in 1..(Len(s) - i + 1) /\ i + (j - i) - 1 = j - 1
      BY <1>1
    <2> QED
      BY <1>3, <1>7, <1>8, <1>9, <2>1
  <1> QED
    BY <1>5, <1>7, <1>8, <1>9, <1>10 DEF c

\* A prefix, position by position.
LEMMA PrefixByPosition ==
    ASSUME NEW s, IsSeq(s), NEW t, IsSeq(t)
    PROVE  IsPrefix(s, t) <=> Len(s) <= Len(t) /\ \A i \in 1..Len(s) : s[i] = t[i]
  <1> SUFFICES ASSUME Len(s) <= Len(t)
               PROVE  SubSeq(s, 1, Len(s)) = SubSeq(t, 1, Len(s)) <=> \A i \in 1..Len(s) : s[i] = t[i]
    BY DEF IsPrefix
  <1> DEFINE u == SubSeq(s, 1, Len(s))
             v == SubSeq(t, 1, Len(s))
             T == ToSet(s) \cup ToSet(t)
  <1>1. Len(s) \in Nat /\ Len(s) \in 0..Len(s) /\ Len(s) \in 0..Len(t)
    BY SeqFacts
  <1>2. u \in Seq(ToSet(s)) /\ Len(u) = Len(s) /\ \A i \in 1..Len(s) : u[i] = s[i]
    BY <1>1, PartOfSeq
  <1>3. v \in Seq(ToSet(t)) /\ Len(v) = Len(s) /\ \A i \in 1..Len(s) : v[i] = t[i]
    BY <1>1, PartOfSeq
  <1>4. u \in Seq(T) /\ v \in Seq(T)
    BY <1>2, <1>3, SeqMonotonic
  <1> HIDE DEF u, v, T
  <1>5. ASSUME \A i \in 1..Len(s) : s[i] = t[i]
        PROVE  u = v
    <2>1. Len(u) = Len(v) /\ \A i \in 1..Len(u) : u[i] = v[i]
      BY <1>2, <1>3, <1>5
    <2> QED
      BY <1>4, <2>1, SeqEqual
  <1>6. u = v => \A i \in 1..Len(s) : s[i] = t[i]
    BY <1>2, <1>3
  <1> QED
    BY <1>5, <1>6 DEF u, v

-----------------------------------------------------------------------------

Readable(f) == IsSeq(f) /\ \A i \in DOMAIN f : f[i] = Junk \/ IsLine(f[i])

\* A chain grows by a line that follows on it, and by no other.
LEMMA ChainGrows ==
    ASSUME NEW f, IsSeq(f), NEW l
    PROVE  Intact(Append(f, l)) <=>
              /\ Intact(f)
              /\ l # Junk
              /\ l.seq = Len(f)
              /\ l.prev = HashAt(f, Len(f))
              /\ l.hash = CanonicalHash(l.seq, l.body, l.prev)
  <1> DEFINE g == Append(f, l)
             n == Len(f) + 1
             Fits(h, i) == /\ h[i] # Junk
                           /\ h[i].seq = i - 1
                           /\ h[i].prev = HashAt(h, i - 1)
                           /\ h[i].hash = CanonicalHash(h[i].seq, h[i].body, h[i].prev)
  <1>1. /\ Len(f) \in Nat /\ DOMAIN f = 1..Len(f) /\ DOMAIN g = 1..n
        /\ \A i \in 1..Len(f) : g[i] = f[i]
        /\ g[n] = l
    <2>1. IsSeq(g) /\ Len(g) = n
      BY AppendedSeq
    <2> HIDE DEF g
    <2>2. DOMAIN g = 1..n
      BY <2>1, SeqFacts
    <2> QED
      BY <2>2, SeqFacts, AppendedSeq DEF g
  <1> HIDE DEF g
  <1>2. \A i \in 1..n : HashAt(g, i - 1) = HashAt(f, i - 1)
    BY <1>1 DEF HashAt
  <1>3. \A i \in DOMAIN f : Fits(g, i) <=> Fits(f, i)
    BY <1>1, <1>2
  <1>4. DOMAIN g = DOMAIN f \cup {n} /\ n - 1 = Len(f) /\ n \in 1..n
    BY <1>1
  <1>5. HashAt(g, n - 1) = HashAt(f, Len(f))
    BY <1>2, <1>4
  <1>6. Fits(g, n) <=> /\ l # Junk
                       /\ l.seq = Len(f)
                       /\ l.prev = HashAt(f, Len(f))
                       /\ l.hash = CanonicalHash(l.seq, l.body, l.prev)
    BY <1>1, <1>4, <1>5
  <1>7. Intact(f) <=> \A i \in DOMAIN f : Fits(f, i)
    BY DEF Intact
  <1>8. Intact(g) <=> \A i \in DOMAIN g : Fits(g, i)
    BY DEF Intact
  <1> HIDE DEF Fits
  <1>9. Intact(g) <=> Intact(f) /\ Fits(g, n)
    BY <1>3, <1>4, <1>7, <1>8
  <1> QED
    BY <1>6, <1>9 DEF g

\* What opening in mode "a" leaves: the line at the end, or a corrupt one.
LEMMA AppendedFile ==
    ASSUME NEW e, IsSeq(file), newline \in BOOLEAN, ~ newline => file # <<>>
    PROVE  LET g == Appended(file, newline, e)
           IN /\ IsSeq(g) /\ g # <<>>
              /\ \A i \in DOMAIN g : g[i] = e \/ g[i] = Junk \/ \E j \in DOMAIN file : g[i] = file[j]
              /\ newline => g = Append(file, e) /\ ToSet(g) = ToSet(file) \cup {e}
              /\ ~ newline => Junk \in ToSet(g)
  <1> DEFINE g == Appended(file, newline, e)
  <1>1. Len(file) \in Nat /\ DOMAIN file = 1..Len(file)
    BY SeqFacts
  <1>2. CASE newline
    <2>1. g = Append(file, e)
      BY <1>2 DEF Appended
    <2>2. /\ IsSeq(g) /\ g # <<>> /\ Len(g) = Len(file) + 1
          /\ \A i \in 1..Len(file) : g[i] = file[i]
          /\ g[Len(file) + 1] = e
          /\ ToSet(g) = ToSet(file) \cup {e}
      BY <2>1, AppendedSeq
    <2> HIDE DEF g
    <2>3. DOMAIN g = 1..(Len(file) + 1)
      BY <2>2, SeqFacts
    <2>4. ASSUME NEW i \in DOMAIN g
          PROVE  g[i] = e \/ \E j \in DOMAIN file : g[i] = file[j]
      <3>1. i = Len(file) + 1 \/ i \in DOMAIN file
        BY <1>1, <2>3
      <3> QED
        BY <1>1, <2>2, <3>1
    <2> QED
      BY <1>2, <2>1, <2>2, <2>4 DEF g
  <1>3. CASE ~ newline
    <2>1. g = [file EXCEPT ![Len(file)] = Junk]
      BY <1>3 DEF Appended
    <2>2. Len(file) \in DOMAIN file
      BY <1>1, <1>3, SeqFacts
    <2> HIDE DEF g
    <2>3. /\ IsSeq(g) /\ Len(g) = Len(file) /\ DOMAIN g = DOMAIN file
          /\ \A j \in DOMAIN file : g[j] = IF j = Len(file) THEN Junk ELSE file[j]
          /\ Junk \in ToSet(g)
      <3>1. \A i \in DOMAIN file :
               /\ IsSeq([file EXCEPT ![i] = Junk])
               /\ Len([file EXCEPT ![i] = Junk]) = Len(file)
               /\ DOMAIN [file EXCEPT ![i] = Junk] = DOMAIN file
               /\ \A j \in DOMAIN file : [file EXCEPT ![i] = Junk][j] = IF j = i THEN Junk ELSE file[j]
               /\ Junk \in ToSet([file EXCEPT ![i] = Junk])
        BY ReplacedSeq
      <3> QED
        BY <2>1, <2>2, <3>1
    <2>4. g # <<>>
      BY <1>1, <2>2, <2>3, SeqFacts
    <2> QED
      BY <1>3, <2>3, <2>4 DEF g
  <1> QED
    BY <1>2, <1>3

\* A corrupt line anywhere and the chain does not verify.
LEMMA JunkBreaks ==
    ASSUME NEW f, Intact(f)
    PROVE  Junk \notin ToSet(f)
  BY DEF Intact, ToSet

\* The last line of a chain that verifies tells how long it is.
LEMMA IntactLength ==
    ASSUME NEW f, Readable(f), Intact(f)
    PROVE  /\ Len(f) \in 0..MaxLines
           /\ \A e \in ToSet(f) : e.seq \in 0..(Len(f) - 1)
           /\ \A i \in DOMAIN f : IsLine(f[i]) /\ f[i].seq = i - 1
  <1>1. Len(f) \in Nat /\ DOMAIN f = 1..Len(f)
    BY SeqFacts DEF Readable
  <1>2. \A i \in DOMAIN f : IsLine(f[i]) /\ f[i].seq = i - 1
    BY DEF Readable, Intact
  <1>3. Len(f) \in 0..MaxLines
    <2>1. CASE Len(f) = 0
      BY <2>1, BoundAssumption
    <2>2. CASE Len(f) > 0
      <3>1. f[Len(f)].seq = Len(f) - 1 /\ f[Len(f)].seq \in 0..(MaxLines - 1)
        BY <1>1, <1>2, <2>2 DEF IsLine
      <3> QED
        BY <1>1, <3>1, BoundAssumption
    <2> QED
      BY <1>1, <2>1, <2>2
  <1>4. \A e \in ToSet(f) : e.seq \in 0..(Len(f) - 1)
    BY <1>1, <1>2 DEF ToSet
  <1> QED
    BY <1>2, <1>3, <1>4

-----------------------------------------------------------------------------

\* The ways a file is changed behind the log's back, one by one.
LEMMA AlteredShape ==
    ASSUME NEW f, IsSeq(f), NEW g \in Altered(f)
    PROVE  \/ \E i \in DOMAIN f : g = RemoveAt(f, i)
           \/ \E i \in DOMAIN f : g = InsertAt(f, i, f[i])
           \/ \E i \in 1..(Len(f) - 1) : g = [[f EXCEPT ![i] = f[i + 1]] EXCEPT ![i + 1] = f[i]]
           \/ \E i \in DOMAIN f, b \in Bodies :
                 f[i] # Junk /\ g = [f EXCEPT ![i] = [f[i] EXCEPT !.body = b]]
           \/ \E i \in DOMAIN f, b \in Bodies :
                 f[i] # Junk /\ i < Len(f) /\ g = [f EXCEPT ![i] = Entry(f[i].seq, b, f[i].prev)]
           \/ \E n \in 0..Len(f) : g = SubSeq(f, 1, n)
  BY DEF Altered

\* One line is replaced: by one that is as readable, or by one of its own seq that fits
\* where nothing but its body may differ.
LEMMA ReplacedLine ==
    ASSUME NEW f, Readable(f), NEW i \in DOMAIN f, NEW l, l = Junk \/ IsLine(l)
    PROVE  Readable([f EXCEPT ![i] = l])
  BY ReplacedSeq DEF Readable

\* The file stays a sequence of lines, each an entry or junk.
LEMMA AlteredIsReadable ==
    ASSUME NEW f, Readable(f), NEW g \in Altered(f)
    PROVE  Readable(g)
  <1>1. IsSeq(f) /\ Len(f) \in Nat /\ DOMAIN f = 1..Len(f)
    BY SeqFacts DEF Readable
  <1>2. ASSUME NEW h, IsSeq(h), \A j \in 1..Len(h) : \E k \in DOMAIN f : h[j] = f[k]
        PROVE  Readable(h)
    BY <1>2, SeqFacts DEF Readable
  <1>3. ASSUME NEW i \in DOMAIN f, g = RemoveAt(f, i)
        PROVE  Readable(g)
    <2>1. /\ IsSeq(g) /\ Len(g) = Len(f) - 1
          /\ \A j \in 1..(i - 1) : g[j] = f[j]
          /\ \A j \in i..(Len(f) - 1) : g[j] = f[j + 1]
      BY <1>1, <1>3, RemovedSeq
    <2>2. ASSUME NEW j \in 1..Len(g)
          PROVE  \E k \in DOMAIN f : g[j] = f[k]
      <3>1. j \in DOMAIN f /\ j + 1 \in DOMAIN f /\ (j \in 1..(i - 1) \/ j \in i..(Len(f) - 1))
        BY <1>1, <2>1
      <3> QED
        BY <2>1, <3>1
    <2> QED
      BY <1>2, <2>1, <2>2
  <1>4. ASSUME NEW i \in DOMAIN f, g = InsertAt(f, i, f[i])
        PROVE  Readable(g)
    <2>1. /\ IsSeq(g) /\ Len(g) = Len(f) + 1
          /\ \A j \in 1..i : g[j] = f[j]
          /\ \A j \in (i + 1)..(Len(f) + 1) : g[j] = f[j - 1]
      BY <1>1, <1>4, InsertedSeq
    <2>2. ASSUME NEW j \in 1..Len(g)
          PROVE  \E k \in DOMAIN f : g[j] = f[k]
      <3>1. \/ j \in 1..i /\ j \in DOMAIN f
            \/ j \in (i + 1)..(Len(f) + 1) /\ j - 1 \in DOMAIN f
        BY <1>1, <2>1
      <3> QED
        BY <2>1, <3>1
    <2> QED
      BY <1>2, <2>1, <2>2
  <1>5. ASSUME NEW i \in 1..(Len(f) - 1), g = [[f EXCEPT ![i] = f[i + 1]] EXCEPT ![i + 1] = f[i]]
        PROVE  Readable(g)
    <2>1. i \in DOMAIN f /\ i + 1 \in DOMAIN f
      BY <1>1
    <2>2. Readable([f EXCEPT ![i] = f[i + 1]])
      BY <2>1, ReplacedLine DEF Readable
    <2>3. i + 1 \in DOMAIN [f EXCEPT ![i] = f[i + 1]] /\ (f[i] = Junk \/ IsLine(f[i]))
      BY <2>1 DEF Readable
    <2> QED
      BY <1>5, <2>2, <2>3, ReplacedLine
  <1>6. ASSUME NEW i \in DOMAIN f, NEW b \in Bodies, f[i] # Junk,
               g = [f EXCEPT ![i] = [f[i] EXCEPT !.body = b]]
        PROVE  Readable(g)
    <2>1. IsLine([f[i] EXCEPT !.body = b])
      <3>1. IsLine(f[i])
        BY <1>6 DEF Readable
      <3>2. [f[i] EXCEPT !.body = b] =
               [seq |-> f[i].seq, body |-> b, prev |-> f[i].prev, hash |-> f[i].hash]
        BY <3>1 DEF IsLine
      <3> QED
        BY <3>1, <3>2 DEF IsLine
    <2> QED
      BY <1>6, <2>1, ReplacedLine
  <1>7. ASSUME NEW i \in DOMAIN f, NEW b \in Bodies, f[i] # Junk,
               g = [f EXCEPT ![i] = Entry(f[i].seq, b, f[i].prev)]
        PROVE  Readable(g)
    <2>1. IsLine(Entry(f[i].seq, b, f[i].prev))
      BY <1>7 DEF Readable, IsLine, Entry
    <2> QED
      BY <1>7, <2>1, ReplacedLine
  <1>8. ASSUME NEW n \in 0..Len(f), g = SubSeq(f, 1, n)
        PROVE  Readable(g)
    <2>1. /\ g \in Seq(ToSet(f)) /\ Len(g) = n
          /\ \A j \in 1..n : g[j] = f[j]
      BY <1>1, <1>8, PartOfSeq
    <2> QED
      BY <1>1, <1>2, <2>1, SeqOfAny
  <1> QED
    BY <1>1, <1>3, <1>4, <1>5, <1>6, <1>7, <1>8, AlteredShape

\* A chain that was changed and still verifies is a beginning of what it was: only the
\* end of a file can be lost unseen (audit_chain.py:18-35).
LEMMA AlterationShows ==
    ASSUME NEW f, Readable(f), Intact(f), NEW g \in Altered(f), Intact(g)
    PROVE  Len(g) <= Len(f) /\ \A j \in 1..Len(g) : g[j] = f[j]
  <1>1. IsSeq(f) /\ Len(f) \in Nat /\ DOMAIN f = 1..Len(f)
    BY SeqFacts DEF Readable
  <1>2. IsSeq(g) /\ Len(g) \in Nat /\ DOMAIN g = 1..Len(g)
    <2>1. IsSeq(g)
      BY AlteredIsReadable DEF Readable
    <2> QED
      BY <2>1, SeqFacts
  <1>3. /\ \A j \in 1..Len(f) : /\ f[j].seq = j - 1 /\ IsLine(f[j])
                                /\ f[j].prev = HashAt(f, j - 1)
                                /\ f[j].hash = <<f[j].seq, f[j].body, f[j].prev>>
        /\ \A j \in 1..Len(g) : /\ g[j].seq = j - 1
                                /\ g[j].prev = HashAt(g, j - 1)
                                /\ g[j].hash = <<g[j].seq, g[j].body, g[j].prev>>
    BY <1>1, <1>2 DEF Intact, Readable, CanonicalHash
  <1>4. ASSUME NEW i \in DOMAIN f, g = RemoveAt(f, i)
        PROVE  Len(g) <= Len(f) /\ \A j \in 1..Len(g) : g[j] = f[j]
    <2>1. /\ Len(g) = Len(f) - 1
          /\ \A j \in 1..(i - 1) : g[j] = f[j]
          /\ \A j \in i..(Len(f) - 1) : g[j] = f[j + 1]
      BY <1>1, <1>4, RemovedSeq
    <2>2. i = Len(f)
      <3>1. SUFFICES ASSUME i # Len(f)
                     PROVE  FALSE
        OBVIOUS
      <3>2. i \in 1..Len(g) /\ i \in i..(Len(f) - 1) /\ i + 1 \in 1..Len(f)
        BY <1>1, <2>1, <3>1
      <3>3. g[i].seq = i - 1 /\ f[i + 1].seq = (i + 1) - 1 /\ g[i] = f[i + 1]
        BY <1>3, <2>1, <3>2
      <3> QED
        BY <1>1, <3>3
    <2> QED
      BY <1>1, <2>1, <2>2
  <1>5. ASSUME NEW i \in DOMAIN f, g = InsertAt(f, i, f[i])
        PROVE  FALSE
    <2>1. /\ Len(g) = Len(f) + 1
          /\ \A j \in 1..i : g[j] = f[j]
          /\ \A j \in (i + 1)..(Len(f) + 1) : g[j] = f[j - 1]
      BY <1>1, <1>5, InsertedSeq
    <2>2. i + 1 \in 1..Len(g) /\ i + 1 \in (i + 1)..(Len(f) + 1) /\ (i + 1) - 1 = i
      BY <1>1, <2>1
    <2>3. g[i + 1].seq = i /\ f[i].seq = i - 1 /\ g[i + 1] = f[i]
      BY <1>1, <1>3, <2>1, <2>2
    <2> QED
      BY <1>1, <2>3
  <1>6. ASSUME NEW i \in 1..(Len(f) - 1), g = [[f EXCEPT ![i] = f[i + 1]] EXCEPT ![i + 1] = f[i]]
        PROVE  FALSE
    <2>1. i \in DOMAIN f /\ i + 1 \in DOMAIN f
      BY <1>1
    <2>2. DOMAIN g = DOMAIN f /\ g[i] = f[i + 1]
      BY <1>6, <2>1
    <2>3. g[i].seq = i - 1 /\ f[i + 1].seq = (i + 1) - 1
      BY <1>1, <1>2, <1>3, <2>1, <2>2
    <2> QED
      BY <1>1, <2>2, <2>3
  <1>7. ASSUME NEW i \in DOMAIN f, NEW l, g = [f EXCEPT ![i] = l], l = f[i]
        PROVE  Len(g) <= Len(f) /\ \A j \in 1..Len(g) : g[j] = f[j]
    <2>1. DOMAIN g = DOMAIN f /\ \A j \in DOMAIN f : g[j] = f[j]
      BY <1>7
    <2>2. Len(g) = Len(f)
      BY <1>7, <1>1, ReplacedSeq
    <2> QED
      BY <1>1, <1>2, <2>1, <2>2
  <1>8. ASSUME NEW i \in DOMAIN f, NEW b \in Bodies,
               g = [f EXCEPT ![i] = [f[i] EXCEPT !.body = b]]
        PROVE  [f[i] EXCEPT !.body = b] = f[i]
    <2>1. f[i] = [seq |-> f[i].seq, body |-> f[i].body, prev |-> f[i].prev, hash |-> f[i].hash]
      BY <1>1, <1>3 DEF IsLine
    <2>2. /\ i \in DOMAIN g
          /\ g[i] = [seq |-> f[i].seq, body |-> b, prev |-> f[i].prev, hash |-> f[i].hash]
      BY <1>8, <2>1
    <2>3. g[i].hash = <<f[i].seq, b, f[i].prev>> /\ g[i].hash = <<f[i].seq, f[i].body, f[i].prev>>
      BY <1>1, <1>2, <1>3, <2>2
    <2>4. b = f[i].body
      BY <2>3
    <2> QED
      BY <2>1, <2>4
  <1>9. ASSUME NEW i \in DOMAIN f, NEW b \in Bodies, i < Len(f),
               g = [f EXCEPT ![i] = Entry(f[i].seq, b, f[i].prev)]
        PROVE  Entry(f[i].seq, b, f[i].prev) = f[i]
    <2>1. i + 1 \in DOMAIN f /\ i + 1 # i /\ (i + 1) - 1 = i /\ i # 0
      BY <1>1, <1>9
    <2>2. /\ DOMAIN g = DOMAIN f /\ g[i + 1] = f[i + 1]
          /\ g[i] = Entry(f[i].seq, b, f[i].prev)
      BY <1>9, <2>1
    <2>3. f[i + 1].prev = f[i].hash /\ g[i + 1].prev = g[i].hash
      BY <1>1, <1>2, <1>3, <2>1, <2>2 DEF HashAt
    <2>4. f[i].hash = <<f[i].seq, f[i].body, f[i].prev>> /\ g[i].hash = <<f[i].seq, b, f[i].prev>>
      BY <1>1, <1>3, <2>2 DEF Entry, CanonicalHash
    <2>5. b = f[i].body
      BY <2>2, <2>3, <2>4
    <2>6. f[i] = [seq |-> f[i].seq, body |-> f[i].body, prev |-> f[i].prev, hash |-> f[i].hash]
      BY <1>1, <1>3 DEF IsLine
    <2> QED
      BY <2>4, <2>5, <2>6 DEF Entry, CanonicalHash
  <1>10. ASSUME NEW n \in 0..Len(f), g = SubSeq(f, 1, n)
         PROVE  Len(g) <= Len(f) /\ \A j \in 1..Len(g) : g[j] = f[j]
    <2>1. Len(g) = n /\ \A j \in 1..n : g[j] = f[j]
      BY <1>1, <1>10, PartOfSeq
    <2> QED
      BY <1>1, <2>1
  <1>11. ASSUME NEW i \in DOMAIN f, NEW b \in Bodies,
                g = [f EXCEPT ![i] = [f[i] EXCEPT !.body = b]]
         PROVE  Len(g) <= Len(f) /\ \A j \in 1..Len(g) : g[j] = f[j]
    BY <1>7, <1>8, <1>11
  <1>12. ASSUME NEW i \in DOMAIN f, NEW b \in Bodies, i < Len(f),
                g = [f EXCEPT ![i] = Entry(f[i].seq, b, f[i].prev)]
         PROVE  Len(g) <= Len(f) /\ \A j \in 1..Len(g) : g[j] = f[j]
    BY <1>7, <1>9, <1>12
  <1> HIDE DEF Intact, Readable
  <1> QED
    BY <1>1, <1>4, <1>5, <1>6, <1>10, <1>11, <1>12, AlteredShape

-----------------------------------------------------------------------------

\* The empty log.
LEMMA InitKeeps ==
    ASSUME Init
    PROVE  IInv
  <1> USE DEF Init
  <1>1. IsSeq(<<>>) /\ DOMAIN (<<>>) = {} /\ ToSet(<<>>) = {} /\ Len(<<>>) = 0
    BY EmptySeq DEF IsSeq, ToSet
  <1>2. Shape
    <2>1. IsSeq(file) /\ IsSeq(recorded) /\ IsSeq(anchored) /\ DOMAIN file = {}
      BY <1>1
    <2>2. pc \in [Writers -> {"idle", "write", "advance", "publish"}] /\ DOMAIN entry = Writers
      OBVIOUS
    <2>3. \A w \in Writers : pc[w] = "idle" /\ entry[w] = NoEntry
      OBVIOUS
    <2>4. next_seq \in 0..MaxLines
      BY BoundAssumption
    <2> QED
      BY <2>1, <2>2, <2>3, <2>4 DEF Shape
  <1>3. Counter /\ ~ Advancing
    BY DEF Counter, Advancing
  <1>4. Linked
    BY <1>1 DEF Linked, Done, Intact, HashAt
  <1>5. Evidence /\ Increasing
    BY <1>1 DEF Evidence, Increasing, HeadsIncrease, Done
  <1>6. Detecting
    BY <1>1, <1>3, PrefixByPosition DEF Detecting, VerifyDetects
  <1> QED
    BY <1>2, <1>3, <1>4, <1>5, <1>6 DEF IInv

\* record() reads the head.
LEMMA RecordKeeps ==
    ASSUME IInv, OneWriter, NEW w \in Writers, NEW b \in Bodies, Record(w, b), UNCHANGED faults
    PROVE  IInv'
  <1> USE DEF Record, Goto, disk, head, history
  <1>1. /\ \A v \in Writers : v = w
        /\ pc'[w] = "write" /\ entry'[w] = Entry(next_seq, b, last_hash)
        /\ DOMAIN entry' = Writers
    BY DEF IInv, Shape, OneWriter
  <1>2. ~ Done(w)' /\ ~ Done(w) /\ ~ Advancing' /\ ~ Advancing
    BY <1>1 DEF Done, Advancing
  <1>3. Shape'
    <2>1. IsLine(entry'[w]) /\ entry'[w].hash = CanonicalHash(entry'[w].seq, entry'[w].body, entry'[w].prev)
      BY <1>1, BoundAssumption DEF IInv, Shape, IsLine, Entry
    <2> QED
      BY <1>1, <2>1 DEF IInv, Shape
  <1>4. Counter'
    BY <1>1 DEF Counter, Entry
  <1>5. Linked'
    BY <1>1, <1>2 DEF IInv, Linked, Sound, Intact, HashAt
  <1>6. Evidence' /\ Increasing'
    BY <1>1, <1>2 DEF IInv, Evidence, Increasing, HeadsIncrease
  <1>7. Detecting'
    BY <1>1, <1>2 DEF IInv, Detecting, VerifyDetects, Intact, HashAt
  <1> QED
    BY <1>3, <1>4, <1>5, <1>6, <1>7 DEF IInv

\* What is known of the writer that is about to write.
LEMMA AtWrite ==
    ASSUME IInv, OneWriter, JunkIsNoLine, NEW w \in Writers, pc[w] = "write"
    PROVE  /\ \A v \in Writers : v = w
           /\ ~ Advancing /\ ~ Done(w) /\ phase = "up"
           /\ IsLine(entry[w]) /\ entry[w] # Junk
           /\ entry[w].hash = CanonicalHash(entry[w].seq, entry[w].body, entry[w].prev)
           /\ entry[w].seq = next_seq /\ entry[w].prev = last_hash
  <1>1. /\ \A v \in Writers : v = w
        /\ IsLine(entry[w]) /\ phase = "up"
        /\ entry[w].hash = CanonicalHash(entry[w].seq, entry[w].body, entry[w].prev)
    BY DEF IInv, Shape, OneWriter
  <1>2. entry[w] # Junk
    BY <1>1 DEF IsLine, JunkIsNoLine
  <1> QED
    BY <1>1, <1>2 DEF IInv, Counter, Advancing, Done

\* The line goes out whole, or cut short; glued to a fragment, or not.
LEMMA WriteKeeps ==
    ASSUME IInv, OneWriter, JunkIsNoLine, NEW w \in Writers, Write(w), UNCHANGED faults
    PROVE  IInv'
  <1> USE DEF Write, Goto, head
  <1> DEFINE e == entry[w]
  <1>1. /\ \A v \in Writers : v = w
        /\ ~ Advancing /\ phase = "up"
        /\ IsLine(e) /\ e # Junk
        /\ e.hash = CanonicalHash(e.seq, e.body, e.prev)
        /\ e.seq = next_seq /\ e.prev = last_hash
    BY AtWrite
  <1>2. pc'[w] = "advance" /\ Advancing' /\ Done(w)' /\ entry' = entry
    BY <1>1 DEF IInv, Shape, Advancing, Done
  <1>3. /\ IsSeq(file) /\ newline \in BOOLEAN /\ (~ newline => file # <<>>)
        /\ \A i \in DOMAIN file : file[i] = Junk \/ IsLine(file[i])
        /\ IsSeq(recorded) /\ Len(recorded) \in Nat /\ Len(file) \in Nat
    BY SeqFacts DEF IInv, Shape
  <1>4. /\ IsSeq(file') /\ file' # <<>>
        /\ \A i \in DOMAIN file' : file'[i] = e \/ file'[i] = Junk \/ \E j \in DOMAIN file : file'[i] = file[j]
        /\ newline => file' = Append(file, e) /\ ToSet(file') = ToSet(file) \cup {e}
        /\ ~ newline => Junk \in ToSet(file')
    BY <1>3, AppendedFile
  <1>5. IsSeq(recorded') /\ Len(recorded') = Len(recorded) + 1
    BY <1>3, AppendedSeq
  <1> HIDE DEF e
  <1>6. Shape'
    <2>1. \A i \in DOMAIN file' : file'[i] = Junk \/ IsLine(file'[i])
      BY <1>1, <1>3, <1>4
    <2> QED
      BY <1>1, <1>2, <1>4, <1>5, <2>1 DEF IInv, Shape, e
  <1>7. Counter'
    BY <1>1, <1>2 DEF Counter, e
  <1>8. Linked'
    <2> SUFFICES ASSUME Sound
                 PROVE  Linked'
      BY DEF Linked, Sound
    <2>1. /\ file = recorded /\ Intact(file) /\ last_hash = HashAt(file, Len(file))
          /\ newline /\ next_seq = Len(file)
      <3>1. file = recorded /\ Intact(file) /\ last_hash = HashAt(file, Len(file))
        BY <1>1 DEF IInv, Linked
      <3>2. newline /\ Len(recorded) = next_seq + 0 /\ next_seq \in Nat
        BY <1>1 DEF IInv, Shape, Detecting, Sound
      <3> QED
        BY <3>1, <3>2
    <2>2. file' = Append(file, e) /\ file' = recorded'
      BY <1>4, <2>1 DEF e
    <2>3. Intact(file')
      <3>1. e.seq = Len(file) /\ e.prev = HashAt(file, Len(file))
        BY <1>1, <2>1 DEF e
      <3>2. e # Junk /\ e.hash = CanonicalHash(e.seq, e.body, e.prev)
        BY <1>1 DEF e
      <3>3. Intact(Append(file, e))
        BY <1>3, <2>1, <3>1, <3>2, ChainGrows
      <3> QED
        BY <2>2, <3>3
    <2>4. Last(file') = e
      <3>1. Len(Append(file, e)) = Len(file) + 1 /\ Append(file, e)[Len(file) + 1] = e
        BY <1>3, AppendedSeq
      <3> QED
        BY <2>2, <3>1 DEF Last
    <2>5. e \notin returned
      <3>1. returned \subseteq ToSet(file)
        BY <2>1, JunkBreaks DEF IInv, Evidence, Sound
      <3>2. \A x \in ToSet(file) : x.seq \in 0..(Len(file) - 1)
        BY <1>3, <2>1, IntactLength DEF Readable
      <3> QED
        BY <1>1, <1>3, <2>1, <3>1, <3>2
    <2> QED
      BY <1>1, <1>2, <1>4, <2>2, <2>3, <2>4, <2>5 DEF Linked, e
  <1>9. Evidence'
    <2>1. CASE newline /\ Junk \notin ToSet(file)
      BY <1>1, <1>2, <1>4, <2>1 DEF IInv, Evidence, e
    <2>2. CASE ~ newline \/ Junk \in ToSet(file)
      BY <1>3, <1>4, <2>2 DEF Evidence
    <2> QED
      BY <2>1, <2>2
  <1>10. Increasing'
    BY <1>1, <1>2 DEF IInv, Increasing, HeadsIncrease
  <1>11. Detecting'
    <2> SUFFICES ASSUME "torn" \notin faults
                 PROVE  Detecting'
      BY DEF Detecting
    <2>1. newline /\ Len(recorded) = next_seq /\ VerifyDetects
      BY <1>1 DEF IInv, Detecting, Shape
    <2>2. file' = Append(file, e) /\ recorded' = Append(recorded, e)
      BY <1>4, <2>1 DEF e
    <2>3. ASSUME Intact(file')
          PROVE  IsPrefix(file', recorded')
      <3>1. Intact(file) /\ e.seq = Len(file)
        BY <1>3, <2>2, <2>3, ChainGrows
      <3>2. IsPrefix(file, recorded) /\ Len(file) = Len(recorded)
        BY <1>1, <2>1, <3>1 DEF VerifyDetects
      <3>3. \A i \in 1..Len(file) : file[i] = recorded[i]
        BY <1>3, <3>2, PrefixByPosition
      <3>4. /\ Len(file') = Len(file) + 1
            /\ \A i \in 1..Len(file) : file'[i] = file[i] /\ recorded'[i] = recorded[i]
            /\ file'[Len(file) + 1] = e /\ recorded'[Len(file) + 1] = e
        BY <1>3, <2>2, <3>2, AppendedSeq
      <3>5. ASSUME NEW i \in 1..Len(file')
            PROVE  file'[i] = recorded'[i]
        <4>1. i \in 1..Len(file) \/ i = Len(file) + 1
          BY <1>3, <3>4
        <4> QED
          BY <3>3, <3>4, <4>1
      <3>6. Len(file') <= Len(recorded')
        BY <1>3, <1>5, <3>2, <3>4
      <3> QED
        BY <1>4, <1>5, <3>5, <3>6, PrefixByPosition
    <2>4. newline' /\ Len(recorded') = next_seq' + 1
      BY <1>5, <2>1
    <2> QED
      BY <1>2, <2>3, <2>4 DEF Detecting, VerifyDetects
  <1> QED
    BY <1>6, <1>7, <1>8, <1>9, <1>10, <1>11 DEF IInv

\* What a write cut short leaves is lines and junk, and evidence of what it spoilt.
LEMMA CutFile ==
    ASSUME IInv, NEW e, IsLine(e), CutShort(e)
    PROVE  /\ IsSeq(file') /\ file' # <<>> /\ newline' = FALSE
           /\ \A i \in DOMAIN file' : file'[i] = Junk \/ IsLine(file'[i])
           /\ ToSet(file) \subseteq ToSet(file') \/ Junk \in ToSet(file')
  <1>1. /\ IsSeq(file) /\ newline \in BOOLEAN /\ (~ newline => file # <<>>)
        /\ \A i \in DOMAIN file : file[i] = Junk \/ IsLine(file[i])
    BY DEF IInv, Shape
  <1>2. PICK l \in {Junk, e} : file' = Appended(file, newline, l) /\ newline' = FALSE
    BY DEF CutShort
  <1>3. /\ IsSeq(file') /\ file' # <<>>
        /\ \A i \in DOMAIN file' : file'[i] = l \/ file'[i] = Junk \/ \E j \in DOMAIN file : file'[i] = file[j]
        /\ newline => ToSet(file') = ToSet(file) \cup {l}
        /\ ~ newline => Junk \in ToSet(file')
    BY <1>1, <1>2, AppendedFile
  <1>4. \A i \in DOMAIN file' : file'[i] = Junk \/ IsLine(file'[i])
    BY <1>1, <1>2, <1>3
  <1> QED
    BY <1>1, <1>2, <1>3, <1>4

\* The write raises.
LEMMA WriteRaisesKeeps ==
    ASSUME IInv, OneWriter, JunkIsNoLine, NEW w \in Writers, WriteRaises(w), UNCHANGED faults
    PROVE  IInv'
  <1> USE DEF WriteRaises, Return, Goto, head, history
  <1>1. /\ \A v \in Writers : v = w
        /\ IsLine(entry[w]) /\ phase = "up"
    BY AtWrite
  <1>2. /\ pc'[w] = "idle" /\ entry'[w] = NoEntry /\ DOMAIN entry' = Writers
        /\ ~ Done(w)' /\ ~ Advancing'
    BY <1>1 DEF IInv, Shape, Done, Advancing
  <1>3. /\ IsSeq(file') /\ newline' \in BOOLEAN /\ (~ newline' => file' # <<>>)
        /\ \A i \in DOMAIN file' : file'[i] = Junk \/ IsLine(file'[i])
        /\ ToSet(file) \subseteq ToSet(file') \/ Junk \in ToSet(file')
        /\ Junk \in ToSet(file) => Junk \in ToSet(file')
    <2>1. CASE UNCHANGED disk
      BY <2>1 DEF disk, IInv, Shape
    <2>2. CASE CutShort(entry[w])
      BY <1>1, <2>2, CutFile
    <2> QED
      BY <2>1, <2>2
  <1>4. Shape'
    BY <1>1, <1>2, <1>3 DEF IInv, Shape
  <1>5. Counter' /\ Linked' /\ Detecting'
    BY <1>1, <1>2 DEF Counter, Linked, Detecting, Sound
  <1>6. Evidence'
    BY <1>1, <1>2, <1>3 DEF IInv, Evidence
  <1>7. Increasing'
    BY <1>1, <1>2 DEF IInv, Increasing, HeadsIncrease
  <1> QED
    BY <1>4, <1>5, <1>6, <1>7 DEF IInv

\* The head in memory moves on.
LEMMA AdvanceKeeps ==
    ASSUME IInv, OneWriter, NEW w \in Writers, Advance(w), UNCHANGED faults
    PROVE  IInv'
  <1> USE DEF Advance, Goto, disk, history
  <1>1. /\ \A v \in Writers : v = w
        /\ phase = "up" /\ entry[w].seq = next_seq /\ entry[w].seq \in 0..(MaxLines - 1)
        /\ Done(w) /\ Advancing /\ entry' = entry
    BY DEF IInv, Shape, OneWriter, IsLine, Counter, Done, Advancing
  <1>2. pc'[w] = "publish" /\ Done(w)' /\ ~ Advancing'
    BY <1>1 DEF IInv, Shape, Done, Advancing
  <1>3. Shape'
    <2>1. next_seq' \in 0..MaxLines
      BY <1>1, BoundAssumption
    <2> QED
      BY <1>1, <1>2, <2>1 DEF IInv, Shape
  <1>4. Counter'
    BY <1>1, <1>2, BoundAssumption DEF Counter
  <1>5. Linked'
    <2> SUFFICES ASSUME Sound
                 PROVE  Linked'
      BY DEF Linked, Sound
    <2>1. file # <<>> /\ entry[w] = Last(file) /\ IsSeq(file)
      BY <1>1 DEF IInv, Linked, Shape
    <2>2. last_hash' = HashAt(file, Len(file))
      BY <2>1, SeqFacts DEF HashAt, Last
    <2>3. last_hash' = HashAt(file', Len(file')) /\ Intact(file')
      BY <2>2 DEF IInv, Linked, Intact, HashAt
    <2> QED
      BY <1>1, <1>2, <2>3 DEF IInv, Linked
  <1>6. Evidence'
    BY <1>1, <1>2 DEF IInv, Evidence
  <1>7. Increasing'
    BY <1>1, <1>2 DEF IInv, Increasing, HeadsIncrease, Shape
  <1>8. Detecting'
    BY <1>1, <1>2 DEF IInv, Detecting, VerifyDetects, Intact, HashAt, Shape
  <1> QED
    BY <1>3, <1>4, <1>5, <1>6, <1>7, <1>8 DEF IInv

\* The head of the writer's line follows on those the sink took.
LEMMA AnchoredGrows ==
    ASSUME IInv, NEW w \in Writers, pc[w] = "publish",
           NEW grown, grown = Append(anchored, <<entry[w].seq, entry[w].hash>>)
    PROVE  /\ IsSeq(grown) /\ grown # <<>> /\ Last(grown) = <<entry[w].seq, entry[w].hash>>
           /\ \A i \in DOMAIN grown : \/ i \in DOMAIN anchored /\ grown[i] = anchored[i]
                                      \/ grown[i] = <<entry[w].seq, entry[w].hash>>
           /\ ~ altered => /\ \A i \in DOMAIN grown : grown[i] = <<grown[i][1], grown[i][2]>>
                           /\ \A i \in DOMAIN grown : grown[i][1] \in Int /\ grown[i][1] < next_seq
                           /\ \A i, j \in DOMAIN grown : i < j => grown[i][1] < grown[j][1]
  <1> DEFINE x == <<entry[w].seq, entry[w].hash>>
             n == Len(anchored)
  <1>1. /\ entry[w].seq \in Int /\ phase = "up" /\ next_seq \in Int
        /\ entry[w].seq = next_seq - 1
    BY BoundAssumption DEF IInv, Shape, IsLine, Counter
  <1>2. IsSeq(anchored) /\ n \in Nat /\ DOMAIN anchored = 1..n
    BY SeqFacts DEF IInv, Shape
  <1>3. /\ IsSeq(grown) /\ Len(grown) = n + 1 /\ grown # <<>>
        /\ \A i \in 1..n : grown[i] = anchored[i]
        /\ grown[n + 1] = x
    BY <1>2, AppendedSeq
  <1>4. DOMAIN grown = 1..(n + 1)
    BY <1>3, SeqFacts
  <1>5. \A i \in DOMAIN grown : \/ i \in DOMAIN anchored /\ grown[i] = anchored[i]
                                \/ i = n + 1 /\ grown[i] = x
    BY <1>2, <1>3, <1>4
  <1>6. Last(grown) = x
    BY <1>3 DEF Last
  <1>7. ASSUME ~ altered
        PROVE  /\ \A i \in DOMAIN grown : grown[i] = <<grown[i][1], grown[i][2]>>
               /\ \A i \in DOMAIN grown : grown[i][1] \in Int /\ grown[i][1] < next_seq
               /\ \A i, j \in DOMAIN grown : i < j => grown[i][1] < grown[j][1]
    <2>1. /\ \A i \in DOMAIN anchored : anchored[i] = <<anchored[i][1], anchored[i][2]>>
          /\ \A i \in DOMAIN anchored : /\ anchored[i][1] \in Int
                                        /\ anchored[i][1] < next_seq /\ anchored[i][1] < entry[w].seq
          /\ \A i, j \in DOMAIN anchored : i < j => anchored[i][1] < anchored[j][1]
      BY <1>1, <1>7 DEF IInv, Increasing, HeadsIncrease
    <2>2. x = <<x[1], x[2]>> /\ x[1] = entry[w].seq
      OBVIOUS
    <2>3. \A i \in DOMAIN grown : /\ grown[i] = <<grown[i][1], grown[i][2]>>
                                  /\ grown[i][1] \in Int /\ grown[i][1] < next_seq
      BY <1>1, <1>5, <2>1, <2>2
    <2>4. ASSUME NEW i \in DOMAIN grown, NEW j \in DOMAIN grown, i < j
          PROVE  grown[i][1] < grown[j][1]
      <3>1. i \in DOMAIN anchored /\ grown[i] = anchored[i]
        BY <1>2, <1>4, <1>5, <2>4
      <3> QED
        BY <1>5, <2>1, <2>2, <2>4, <3>1
    <2> QED
      BY <2>3, <2>4
  <1> QED
    BY <1>3, <1>5, <1>6, <1>7

\* publish() was tried; whether the sink took the head, and whether record() returned.
LEMMA PublishedKeeps ==
    ASSUME IInv, OneWriter, NEW w \in Writers, pc[w] = "publish", Return(w),
           UNCHANGED <<faults, disk, phase, head, recorded, altered>>,
           \/ /\ anchored' = Append(anchored, <<entry[w].seq, entry[w].hash>>)
              /\ returned' \in {returned, returned \cup {entry[w]}}
           \/ UNCHANGED <<anchored, returned>>
    PROVE  IInv'
  <1> USE DEF Return, Goto, disk, head
  <1>1. /\ \A v \in Writers : v = w
        /\ phase = "up" /\ IsLine(entry[w])
        /\ Done(w) /\ ~ Advancing
    BY DEF IInv, Shape, OneWriter, Done, Advancing
  <1>2. /\ pc'[w] = "idle" /\ entry'[w] = NoEntry /\ DOMAIN entry' = Writers
        /\ ~ Done(w)' /\ ~ Advancing'
    BY <1>1 DEF IInv, Shape, Done, Advancing
  <1> DEFINE x == <<entry[w].seq, entry[w].hash>>
  <1>3. /\ IsSeq(anchored')
        /\ \A i \in DOMAIN anchored' : \/ i \in DOMAIN anchored /\ anchored'[i] = anchored[i]
                                       \/ anchored'[i] = x
    BY AnchoredGrows DEF IInv, Shape
  <1>4. Shape'
    <2>1. \A e \in returned' : IsLine(e)
      BY <1>1 DEF IInv, Shape
    <2> QED
      BY <1>1, <1>2, <1>3, <2>1 DEF IInv, Shape
  <1>5. Counter'
    BY <1>1, <1>2 DEF Counter
  <1>6. Linked'
    <2> SUFFICES ASSUME Sound
                 PROVE  Linked'
      BY DEF Linked, Sound
    <2>1. /\ file = recorded /\ Intact(file) /\ last_hash = HashAt(file, Len(file))
          /\ file # <<>> /\ entry[w] = Last(file) /\ entry[w] \notin returned
      BY <1>1 DEF IInv, Linked
    <2>2. Last(file) \in returned' => anchored' # <<>> /\ Last(anchored') = x
      BY <2>1, AnchoredGrows
    <2>3. file' = file /\ recorded' = recorded /\ last_hash' = last_hash
      OBVIOUS
    <2>4. Intact(file') /\ last_hash' = HashAt(file', Len(file'))
      BY <2>1, <2>3 DEF Intact, HashAt
    <2> QED
      BY <1>1, <1>2, <2>1, <2>2, <2>3, <2>4 DEF Linked
  <1>7. Evidence'
    <2>1. CASE altered \/ Junk \in ToSet(file)
      BY <2>1 DEF Evidence
    <2>2. CASE ~ altered /\ Junk \notin ToSet(file)
      <3>1. /\ returned \subseteq ToSet(file) /\ entry[w] \in ToSet(file)
            /\ \A i \in DOMAIN anchored : \E e \in ToSet(file) : anchored[i] = <<e.seq, e.hash>>
        BY <1>1, <2>2 DEF IInv, Evidence
      <3> QED
        BY <1>1, <1>2, <1>3, <3>1 DEF Evidence
    <2> QED
      BY <2>1, <2>2
  <1>8. Increasing'
    <2>1. CASE UNCHANGED anchored
      BY <1>1, <1>2, <2>1 DEF IInv, Increasing, HeadsIncrease
    <2>2. CASE anchored' = Append(anchored, x)
      <3>1. ~ altered =>
               /\ \A i \in DOMAIN anchored' : anchored'[i] = <<anchored'[i][1], anchored'[i][2]>>
               /\ \A i \in DOMAIN anchored' : anchored'[i][1] \in Int /\ anchored'[i][1] < next_seq
               /\ \A i, j \in DOMAIN anchored' : i < j => anchored'[i][1] < anchored'[j][1]
        BY <2>2, AnchoredGrows
      <3> QED
        BY <1>1, <1>2, <3>1 DEF Increasing, HeadsIncrease
    <2> QED
      BY <2>1, <2>2
  <1>9. Detecting'
    BY <1>1, <1>2 DEF IInv, Detecting, VerifyDetects, Intact, HashAt
  <1> QED
    BY <1>4, <1>5, <1>6, <1>7, <1>8, <1>9 DEF IInv

\* The object is lost, the file stays.
LEMMA CrashKeeps ==
    ASSUME IInv, OneWriter, JunkIsNoLine, Crash, UNCHANGED faults
    PROVE  IInv'
  <1> USE DEF Crash, head, history
  <1>1. /\ \A v \in Writers : pc'[v] = "idle" /\ entry'[v] = NoEntry /\ ~ Done(v)'
        /\ DOMAIN entry' = Writers /\ ~ Advancing' /\ phase' = "down"
    BY DEF Done, Advancing
  <1>2. /\ IsSeq(file') /\ newline' \in BOOLEAN /\ (~ newline' => file' # <<>>)
        /\ \A i \in DOMAIN file' : file'[i] = Junk \/ IsLine(file'[i])
        /\ ToSet(file) \subseteq ToSet(file') \/ Junk \in ToSet(file')
        /\ Junk \in ToSet(file) => Junk \in ToSet(file')
        /\ "torn" \notin faults => UNCHANGED disk
    <2>1. CASE UNCHANGED disk
      BY <2>1 DEF disk, IInv, Shape
    <2>2. CASE "torn" \in faults /\ \E w \in Writers : pc[w] = "write" /\ CutShort(entry[w])
      BY <2>2, AtWrite, CutFile
    <2> QED
      BY <2>1, <2>2
  <1>3. Shape'
    BY <1>1, <1>2 DEF IInv, Shape
  <1>4. Counter'
    BY <1>1 DEF Counter
  <1>5. Linked'
    <2>1. Sound' => Sound /\ file' = file
      BY <1>2 DEF Sound, disk
    <2> QED
      BY <1>1, <2>1 DEF IInv, Linked, Intact, HashAt
  <1>6. Evidence'
    BY <1>1, <1>2 DEF IInv, Evidence
  <1>7. Increasing'
    BY <1>1 DEF IInv, Increasing, HeadsIncrease
  <1>8. Detecting'
    BY <1>1, <1>2 DEF IInv, Detecting, VerifyDetects, Intact, HashAt, disk
  <1> QED
    BY <1>3, <1>4, <1>5, <1>6, <1>7, <1>8 DEF IInv

\* A new object adopts the tail of the file, or refuses it.
LEMMA ReopenKeeps ==
    ASSUME IInv, Reopen, UNCHANGED faults
    PROVE  IInv'
  <1> USE DEF Reopen, disk, calls, head
  <1>1. /\ \A v \in Writers : pc[v] = "idle" /\ pc'[v] = "idle" /\ entry'[v] = NoEntry
                              /\ ~ Done(v) /\ ~ Done(v)'
        /\ ~ Advancing' /\ phase # "up"
    BY DEF IInv, Shape, Done, Advancing
  <1>2. IsSeq(file) /\ Readable(file) /\ Len(file) \in Nat
    BY SeqFacts DEF IInv, Shape, Readable
  <1>3. CASE Intact(file)
    <2>1. phase' = "up" /\ next_seq' = Len(file) /\ last_hash' = HashAt(file, Len(file))
      BY <1>2, <1>3 DEF FileHead
    <2>2. Len(file) \in 0..MaxLines /\ \A e \in ToSet(file) : e.seq \in 0..(Len(file) - 1)
      BY <1>2, <1>3, IntactLength
    <2>3. Shape'
      BY <1>1, <2>1, <2>2 DEF IInv, Shape
    <2>4. Counter' /\ Evidence'
      BY <1>1 DEF IInv, Counter, Evidence
    <2>5. Linked'
      BY <1>1, <2>1 DEF IInv, Linked, Sound, Intact, HashAt
    <2>6. Increasing'
      <3>1. ASSUME ~ altered, NEW i \in DOMAIN anchored
            PROVE  anchored[i][1] < next_seq'
        <4>1. PICK e \in ToSet(file) : anchored[i] = <<e.seq, e.hash>>
          BY <1>3, <3>1, JunkBreaks DEF IInv, Evidence
        <4> QED
          BY <2>1, <2>2, <4>1
      <3> QED
        BY <1>1, <3>1 DEF IInv, Increasing, HeadsIncrease
    <2>7. Detecting'
      BY <1>1, <1>2, <2>1, PrefixByPosition DEF IInv, Detecting, VerifyDetects
    <2> QED
      BY <2>3, <2>4, <2>5, <2>6, <2>7 DEF IInv
  <1>4. CASE ~ Intact(file)
    <2>1. phase' = "refused" /\ UNCHANGED <<next_seq, last_hash>>
      BY <1>4
    <2>2. Shape' /\ Counter' /\ Evidence'
      BY <1>1, <2>1 DEF IInv, Shape, Counter, Evidence
    <2>3. Linked'
      BY <1>4 DEF IInv, Linked, Sound
    <2>4. Increasing'
      BY <1>1, <2>1 DEF IInv, Increasing, HeadsIncrease
    <2>5. Detecting'
      BY <1>2, <2>1, PrefixByPosition DEF IInv, Detecting, VerifyDetects
    <2> QED
      BY <2>2, <2>3, <2>4, <2>5 DEF IInv
  <1> QED
    BY <1>3, <1>4

\* Somebody changes the file.
LEMMA AlterKeeps ==
    ASSUME IInv, Alter, UNCHANGED faults
    PROVE  IInv'
  <1> USE DEF Alter, calls, head
  <1>1. Readable(file')
    BY AlteredIsReadable DEF IInv, Shape, Readable
  <1>2. Shape'
    BY <1>1 DEF IInv, Shape, Readable
  <1>3. Counter'
    BY DEF IInv, Counter
  <1>4. Linked' /\ Evidence' /\ Increasing'
    BY DEF Linked, Sound, Evidence, Increasing
  <1>5. Detecting'
    <2> SUFFICES ASSUME "torn" \notin faults
                 PROVE  Detecting'
      BY DEF Detecting
    <2>1. file = recorded /\ Intact(file) /\ IsSeq(file) /\ Readable(file)
      BY DEF IInv, Linked, Sound, Shape, Readable
    <2>2. ASSUME Intact(file')
          PROVE  IsPrefix(file', recorded')
      <3>1. Len(file') <= Len(file) /\ \A j \in 1..Len(file') : file'[j] = file[j]
        BY <2>1, <2>2, AlterationShows
      <3> QED
        BY <1>1, <2>1, <3>1, PrefixByPosition DEF Readable
    <2> QED
      BY <2>2 DEF IInv, Detecting, VerifyDetects, Advancing
  <1> QED
    BY <1>2, <1>3, <1>4, <1>5 DEF IInv

\* Every step keeps the invariant, and one that changes nothing does.
LEMMA StepKeeps ==
    ASSUME IInv, OneWriter, JunkIsNoLine, [Next]_vars
    PROVE  IInv'
  <1>1. CASE UNCHANGED vars
    BY <1>1 DEF IInv, Shape, Counter, Linked, Evidence, Increasing, Detecting, HeadsIncrease,
                VerifyDetects, Sound, Advancing, Done, Intact, HashAt,
                vars, disk, head, calls, history
  <1>2. ASSUME NEW w \in Writers, Publish(w) \/ PublishRaises(w), UNCHANGED faults
        PROVE  IInv'
    BY <1>2, PublishedKeeps DEF Publish, PublishRaises, disk, head
  <1>3. CASE Next
    BY <1>2, <1>3, RecordKeeps, WriteKeeps, WriteRaisesKeeps, AdvanceKeeps, CrashKeeps,
       ReopenKeeps, AlterKeeps DEF Next
  <1> QED
    BY <1>1, <1>3

\* With one writer the inductive invariant holds at every moment (audit_chain.py:96-186).
THEOREM Invariant ==
    ASSUME OneWriter, JunkIsNoLine
    PROVE  Spec => []IInv
  BY InitKeeps, StepKeeps, PTL DEF Spec

\* Every variable keeps its type, whatever fails and whatever is changed behind the
\* log's back: a reopened log never goes on from a head the bound does not allow.
THEOREM TypeCorrect ==
    ASSUME OneWriter, JunkIsNoLine
    PROVE  Spec => []TypeOK
  <1>1. ASSUME NEW e, IsLine(e) \/ e = NoEntry
        PROVE  /\ DOMAIN e = {"seq", "body", "prev", "hash"}
               /\ e.seq \in Int /\ e.body \in Bodies \cup {NoBody}
    BY <1>1, BoundAssumption DEF IsLine, NoEntry, Entry
  <1>2. IInv => TypeOK
    BY <1>1 DEF IInv, Shape, TypeOK
  <1> QED
    BY <1>2, Invariant, PTL

\* Every line of a log nobody touched links to the one before it, after any number of
\* crashes, failing sinks and reopenings (audit_chain.py:8-16, 91-94, 155).
THEOREM ChainIntactCorrect ==
    ASSUME OneWriter, JunkIsNoLine
    PROVE  Spec => []ChainIntact
  <1>1. IInv => ChainIntact
    BY DEF IInv, Linked, ChainIntact
  <1> QED
    BY <1>1, Invariant, PTL

\* An entry whose record() returned is in the log, or the log does not verify, however
\* writes were cut short (audit_chain.py:126-135).
THEOREM LossIsDetectedCorrect ==
    ASSUME OneWriter, JunkIsNoLine
    PROVE  Spec => []LossIsDetected
  <1>1. IInv => LossIsDetected
    BY JunkBreaks DEF IInv, Evidence, LossIsDetected
  <1> QED
    BY <1>1, Invariant, PTL

\* The sink never has a head the log does not (audit_chain.py:179-183).
THEOREM AnchorNeverAheadCorrect ==
    ASSUME OneWriter, JunkIsNoLine
    PROVE  Spec => []AnchorNeverAhead
  <1>1. ASSUME IInv, Sound, NEW i \in DOMAIN anchored
        PROVE  \E j \in DOMAIN file : anchored[i] = <<file[j].seq, file[j].hash>>
    <2>1. Junk \notin ToSet(file)
      BY <1>1, JunkBreaks DEF IInv, Linked
    <2>2. PICK e \in ToSet(file) : anchored[i] = <<e.seq, e.hash>>
      BY <1>1, <2>1 DEF IInv, Evidence, Sound
    <2> QED
      BY <2>2 DEF ToSet
  <1>2. IInv => AnchorNeverAhead
    BY <1>1 DEF AnchorNeverAhead
  <1> QED
    BY <1>2, Invariant, PTL

\* The heads the sink takes rise, so that a witness of them never has cause to refuse
\* one, with writes cut short and reopenings too (notary.py:14-16).
THEOREM HeadsIncreaseCorrect ==
    ASSUME OneWriter, JunkIsNoLine
    PROVE  Spec => []HeadsIncrease
  <1>1. IInv => HeadsIncrease
    BY DEF IInv, Increasing, HeadsIncrease
  <1> QED
    BY <1>1, Invariant, PTL

\* Who opens the log and holds the sink's last head agrees with it whenever the last
\* entry was acknowledged (audit_chain.py:179-205).
THEOREM AuditorAgreesCorrect ==
    ASSUME OneWriter, JunkIsNoLine
    PROVE  Spec => []AuditorAgrees
  <1>1. ASSUME IInv, Sound, file # <<>>, Last(file) \in returned
        PROVE  anchored # <<>> /\ FreshVerifyAgainstAnchor(Last(anchored)[1], Last(anchored)[2])
    <2>1. /\ anchored # <<>> /\ Intact(file)
          /\ Last(anchored) = <<Last(file).seq, Last(file).hash>>
      BY <1>1 DEF IInv, Linked
    <2>2. Len(file) \in Nat \ {0} /\ Len(file) \in DOMAIN file
      BY <1>1, SeqFacts DEF IInv, Shape
    <2>3. Last(file).seq = Len(file) - 1 /\ HashAt(file, Len(file)) = Last(file).hash
      BY <2>1, <2>2 DEF Intact, HashAt, Last
    <2> QED
      BY <2>1, <2>3 DEF FreshVerifyAgainstAnchor, FileHead
  <1>2. IInv => AuditorAgrees
    BY <1>1 DEF AuditorAgrees
  <1> QED
    BY <1>2, Invariant, PTL

\* A log that verifies is what was written, or a beginning of it: an edit, an insertion,
\* a deletion or a swap is detected, then and after any further record
\* (audit_chain.py:18-28).
THEOREM VerifyDetectsCorrect ==
    ASSUME OneWriter, JunkIsNoLine
    PROVE  Spec => []VerifyDetects
  <1>1. IInv => VerifyDetects
    BY DEF IInv, Detecting, VerifyDetects
  <1> QED
    BY <1>1, Invariant, PTL
=============================================================================
