-------------------------- MODULE NotaryLedgerProofs --------------------------
(***************************************************************************)
(* The notary's ledger keeps what it acknowledged and what it has shown,   *)
(* can be reopened after any crash, and implements Witness: for any        *)
(* number of connections, chains and hashes and any bounds.                *)
(***************************************************************************)
EXTENDS NotaryLedger, FiniteSets, SequenceTheorems, WellFoundedInduction, TLAPS

\* A thread past the monotonicity check, which it made holding the lock.
Inside(t) == pc[t] \in {"write", "sync", "remember"}

\* Its line has been written.
Written(t) == pc[t] \in {"sync", "remember"}

Keyed(S) == \A q, r \in S : SameKey(q, r) => q.hash = r.hash

Lines(p) == ToSet(p.lines)

ShownRecord(c) == [chain |-> c, seq |-> shown[c][1], hash |-> shown[c][2]]

\* A crash leaves nobody at work; a refused file has no object.
Stopped == (~ up => pages = {file} /\ \A t \in Threads : pc[t] = "idle") /\ (refused => ~ up)

\* The heads are those of the records, one hash each, and whoever is past the check
\* is ahead of all of them: the check was made under the lock and nothing was
\* remembered since.
Book ==
    up => /\ Keyed(at)
          /\ HeadIsHighest
          /\ \A t \in Threads : Inside(t) =>
                \A q \in at : q.chain = req[t].chain => q.seq < req[t].seq

\* What fsync leaves is one content; only a write cut short leaves no newline.
Pages ==
    /\ \A t \in Threads : pc[t] = "remember" => pages = {file}
    /\ \A p \in pages : ~ p.ended => p.lines # <<>>
    /\ "tail" \notin faults => \A p \in pages : p.ended
    /\ \A t \in Threads : Written(t) =>
          \/ req[t] \in Lines(file)
          \/ "tail" \in faults /\ Junk \in Lines(file)

\* Whatever content a crash leaves, it holds all that was acknowledged or shown.
Durable ==
    "tail" \notin faults =>
        /\ \A p \in pages :
             /\ acked \subseteq Lines(p)
             /\ \A c \in Chains : shown[c] # NoHead => ShownRecord(c) \in Lines(p)
             /\ up => at \subseteq Lines(p)
        /\ up => acked \subseteq at
        /\ up => \A c \in Chains : shown[c] # NoHead => ShownRecord(c) \in at
        /\ OneHashPerSeq

\* The same where lines are lost: what is left tells of it.
Evidence == \A p \in pages : acked \subseteq Lines(p) \/ Junk \in Lines(p)

\* Where the process may only die, a restart finds the book, or the book and the
\* line under way.
Restartable ==
    faults \subseteq {"crash"} =>
        /\ ~ refused
        /\ \A p \in pages : Junk \notin Lines(p)
        /\ up => \A p \in pages :
                    \/ Lines(p) = at
                    \/ \E t \in Threads : Written(t) /\ Lines(p) = at \cup {req[t]}
        /\ \A t \in Threads : Written(t) => Lines(file) = at \cup {req[t]}
        /\ (\A t \in Threads : ~ Written(t)) => pages = {file} /\ (up => Lines(file) = at)
        /\ ~ up => Keyed(Lines(file))

IInv == TypeOK /\ Stopped /\ Book /\ Pages /\ Durable /\ Evidence /\ Restartable

-----------------------------------------------------------------------------

Line == Requests \cup {Junk}

\* A set of numbers below a bound has a greatest one.
LEMMA GreatestExists ==
    ASSUME NEW S \in SUBSET (0..MaxSeq), S # {}
    PROVE  \E m \in S : \A n \in S : n <= m
  <1> DEFINE T == {MaxSeq - n : n \in S}
  <1>1. T \subseteq Nat /\ T # {}
    <2>1. \A n \in S : MaxSeq - n \in Nat
      BY BoundAssumption
    <2> QED
      BY <2>1
  <1>2. PICK k \in T : \A j \in T : ~ (<<j, k>> \in OpToRel(<, Nat))
    BY <1>1, NatLessThanWellFounded, WFMin
  <1>3. PICK m \in S : k = MaxSeq - m
    OBVIOUS
  <1>4. \A n \in S : MaxSeq - n \in T
    OBVIOUS
  <1>5. \A n \in S : ~ (MaxSeq - n < MaxSeq - m)
    BY <1>1, <1>2, <1>3, <1>4 DEF OpToRel
  <1> QED
    BY <1>5, BoundAssumption

\* Latest is the highest record held of the chain, and no head only without any.
LEMMA LatestIsHighest ==
    ASSUME NEW S \in SUBSET Requests, NEW c \in Chains
    PROVE  \/ (\A r \in S : r.chain # c) /\ Latest(S, c) = NoHead
           \/ \E top \in S : /\ top.chain = c
                             /\ \A q \in S : q.chain = c => q.seq <= top.seq
                             /\ Latest(S, c) = <<top.seq, top.hash>>
  <1> DEFINE mine == {r \in S : r.chain = c}
             top == CHOOSE r \in mine : \A q \in mine : q.seq <= r.seq
  <1>1. CASE mine = {}
    BY <1>1 DEF Latest
  <1>2. CASE mine # {}
    <2>1. {r.seq : r \in mine} \in SUBSET (0..MaxSeq) /\ {r.seq : r \in mine} # {}
      BY <1>2 DEF Requests
    <2>2. \E r \in mine : \A q \in mine : q.seq <= r.seq
      BY <2>1, GreatestExists
    <2>3. top \in mine /\ \A q \in mine : q.seq <= top.seq
      BY <2>2
    <2>4. Latest(S, c) = <<top.seq, top.hash>>
      BY <1>2 DEF Latest
    <2> QED
      BY <2>3, <2>4
  <1> QED
    BY <1>1, <1>2

\* Where no two records differ at one key, a record that is highest is the latest.
LEMMA HighestIsLatest ==
    ASSUME NEW S \in SUBSET Requests, Keyed(S), NEW top \in S,
           \A q \in S : q.chain = top.chain => q.seq <= top.seq
    PROVE  Latest(S, top.chain) = <<top.seq, top.hash>>
  <1>1. PICK r \in S : /\ r.chain = top.chain
                       /\ \A q \in S : q.chain = top.chain => q.seq <= r.seq
                       /\ Latest(S, top.chain) = <<r.seq, r.hash>>
    BY LatestIsHighest DEF Requests
  <1>2. r.seq = top.seq
    BY <1>1 DEF Requests
  <1> QED
    BY <1>1, <1>2 DEF Keyed, SameKey

\* Latest looks at the records of its chain only.
LEMMA LatestIsLocal ==
    ASSUME NEW S, NEW R, NEW c, {r \in S : r.chain = c} = {r \in R : r.chain = c}
    PROVE  Latest(S, c) = Latest(R, c)
  <1> DEFINE Of(mine) == IF mine = {} THEN NoHead
                         ELSE LET top == CHOOSE r \in mine : \A q \in mine : q.seq <= r.seq
                              IN <<top.seq, top.hash>>
  <1>1. Latest(S, c) = Of({r \in S : r.chain = c}) /\ Latest(R, c) = Of({r \in R : r.chain = c})
    BY DEF Latest
  <1> HIDE DEF Of
  <1> QED
    BY <1>1

\* One more line at the end.
LEMMA SetOfAppend ==
    ASSUME NEW A, NEW s \in Seq(A), NEW x \in A
    PROVE  ToSet(Append(s, x)) = ToSet(s) \cup {x}
  <1> DEFINE r == Append(s, x)
  <1>1. /\ DOMAIN r = DOMAIN s \cup {Len(s) + 1}
        /\ r[Len(s) + 1] = x
        /\ \A i \in DOMAIN s : r[i] = s[i]
    OBVIOUS
  <1> HIDE DEF r
  <1> QED
    BY <1>1 DEF ToSet

\* What an append leaves: all that was there and the line, or a corrupt line.
LEMMA AppendedFile ==
    ASSUME NEW f, f.lines \in Seq(Line), f.ended \in BOOLEAN, NEW l \in Line,
           ~ f.ended => f.lines # <<>>
    PROVE  /\ Appended(f, l).lines \in Seq(Line)
           /\ Appended(f, l).ended = TRUE
           /\ Appended(f, l).lines # <<>>
           /\ f.ended => Lines(Appended(f, l)) = Lines(f) \cup {l}
           /\ ~ f.ended => Junk \in Lines(Appended(f, l))
  <1>1. CASE f.ended
    <2>1. Appended(f, l) = [lines |-> Append(f.lines, l), ended |-> TRUE]
      BY <1>1 DEF Appended
    <2>2. Append(f.lines, l) \in Seq(Line) /\ Append(f.lines, l) # <<>>
      BY AppendProperties
    <2>3. ToSet(Append(f.lines, l)) = ToSet(f.lines) \cup {l}
      BY SetOfAppend
    <2> QED
      BY <1>1, <2>1, <2>2, <2>3 DEF Lines
  <1>2. CASE ~ f.ended
    <2>1. Len(f.lines) \in DOMAIN f.lines /\ Junk \in Line
      BY <1>2 DEF Line
    <2>2. [f.lines EXCEPT ![Len(f.lines)] = Junk] \in Seq(Line)
      BY <2>1, ExceptSeq
    <2>3. [f.lines EXCEPT ![Len(f.lines)] = Junk][Len(f.lines)] = Junk
      BY <2>1
    <2>4. DOMAIN [f.lines EXCEPT ![Len(f.lines)] = Junk] = DOMAIN f.lines
      OBVIOUS
    <2> QED
      BY <1>2, <2>1, <2>2, <2>3, <2>4 DEF Appended, Lines, ToSet
  <1> QED
    BY <1>1, <1>2

\* What a write cut short leaves.
LEMMA CutFile ==
    ASSUME NEW f, f.lines \in Seq(Line), f.ended \in BOOLEAN, NEW l \in Line,
           ~ f.ended => f.lines # <<>>, NEW g \in CutShort(f, l)
    PROVE  /\ "tail" \in faults
           /\ g.lines \in Seq(Line) /\ g.lines # <<>>
           /\ g.ended = FALSE
           /\ f.ended => Lines(f) \subseteq Lines(g)
           /\ ~ f.ended => Junk \in Lines(g)
  <1>1. "tail" \in faults
    BY DEF CutShort
  <1>2. PICK x \in {Junk, l} : g = [Appended(f, x) EXCEPT !.ended = FALSE]
    BY <1>1 DEF CutShort
  <1>3. g.lines = Appended(f, x).lines /\ g.ended = FALSE
    BY <1>2 DEF Appended
  <1>4. x \in Line
    BY <1>2 DEF Line
  <1>5. Lines(g) = Lines(Appended(f, x))
    BY <1>3 DEF Lines
  <1>6. /\ Appended(f, x).lines \in Seq(Line) /\ Appended(f, x).lines # <<>>
        /\ f.ended => Lines(f) \subseteq Lines(Appended(f, x))
        /\ ~ f.ended => Junk \in Lines(Appended(f, x))
    BY <1>4, AppendedFile
  <1> QED
    BY <1>1, <1>3, <1>5, <1>6

-----------------------------------------------------------------------------

\* The empty ledger.
LEMMA InitKeeps ==
    ASSUME Init
    PROVE  IInv
  <1>1. NoRequest \in Requests
    BY RequestAssumption DEF NoRequest
  <1>2. file.lines = <<>> /\ file.ended = TRUE /\ Lines(file) = {}
    BY DEF Init, Lines, ToSet
  <1>3. TypeOK
    <2>1. \A f \in pages \cup {file} : f.lines \in Seq(Requests \cup {Junk}) /\ f.ended \in BOOLEAN
      <3>1. file.lines \in Seq(Requests \cup {Junk}) /\ file.ended \in BOOLEAN
        BY <1>2, EmptySeq
      <3> QED
        BY <3>1 DEF Init
    <2>2. \A t \in Threads : pc[t] \in {"write", "sync", "remember"} <=> lock = t
      BY DistinctAssumption DEF Init
    <2>3. /\ heads \in [Chains -> (0..MaxSeq) \X Hashes \cup {NoHead}]
          /\ shown \in [Chains -> (0..MaxSeq) \X Hashes \cup {NoHead}]
      BY DEF Init
    <2> QED
      BY <1>1, <2>1, <2>2, <2>3 DEF Init, TypeOK
  <1>4. HeadIsHighest
    BY DEF Init, HeadIsHighest, Latest
  <1>5. \A t \in Threads : ~ Inside(t) /\ ~ Written(t) /\ pc[t] # "remember"
    BY DEF Init, Inside, Written
  <1>6. Stopped /\ Book /\ Pages
    BY <1>2, <1>4, <1>5 DEF Init, Stopped, Book, Pages, Keyed
  <1>7. Durable /\ Evidence
    BY <1>2 DEF Init, Durable, Evidence, OneHashPerSeq
  <1>8. Restartable
    BY <1>2, <1>5 DEF Init, Restartable
  <1> QED
    BY <1>3, <1>6, <1>7, <1>8 DEF IInv

\* A submission arrives.
LEMMA SubmitKeeps ==
    ASSUME IInv, NEW t \in Threads, NEW r \in Requests, Submit(t, r), UNCHANGED faults
    PROVE  IInv'
  <1> USE DEF Submit, Goto, store, memory, history
  <1>1. TypeOK'
    BY DEF IInv, TypeOK
  <1>2. \A u \in Threads :
          /\ Inside(u)' <=> Inside(u)
          /\ Written(u)' <=> Written(u)
          /\ pc'[u] = "remember" <=> pc[u] = "remember"
          /\ Inside(u) => req'[u] = req[u]
          /\ Written(u) => Inside(u)
    BY DEF IInv, TypeOK, Inside, Written
  <1>3. Stopped'
    BY DEF IInv, Stopped
  <1>4. Book'
    BY <1>2 DEF IInv, Book, HeadIsHighest
  <1>5. Pages'
    BY <1>2 DEF IInv, Pages
  <1>6. Durable' /\ Evidence'
    BY DEF IInv, Durable, Evidence, OneHashPerSeq, ShownRecord
  <1>7. Restartable'
    BY <1>2 DEF IInv, Restartable
  <1> QED
    BY <1>1, <1>3, <1>4, <1>5, <1>6, <1>7 DEF IInv

\* Whoever passes the check is ahead of every record held.
LEMMA CheckedIsAhead ==
    ASSUME IInv, up, NEW t \in Threads, ~ Regresses(req[t])
    PROVE  \A q \in at : q.chain = req[t].chain => q.seq < req[t].seq
  <1> DEFINE c == req[t].chain
  <1>1. /\ c \in Chains /\ req[t].seq \in 0..MaxSeq
        /\ at \in SUBSET Requests
        /\ heads[c] = Latest(at, c)
    BY DEF IInv, TypeOK, Book, HeadIsHighest, Requests
  <1>2. CASE \A r \in at : r.chain # c
    BY <1>2
  <1>3. CASE \E top \in at : /\ top.chain = c
                             /\ \A q \in at : q.chain = c => q.seq <= top.seq
                             /\ Latest(at, c) = <<top.seq, top.hash>>
    <2>1. PICK top \in at : /\ top.chain = c
                            /\ \A q \in at : q.chain = c => q.seq <= top.seq
                            /\ heads[c] = <<top.seq, top.hash>>
      BY <1>1, <1>3
    <2>2. top.seq \in 0..MaxSeq /\ \A q \in at : q.seq \in 0..MaxSeq
      BY <1>1 DEF Requests
    <2>3. heads[c] # NoHead /\ heads[c][1] = top.seq
      BY <2>1, <2>2 DEF NoHead
    <2>4. ~ (req[t].seq <= top.seq)
      BY <2>3 DEF Regresses
    <2> QED
      BY <1>1, <2>1, <2>2, <2>4, BoundAssumption
  <1> QED
    BY <1>1, <1>2, <1>3, LatestIsHighest

\* It takes the lock and compares with the heads.
LEMMA EnterKeeps ==
    ASSUME IInv, NEW t \in Threads, Enter(t), UNCHANGED faults
    PROVE  IInv'
  <1> USE DEF Enter, Goto, Return, store, memory, history
  <1>1. NoRequest \in Requests
    BY RequestAssumption DEF NoRequest
  <1>2. TypeOK'
    <2>1. lock' = t \/ lock' = lock
      OBVIOUS
    <2> QED
      BY <1>1, DistinctAssumption DEF IInv, TypeOK
  <1>3. up /\ \A u \in Threads : ~ Inside(u) /\ ~ Written(u) /\ ~ Written(u)' /\ pc'[u] # "remember"
    BY DistinctAssumption DEF IInv, TypeOK, Stopped, Inside, Written
  <1>4. Stopped'
    BY <1>3 DEF IInv, Stopped
  <1>5. Book'
    <2>1. \A u \in Threads : Inside(u)' => u = t /\ ~ Regresses(req[t]) /\ req' = req
      BY <1>3 DEF IInv, TypeOK, Inside
    <2>2. HeadIsHighest' /\ Keyed(at)'
      BY <1>3 DEF IInv, Book, HeadIsHighest, Keyed
    <2> QED
      BY <1>3, <2>1, <2>2, CheckedIsAhead DEF Book
  <1>6. Pages'
    BY <1>3 DEF IInv, Pages
  <1>7. Durable' /\ Evidence'
    BY DEF IInv, Durable, Evidence, OneHashPerSeq, ShownRecord
  <1>8. Restartable'
    BY <1>3 DEF IInv, Restartable
  <1> QED
    BY <1>2, <1>4, <1>5, <1>6, <1>7, <1>8 DEF IInv

\* The lines a write adds, and what it leaves where it is cut short.
LEMMA WriteFile ==
    ASSUME IInv, NEW t \in Threads, NEW g \in {Appended(file, req[t])} \cup CutShort(file, req[t])
    PROVE  /\ g.lines \in Seq(Line) /\ g.lines # <<>> /\ g.ended \in BOOLEAN
           /\ "tail" \notin faults => g.ended /\ Lines(g) = Lines(file) \cup {req[t]}
           /\ Lines(file) \subseteq Lines(g) \/ Junk \in Lines(g)
           /\ g = Appended(file, req[t]) => g.ended
  <1>1. /\ file \in pages /\ file.lines \in Seq(Line) /\ file.ended \in BOOLEAN
        /\ req[t] \in Line
    BY DEF IInv, TypeOK, Line
  <1>2. /\ ~ file.ended => file.lines # <<>>
        /\ "tail" \notin faults => file.ended
    BY <1>1 DEF IInv, Pages
  <1>3. CASE g = Appended(file, req[t])
    BY <1>1, <1>2, <1>3, AppendedFile
  <1>4. CASE g \in CutShort(file, req[t])
    <2>1. /\ "tail" \in faults
          /\ g.lines \in Seq(Line) /\ g.lines # <<>>
          /\ g.ended = FALSE
          /\ file.ended => Lines(file) \subseteq Lines(g)
          /\ ~ file.ended => Junk \in Lines(g)
      BY <1>1, <1>2, <1>4, CutFile
    <2>2. Appended(file, req[t]).ended = TRUE
      BY <1>1, <1>2, AppendedFile
    <2> QED
      BY <1>1, <2>1, <2>2
  <1> QED
    BY <1>3, <1>4

\* Who works inside is alone there, and the object is there.
LEMMA InsideAlone ==
    ASSUME IInv, NEW t \in Threads, Inside(t)
    PROVE  /\ up /\ ~ refused /\ lock = t
           /\ \A u \in Threads : Inside(u) => u = t
           /\ \A u \in Threads : Written(u) => u = t
           /\ req[t] \in Requests
           /\ \A q \in at : q.chain = req[t].chain => q.seq < req[t].seq
  BY DistinctAssumption DEF IInv, TypeOK, Stopped, Book, Inside, Written

\* Its line is written, whole or cut short, or not.
LEMMA WriteKeeps ==
    ASSUME IInv, NEW t \in Threads, Write(t), UNCHANGED faults
    PROVE  IInv'
  <1> USE DEF Write, Goto, memory, history
  <1>1. Inside(t) /\ ~ Written(t)
    BY DEF Inside, Written
  <1>2. /\ Inside(t)' /\ Written(t)' /\ pc'[t] = "sync"
        /\ \A u \in Threads \ {t} : ~ Inside(u) /\ ~ Inside(u)' /\ ~ Written(u)'
                                       /\ ~ Written(u) /\ pc'[u] # "remember"
    BY <1>1, InsideAlone DEF IInv, TypeOK, Inside, Written
  <1>3. \A g \in pages' : g \in pages \/ g \in {Appended(file, req[t])} \cup CutShort(file, req[t])
    OBVIOUS
  <1>4. TypeOK'
    <2>1. \A g \in pages' : g.lines \in Seq(Requests \cup {Junk}) /\ g.ended \in BOOLEAN
      BY <1>3, WriteFile DEF IInv, TypeOK, Line
    <2>2. file' \in pages' /\ pages' \cup {file'} = pages'
      OBVIOUS
    <2>3. \A u \in Threads : pc'[u] \in {"write", "sync", "remember"} <=> lock' = u
      BY <1>1, InsideAlone DEF IInv, TypeOK
    <2> QED
      BY <2>1, <2>2, <2>3 DEF IInv, TypeOK
  <1>5. Stopped'
    BY <1>1, InsideAlone DEF Stopped
  <1>6. Book'
    BY <1>1, <1>2, InsideAlone DEF IInv, Book, HeadIsHighest, Keyed
  <1>7. Pages'
    <2>1. \/ req[t] \in Lines(file')
          \/ "tail" \in faults /\ Junk \in Lines(file')
      <3>1. CASE file.ended
        <4>1. file.lines \in Seq(Line) /\ req[t] \in Line
          BY DEF IInv, TypeOK, Line
        <4> QED
          BY <3>1, <4>1, AppendedFile
      <3>2. CASE ~ file.ended
        <4>1. file \in pages /\ file.lines \in Seq(Line) /\ req[t] \in Line /\ file.ended \in BOOLEAN
          BY DEF IInv, TypeOK, Line
        <4>2. file.lines # <<>> /\ "tail" \in faults
          BY <3>2, <4>1 DEF IInv, Pages
        <4> QED
          BY <3>2, <4>1, <4>2, AppendedFile
      <3> QED
        BY <3>1, <3>2
    <2>2. \A g \in pages' : /\ ~ g.ended => g.lines # <<>>
                            /\ "tail" \notin faults => g.ended
      BY <1>3, WriteFile DEF IInv, Pages
    <2> QED
      BY <1>2, <2>1, <2>2 DEF Pages
  <1>8. Durable'
    <2> SUFFICES ASSUME "tail" \notin faults
                 PROVE  Durable'
      BY DEF Durable
    <2>1. \A g \in pages' : \/ g \in pages
                            \/ Lines(file) \subseteq Lines(g)
      BY <1>3, WriteFile
    <2>2. file \in pages
      BY DEF IInv, TypeOK
    <2> QED
      BY <2>1, <2>2 DEF IInv, Durable, OneHashPerSeq, ShownRecord
  <1>9. Evidence'
    <2>1. \A g \in pages' : \/ g \in pages
                            \/ Lines(file) \subseteq Lines(g)
                            \/ Junk \in Lines(g)
      BY <1>3, WriteFile
    <2>2. acked \subseteq Lines(file) \/ Junk \in Lines(file)
      BY DEF IInv, TypeOK, Evidence
    <2> QED
      BY <2>1, <2>2 DEF IInv, Evidence
  <1>10. Restartable'
    <2> SUFFICES ASSUME faults \subseteq {"crash"}
                 PROVE  Restartable'
      BY DEF Restartable
    <2>1. pages = {file} /\ Lines(file) = at
      BY <1>1, <1>2, InsideAlone DEF IInv, Restartable
    <2>2. \A g \in {Appended(file, req[t])} \cup CutShort(file, req[t]) :
             Lines(g) = at \cup {req[t]}
      BY <2>1, WriteFile
    <2>3. \A g \in pages' : Lines(g) = at \/ Lines(g) = at \cup {req[t]}
      BY <1>3, <2>1, <2>2
    <2>4. Lines(file') = at \cup {req[t]} /\ Junk \notin at \cup {req[t]}
      BY <2>2, RequestAssumption DEF IInv, TypeOK
    <2> QED
      BY <1>1, <1>2, <2>3, <2>4, InsideAlone DEF IInv, Restartable
  <1> QED
    BY <1>4, <1>5, <1>6, <1>7, <1>8, <1>9, <1>10 DEF IInv

\* fsync returns.
LEMMA SyncKeeps ==
    ASSUME IInv, NEW t \in Threads, Sync(t), UNCHANGED faults
    PROVE  IInv'
  <1> USE DEF Sync, Goto, memory, history
  <1>1. Inside(t) /\ Written(t)
    BY DEF Inside, Written
  <1>2. /\ Inside(t)' /\ Written(t)' /\ pages' = {file}
        /\ \A u \in Threads \ {t} : ~ Inside(u)' /\ ~ Written(u)' /\ pc'[u] # "remember"
    BY <1>1, InsideAlone DEF IInv, TypeOK, Inside, Written
  <1>3. file \in pages
    BY DEF IInv, TypeOK
  <1>4. TypeOK'
    <2>1. \A u \in Threads : pc'[u] \in {"write", "sync", "remember"} <=> lock' = u
      BY DEF IInv, TypeOK
    <2> QED
      BY <2>1 DEF IInv, TypeOK
  <1>5. Stopped'
    BY <1>1, InsideAlone DEF Stopped
  <1>6. Book'
    BY <1>1, <1>2, InsideAlone DEF IInv, Book, HeadIsHighest, Keyed
  <1>7. Pages'
    BY <1>1, <1>2, <1>3 DEF IInv, Pages
  <1>8. Durable' /\ Evidence'
    BY <1>2, <1>3 DEF IInv, Durable, Evidence, OneHashPerSeq, ShownRecord
  <1>9. Restartable'
    BY <1>1, <1>2, <1>3, InsideAlone DEF IInv, Restartable
  <1> QED
    BY <1>4, <1>5, <1>6, <1>7, <1>8, <1>9 DEF IInv

\* The record that is remembered is new to the book and drops nothing from it.
LEMMA RememberedBook ==
    ASSUME IInv, NEW t \in Threads, Remember(t), UNCHANGED faults
    PROVE  /\ at' = at \cup {req[t]}
           /\ Keyed(at')
           /\ HeadIsHighest'
  <1> USE DEF Remember
  <1>1. /\ req[t] \in Requests /\ up
        /\ \A q \in at : q.chain = req[t].chain => q.seq < req[t].seq
    BY InsideAlone DEF Inside
  <1>2. at \in SUBSET Requests /\ Keyed(at) /\ heads \in [Chains -> (0..MaxSeq) \X Hashes \cup {NoHead}]
    BY <1>1 DEF IInv, TypeOK, Book
  <1>3. \A q \in at : ~ SameKey(q, req[t]) /\ ~ SameKey(req[t], q)
    BY <1>1, <1>2 DEF SameKey, Requests
  <1>4. at' = at \cup {req[t]}
    BY <1>3
  <1>5. Keyed(at')
    BY <1>2, <1>3, <1>4 DEF Keyed
  <1>6. ASSUME NEW c \in Chains
        PROVE  heads'[c] = Latest(at', c)
    <2>1. CASE c = req[t].chain
      <3>1. \A q \in at' : q.chain = req[t].chain => q.seq <= req[t].seq
        BY <1>1, <1>2, <1>4 DEF Requests
      <3>2. at' \in SUBSET Requests /\ req[t] \in at'
        BY <1>1, <1>2, <1>4
      <3> QED
        BY <1>2, <1>5, <2>1, <3>1, <3>2, HighestIsLatest
    <2>2. CASE c # req[t].chain
      <3>1. {r \in at' : r.chain = c} = {r \in at : r.chain = c}
        BY <1>4, <2>2
      <3>2. heads'[c] = heads[c] /\ heads[c] = Latest(at, c)
        BY <1>1, <1>2, <2>2 DEF IInv, Book, HeadIsHighest
      <3> QED
        BY <3>1, <3>2, LatestIsLocal
    <2> QED
      BY <2>1, <2>2
  <1> QED
    BY <1>4, <1>5, <1>6 DEF HeadIsHighest

\* The head in memory moves on, and the client is answered.
LEMMA RememberKeeps ==
    ASSUME IInv, NEW t \in Threads, Remember(t), UNCHANGED faults
    PROVE  IInv'
  <1> USE DEF Remember, Return, Goto, store
  <1>1. Inside(t) /\ Written(t) /\ req[t] \in Requests /\ up /\ ~ refused
    BY InsideAlone DEF Inside, Written
  <1>2. \A u \in Threads : ~ Inside(u)' /\ ~ Written(u)' /\ pc'[u] # "remember"
    BY <1>1, InsideAlone DEF IInv, TypeOK, Inside, Written
  <1>3. pages = {file}
    BY DEF IInv, Pages
  <1>4. at' = at \cup {req[t]} /\ Keyed(at') /\ HeadIsHighest'
    BY RememberedBook
  <1>5. TypeOK'
    <2>1. NoRequest \in Requests
      BY RequestAssumption DEF NoRequest
    <2>2. heads' \in [Chains -> (0..MaxSeq) \X Hashes \cup {NoHead}]
      BY <1>1 DEF IInv, TypeOK, Requests
    <2>3. \A u \in Threads : pc'[u] \in {"write", "sync", "remember"} <=> lock' = u
      BY <1>2, DistinctAssumption DEF Inside
    <2>4. at' \in SUBSET Requests /\ acked' \in SUBSET Requests
      BY <1>1, <1>4 DEF IInv, TypeOK
    <2> QED
      BY <2>1, <2>2, <2>3, <2>4 DEF IInv, TypeOK
  <1>6. Stopped'
    BY <1>1 DEF Stopped
  <1>7. Book'
    BY <1>2, <1>4 DEF Book
  <1>8. Pages'
    BY <1>2 DEF IInv, Pages
  <1>9. Durable'
    <2> SUFFICES ASSUME "tail" \notin faults
                 PROVE  Durable'
      BY DEF Durable
    <2>1. req[t] \in Lines(file)
      BY <1>1 DEF IInv, Pages
    <2>2. acked' \subseteq at' /\ at' \subseteq Lines(file)
      BY <1>1, <1>3, <1>4, <2>1 DEF IInv, Durable
    <2>3. OneHashPerSeq'
      BY <1>4, <2>2 DEF OneHashPerSeq, Keyed
    <2> QED
      BY <1>1, <1>3, <1>4, <2>2, <2>3 DEF IInv, Durable, ShownRecord
  <1>10. Evidence'
    BY <1>1, <1>3 DEF IInv, Pages, Evidence
  <1>11. Restartable'
    BY <1>1, <1>2, <1>3, <1>4 DEF IInv, Restartable
  <1> QED
    BY <1>5, <1>6, <1>7, <1>8, <1>9, <1>10, <1>11 DEF IInv

\* The write or the fsync raises.
LEMMA RaiseKeeps ==
    ASSUME IInv, NEW t \in Threads, Raise(t), UNCHANGED faults
    PROVE  IInv'
  <1> USE DEF Raise, Return, Goto, memory, history
  <1>1. Inside(t) /\ req[t] \in Requests /\ up /\ ~ refused /\ file \in pages
    <2>1. Inside(t)
      BY DEF Inside
    <2> QED
      BY <2>1, InsideAlone DEF IInv, TypeOK
  <1>2. \A u \in Threads : ~ Inside(u)' /\ ~ Written(u)' /\ pc'[u] # "remember"
    BY <1>1, InsideAlone DEF IInv, TypeOK, Inside, Written
  <1>3. \A g \in pages' : g \in pages \/ g \in CutShort(file, req[t])
    BY <1>1
  <1>4. TypeOK'
    <2>1. NoRequest \in Requests
      BY RequestAssumption DEF NoRequest
    <2>2. \A g \in pages' : g.lines \in Seq(Requests \cup {Junk}) /\ g.ended \in BOOLEAN
      BY <1>3, WriteFile DEF IInv, TypeOK, Line
    <2>3. file' \in pages' /\ pages' \cup {file'} = pages'
      BY <1>1
    <2>4. \A u \in Threads : pc'[u] \in {"write", "sync", "remember"} <=> lock' = u
      BY <1>2, DistinctAssumption DEF Inside
    <2> QED
      BY <2>1, <2>2, <2>3, <2>4 DEF IInv, TypeOK
  <1>5. Stopped'
    BY <1>1 DEF Stopped
  <1>6. Book'
    BY <1>1, <1>2 DEF IInv, Book, HeadIsHighest, Keyed
  <1>7. Pages'
    <2>1. \A g \in pages' : /\ ~ g.ended => g.lines # <<>>
                            /\ "tail" \notin faults => g.ended
      BY <1>3, WriteFile DEF IInv, Pages
    <2> QED
      BY <1>2, <2>1 DEF Pages
  <1>8. Durable'
    <2> SUFFICES ASSUME "tail" \notin faults
                 PROVE  Durable'
      BY DEF Durable
    <2>1. \A g \in pages' : g \in pages
      BY <1>3 DEF CutShort
    <2> QED
      BY <1>1, <2>1 DEF IInv, Durable, OneHashPerSeq, ShownRecord
  <1>9. Evidence'
    <2>1. \A g \in pages' : \/ g \in pages
                            \/ Lines(file) \subseteq Lines(g)
                            \/ Junk \in Lines(g)
      BY <1>3, WriteFile
    <2>2. acked \subseteq Lines(file) \/ Junk \in Lines(file)
      BY <1>1 DEF IInv, Evidence
    <2> QED
      BY <2>1, <2>2 DEF IInv, Evidence
  <1>10. Restartable'
    BY DEF Restartable
  <1> QED
    BY <1>4, <1>5, <1>6, <1>7, <1>8, <1>9, <1>10 DEF IInv

\* A head is the highest record held, so what head() answers is a record held.
LEMMA HeadIsHeld ==
    ASSUME IInv, up, NEW c \in Chains, heads[c] # NoHead
    PROVE  /\ [chain |-> c, seq |-> heads[c][1], hash |-> heads[c][2]] \in at
           /\ \A q \in at : q.chain = c => q.seq <= heads[c][1]
  <1>1. at \in SUBSET Requests /\ heads[c] = Latest(at, c)
    BY DEF IInv, TypeOK, Book, HeadIsHighest
  <1>2. PICK top \in at : /\ top.chain = c
                          /\ \A q \in at : q.chain = c => q.seq <= top.seq
                          /\ heads[c] = <<top.seq, top.hash>>
    BY <1>1, LatestIsHighest
  <1>3. top = [chain |-> c, seq |-> heads[c][1], hash |-> heads[c][2]]
    BY <1>1, <1>2 DEF Requests
  <1> QED
    BY <1>2, <1>3

\* An auditor is shown a head.
LEMMA ReadHeadKeeps ==
    ASSUME IInv, NEW c \in Chains, ReadHead(c), UNCHANGED faults
    PROVE  IInv'
  <1> USE DEF ReadHead, store, memory, calls
  <1>1. TypeOK'
    <2>1. shown' \in [Chains -> (0..MaxSeq) \X Hashes \cup {NoHead}]
      BY DEF IInv, TypeOK
    <2> QED
      BY <2>1 DEF IInv, TypeOK
  <1>2. Stopped' /\ Book' /\ Pages' /\ Evidence' /\ Restartable'
    BY DEF IInv, Stopped, Book, Pages, Evidence, Restartable, HeadIsHighest, Keyed, Inside, Written
  <1>3. Durable'
    <2> SUFFICES ASSUME "tail" \notin faults
                 PROVE  Durable'
      BY DEF Durable
    <2>1. ASSUME NEW d \in Chains, shown'[d] # NoHead
          PROVE  ShownRecord(d)' \in at
      <3>1. CASE d = c
        BY <2>1, <3>1, HeadIsHeld DEF IInv, TypeOK, ShownRecord
      <3>2. CASE d # c
        BY <2>1, <3>2 DEF IInv, Durable, TypeOK, ShownRecord
      <3> QED
        BY <3>1, <3>2
    <2> QED
      BY <2>1 DEF IInv, Durable, OneHashPerSeq
  <1> QED
    BY <1>1, <1>2, <1>3 DEF IInv

\* The process dies with any content that was possible at that moment.
LEMMA CrashKeeps ==
    ASSUME IInv, Crash, UNCHANGED faults
    PROVE  IInv'
  <1> USE DEF Crash, memory, history
  <1>1. \A u \in Threads : ~ Inside(u)' /\ ~ Written(u)' /\ pc'[u] = "idle"
    BY DEF Inside, Written
  <1>2. file' \in pages /\ pages' = {file'} /\ ~ up' /\ ~ refused'
    BY DEF IInv, Stopped
  <1>3. TypeOK'
    <2>1. NoRequest \in Requests
      BY RequestAssumption DEF NoRequest
    <2>2. \A u \in Threads : pc'[u] \in {"write", "sync", "remember"} <=> lock' = u
      BY DistinctAssumption
    <2> QED
      BY <2>1, <2>2 DEF IInv, TypeOK
  <1>4. Stopped' /\ Book'
    BY <1>1, <1>2 DEF Stopped, Book
  <1>5. Pages' /\ Durable' /\ Evidence'
    BY <1>1, <1>2 DEF IInv, Pages, Durable, Evidence, OneHashPerSeq, ShownRecord
  <1>6. Restartable'
    <2> SUFFICES ASSUME faults \subseteq {"crash"}
                 PROVE  Restartable'
      BY DEF Restartable
    <2>1. CASE Lines(file') = at
      BY <1>1, <1>2, <2>1 DEF IInv, Restartable, Book
    <2>2. ASSUME NEW t \in Threads, Written(t), Lines(file') = at \cup {req[t]}
          PROVE  Restartable'
      <3>1. /\ Keyed(at) /\ at \in SUBSET Requests /\ req[t] \in Requests
            /\ \A q \in at : q.chain = req[t].chain => q.seq < req[t].seq
        <4>1. Inside(t)
          BY <2>2 DEF Inside, Written
        <4> QED
          BY <4>1, InsideAlone DEF IInv, Book, TypeOK
      <3>2. \A q \in at : ~ SameKey(q, req[t]) /\ ~ SameKey(req[t], q)
        BY <3>1 DEF SameKey, Requests
      <3>3. Keyed(at \cup {req[t]})
        BY <3>1, <3>2 DEF Keyed
      <3> QED
        BY <1>1, <1>2, <2>2, <3>3 DEF IInv, Restartable, Keyed
    <2> QED
      BY <1>2, <2>1, <2>2 DEF IInv, Restartable
  <1> QED
    BY <1>3, <1>4, <1>5, <1>6 DEF IInv

\* A replay without a corrupt line holds the lines, no two of them at odds.
LEMMA ReplayedIsKeyed ==
    ASSUME ~ Unreadable(file)
    PROVE  Keyed(Replayed(file))
  BY DEF Unreadable, Keyed, SameKey

\* The replay takes the file, or refuses it.
LEMMA RecoverKeeps ==
    ASSUME IInv, Recover, UNCHANGED faults
    PROVE  IInv'
  <1> USE DEF Recover, store, memory, calls, history
  <1>1. /\ ~ up /\ ~ refused /\ pages = {file}
        /\ \A u \in Threads : /\ ~ Inside(u) /\ ~ Inside(u)'
                              /\ ~ Written(u) /\ ~ Written(u)' /\ pc'[u] = "idle"
    BY DEF IInv, Stopped, Inside, Written
  <1>2. Lines(file) \in SUBSET Line /\ Replayed(file) \in SUBSET Requests
    <2>1. file.lines \in Seq(Line)
      BY DEF IInv, TypeOK, Line
    <2>2. \A i \in DOMAIN file.lines : file.lines[i] \in Line
      BY <2>1, ElementOfSeq
    <2> QED
      BY <2>2 DEF Lines, ToSet, Replayed, Line
  <1>3. CASE Unreadable(file)
    <2>1. ~ (faults \subseteq {"crash"})
      <3>1. ASSUME faults \subseteq {"crash"}
            PROVE  ~ Unreadable(file)
        <4>1. Junk \notin Lines(file) /\ Keyed(Lines(file))
          BY <1>1, <3>1 DEF IInv, Restartable
        <4>2. \A i \in DOMAIN file.lines : file.lines[i] # Junk
          BY <4>1 DEF Lines, ToSet
        <4>3. Keyed(Replayed(file))
          BY <4>1 DEF Keyed, Replayed, Lines
        <4> QED
          BY <4>2, <4>3 DEF Unreadable, Keyed
      <3> QED
        BY <1>3, <3>1
    <2>2. TypeOK' /\ Stopped' /\ Book' /\ Pages'
      BY <1>1, <1>3 DEF IInv, TypeOK, Stopped, Book, Pages
    <2>3. Durable' /\ Evidence' /\ Restartable'
      BY <1>1, <1>3, <2>1 DEF IInv, Durable, Evidence, Restartable, OneHashPerSeq, ShownRecord
    <2> QED
      BY <2>2, <2>3 DEF IInv
  <1>4. CASE ~ Unreadable(file)
    <2>1. up' = TRUE /\ at' = Replayed(file) /\ Keyed(at') /\ ~ refused'
      BY <1>1, <1>4, ReplayedIsKeyed
    <2>2. HeadIsHighest'
      BY <1>4, <2>1 DEF HeadIsHighest
    <2>3. TypeOK'
      <3>1. ASSUME NEW c \in Chains
            PROVE  Latest(Replayed(file), c) \in (0..MaxSeq) \X Hashes \cup {NoHead}
        BY <1>2, LatestIsHighest DEF Requests
      <3>2. heads' \in [Chains -> (0..MaxSeq) \X Hashes \cup {NoHead}]
        BY <1>4, <3>1
      <3> QED
        BY <1>2, <2>1, <3>2 DEF IInv, TypeOK
    <2>4. Stopped' /\ Book' /\ Pages'
      BY <1>1, <2>1, <2>2 DEF IInv, Stopped, Book, Pages
    <2>5. Durable'
      <3> SUFFICES ASSUME "tail" \notin faults
                   PROVE  Durable'
        BY DEF Durable
      <3>1. acked \subseteq Requests
        BY DEF IInv, TypeOK
      <3>2. \A c \in Chains : shown[c] # NoHead => ShownRecord(c) \in Requests
        BY DEF IInv, TypeOK, ShownRecord, Requests
      <3>3. /\ acked \subseteq at'
            /\ \A c \in Chains : shown[c] # NoHead => ShownRecord(c) \in at'
        BY <1>1, <2>1, <3>1, <3>2, RequestAssumption DEF IInv, Durable, Replayed, Lines
      <3>4. at' \subseteq Lines(file)
        BY <2>1 DEF Replayed, Lines
      <3> QED
        BY <1>1, <3>3, <3>4 DEF IInv, Durable, OneHashPerSeq, ShownRecord
    <2>6. Evidence'
      BY DEF IInv, Evidence
    <2>7. Restartable'
      <3> SUFFICES ASSUME faults \subseteq {"crash"}
                   PROVE  Restartable'
        BY DEF Restartable
      <3>1. Lines(file) = at'
        BY <1>1, <2>1 DEF IInv, Restartable, Replayed, Lines
      <3> QED
        BY <1>1, <2>1, <3>1 DEF IInv, Restartable
    <2> QED
      BY <2>3, <2>4, <2>5, <2>6, <2>7 DEF IInv
  <1> QED
    BY <1>3, <1>4

-----------------------------------------------------------------------------

\* Every step keeps the invariant, and one that changes nothing does.
LEMMA StepKeeps ==
    ASSUME IInv, [Next]_vars
    PROVE  IInv'
  <1>1. CASE UNCHANGED vars
    BY <1>1 DEF IInv, TypeOK, Stopped, Book, Pages, Durable, Evidence, Restartable, HeadIsHighest,
                Keyed, OneHashPerSeq, ShownRecord, Inside, Written,
                vars, store, memory, calls, history
  <1>2. CASE Next
    BY <1>2, SubmitKeeps, EnterKeeps, WriteKeeps, SyncKeeps, RememberKeeps, RaiseKeeps,
       ReadHeadKeeps, CrashKeeps, RecoverKeeps DEF Next
  <1> QED
    BY <1>1, <1>2

\* The inductive invariant holds at every moment (notary.py:101-184).
THEOREM Invariant == Spec => []IInv
  BY InitKeeps, StepKeeps, PTL DEF Spec

\* Every variable keeps its type, and the lock is held by the thread that is between
\* the check and the answer, and by no other (notary.py:153-167).
THEOREM TypeCorrect == Spec => []TypeOK
  <1>1. IInv => TypeOK
    BY DEF IInv
  <1> QED
    BY <1>1, Invariant, PTL

\* What submit() acknowledged is held for ever, through any number of crashes, and of
\* writes that raise, at whatever moment (notary.py:104-106).
THEOREM AckedSurviveCorrect == Spec => []AckedSurvive
  <1>1. IInv => AckedSurvive
    BY DEF IInv, Durable, AckedSurvive
  <1> QED
    BY <1>1, Invariant, PTL

\* No head() goes back on an earlier one (notary.py:17-20).
THEOREM ShownHeadsStandCorrect == Spec => []ShownHeadsStand
  <1>1. ASSUME IInv, "tail" \notin faults, up, NEW c \in Chains, shown[c] # NoHead
        PROVE  ShownRecord(c) \in at /\ shown[c][1] <= heads[c][1]
    <2>1. ShownRecord(c) \in at
      BY <1>1 DEF IInv, Durable
    <2>2. heads[c] = Latest(at, c) /\ at \in SUBSET Requests
      BY <1>1 DEF IInv, TypeOK, Book, HeadIsHighest
    <2>3. PICK top \in at : /\ \A q \in at : q.chain = c => q.seq <= top.seq
                            /\ Latest(at, c) = <<top.seq, top.hash>>
      BY <2>1, <2>2, LatestIsHighest DEF ShownRecord
    <2> QED
      BY <2>1, <2>2, <2>3 DEF ShownRecord
  <1>2. IInv => ShownHeadsStand
    BY <1>1 DEF ShownHeadsStand, ShownRecord
  <1> QED
    BY <1>2, Invariant, PTL

\* The head of a chain is the highest record held of it, after any replay and whatever
\* was raised or torn before (notary.py:146-150).
THEOREM HeadIsHighestCorrect == Spec => []HeadIsHighest
  <1>1. IInv => HeadIsHighest
    BY DEF IInv, Book, HeadIsHighest
  <1> QED
    BY <1>1, Invariant, PTL

\* A process that only ever dies finds a file it can replay (notary.py:105-106).
THEOREM ReopenableCorrect == Spec => []Reopenable
  <1>1. IInv => Reopenable
    BY DEF IInv, Restartable, Reopenable
  <1> QED
    BY <1>1, Invariant, PTL

\* Whatever the disk does, a record that was acknowledged and is no longer in the file
\* left a corrupt line there.
THEOREM LossLeavesEvidenceCorrect == Spec => []LossLeavesEvidence
  <1>1. IInv => LossLeavesEvidence
    BY DEF IInv, TypeOK, Evidence, LossLeavesEvidence, Lines
  <1> QED
    BY <1>1, Invariant, PTL

\* No two acknowledgements give one seq of a chain two hashes, unless a write is cut
\* short: run NotaryTornTail shows what happens then (notary.py:137-139).
THEOREM OneHashPerSeqUnlessTorn == Spec => []("tail" \notin faults => OneHashPerSeq)
  <1>1. IInv => ("tail" \notin faults => OneHashPerSeq)
    BY DEF IInv, Durable
  <1> QED
    BY <1>1, Invariant, PTL

-----------------------------------------------------------------------------

\* Every step is one head taken in order by the witness, or none: a record enters the
\* book when it is remembered, or when the process dies with its line in the file.
LEMMA StepRefines ==
    ASSUME IInv, IInv', [Next]_vars, faults \subseteq {"crash"}
    PROVE  W!Next \/ UNCHANGED Held
  <1> USE DEF Held
  <1>1. W!Heads = Requests
    BY DEF W!Heads, Requests
  <1>2. ASSUME NEW t \in Threads, Inside(t), Held = at, Held' = at \cup {req[t]}
        PROVE  W!Next
    BY <1>1, <1>2, InsideAlone DEF W!Next, W!Accept
  <1>3. ASSUME NEW t \in Threads, Remember(t)
        PROVE  W!Next
    <2>1. Inside(t) /\ up /\ up'
      BY <1>3, InsideAlone DEF Remember, Inside
    <2> QED
      BY <1>2, <1>3, <2>1, RememberedBook DEF Next, Remember, vars, store
  <1>4. CASE Crash
    <2>1. up /\ ~ up' /\ file' \in pages
      BY <1>4 DEF Crash
    <2>2. Held = at /\ Held' = Lines(file')
      BY <2>1 DEF IInv, Restartable, Replayed, Lines
    <2>3. CASE Lines(file') = at
      BY <2>2, <2>3
    <2>4. ASSUME NEW t \in Threads, Written(t), Lines(file') = at \cup {req[t]}
          PROVE  W!Next
      BY <1>2, <2>2, <2>4 DEF Inside, Written
    <2> QED
      BY <2>1, <2>3, <2>4 DEF IInv, Restartable
  <1>5. CASE Recover
    <2>1. ~ up /\ (Unreadable(file) => refused')
      BY <1>5 DEF Recover
    <2>2. ~ refused'
      BY <1>5 DEF IInv, Restartable, Next, vars, Recover
    <2> QED
      BY <1>5, <2>1, <2>2 DEF Recover
  <1>6. ASSUME UNCHANGED <<up, at>>, up
        PROVE  UNCHANGED Held
    BY <1>6
  <1>7. ASSUME NEW t \in Threads,
               \/ \E r \in Requests : Submit(t, r)
               \/ Enter(t) \/ Write(t) \/ Sync(t) \/ Raise(t)
        PROVE  UNCHANGED Held
    <2>1. up
      BY <1>7 DEF IInv, Stopped, Submit, Enter, Write, Sync, Raise
    <2> QED
      BY <1>6, <1>7, <2>1 DEF Submit, Enter, Write, Sync, Raise, memory
  <1>8. ASSUME NEW c \in Chains, ReadHead(c)
        PROVE  UNCHANGED Held
    BY <1>6, <1>8 DEF ReadHead, memory
  <1>9. CASE UNCHANGED vars
    BY <1>9 DEF vars, store, memory, Replayed
  <1> QED
    BY <1>3, <1>4, <1>5, <1>7, <1>8, <1>9 DEF Next

\* Lock, fsync and replay together implement the append-only witness, wherever the
\* process may die (notary.py:14-20, 101-107).
THEOREM Implementation == Spec => Contract
  <1>1. Init => W!Init
    BY DEF Init, W!Init, Held
  <1>2. IInv /\ IInv' /\ [Next]_vars => [faults \subseteq {"crash"} => W!Next]_Held
    BY StepRefines
  <1> QED
    BY <1>1, <1>2, Invariant, PTL DEF Spec, Contract
=============================================================================
