---------------------------- MODULE NotaryLedger ----------------------------
(***************************************************************************)
(* NotaryLedger (notary.py:101-184): the heads a notary was given, in      *)
(* memory and in a file that a restart replays.  A submission takes the    *)
(* lock, checks, writes, fsyncs and remembers; the process may die between *)
(* any two of these.                                                       *)
(*                                                                         *)
(* The requests are those that passed dispatch's type and MAC checks.      *)
(***************************************************************************)
EXTENDS Integers, Sequences, SequencesExt

CONSTANTS
    Threads,      \* connections served
    Chains, Hashes,
    Junk,         \* a line json.loads refuses
    Genesis,      \* the hash head() answers for an unknown chain
    NoThread,     \* holds the lock when nobody does
    MaxSeq,       \* bound: the seqs submitted
    MaxLines,     \* bound: no new submission once the file has so many lines
    Environments  \* the subsets of FaultKinds to be met with

FaultKinds ==
    {"crash",     \* the process dies between two steps
     "tail",      \* what a write leaves may be cut short
     "io"}        \* write or fsync raises

ASSUME FaultAssumption == Environments \subseteq SUBSET FaultKinds
ASSUME BoundAssumption == MaxSeq \in Nat /\ MaxLines \in Nat
ASSUME DistinctAssumption == Genesis \notin Hashes /\ NoThread \notin Threads

Requests == [chain : Chains, seq : 0..MaxSeq, hash : Hashes]

ASSUME RequestAssumption == Requests # {} /\ Junk \notin Requests

VARIABLES
    faults,       \* what the environment may do, of FaultKinds
    file,         \* the lines, and whether the last one is terminated
    pages,        \* the contents of the file a crash now may leave
    up, refused,  \* a ledger object exists; its construction raised
    heads, at,    \* _heads; _at, as the set of its records
    lock,
    pc, req,      \* per thread
    acked,        \* history: the records submit() answered (True, "ok")
    shown         \* history: per chain the last answer of head()

store == <<file, pages>>
memory == <<heads, at>>
calls == <<lock, pc, req>>
history == <<acked, shown>>
vars == <<faults, store, up, refused, memory, calls, history>>

-----------------------------------------------------------------------------

NoHead == <<-1, Genesis>>

\* What req holds for a thread with no submission.
NoRequest == CHOOSE r \in Requests : TRUE

SameKey(q, r) == q.chain = r.chain /\ q.seq = r.seq

\* slip: only a smaller seq is refused
RegressesStrictly(r) == r.seq < heads[r.chain][1]

Regresses(r) == heads[r.chain] # NoHead /\ r.seq <= heads[r.chain][1]

Appended(f, l) ==
    [lines |-> IF f.ended THEN Append(f.lines, l)
                          ELSE [f.lines EXCEPT ![Len(f.lines)] = Junk],
     ended |-> TRUE]

\* A fragment of the line, or all of it but the newline.
CutShort(f, l) ==
    IF "tail" \in faults
    THEN {[Appended(f, x) EXCEPT !.ended = FALSE] : x \in {Junk, l}}
    ELSE {}

Replayed(f) == ToSet(f.lines) \ {Junk}

\* _recover() raises: a corrupt line before the last one, or two hashes at one
\* (chain, seq).
Unreadable(f) ==
    \/ \E i \in DOMAIN f.lines : i < Len(f.lines) /\ f.lines[i] = Junk
    \/ \E q, r \in Replayed(f) : SameKey(q, r) /\ q.hash # r.hash

Latest(S, c) ==
    LET mine == {r \in S : r.chain = c}
    IN IF mine = {} THEN NoHead
       ELSE LET top == CHOOSE r \in mine : \A q \in mine : q.seq <= r.seq
            IN <<top.seq, top.hash>>

-----------------------------------------------------------------------------

Init ==
    /\ faults \in Environments
    /\ file = [lines |-> <<>>, ended |-> TRUE]
    /\ pages = {file}
    /\ up = TRUE /\ refused = FALSE
    /\ heads = [c \in Chains |-> NoHead] /\ at = {}
    /\ lock = NoThread
    /\ pc = [t \in Threads |-> "idle"]
    /\ req = [t \in Threads |-> NoRequest]
    /\ acked = {} /\ shown = [c \in Chains |-> NoHead]

Goto(t, l) == pc' = [pc EXCEPT ![t] = l]

Return(t) == Goto(t, "idle") /\ req' = [req EXCEPT ![t] = NoRequest]

Submit(t, r) ==
    /\ up /\ pc[t] = "idle"
    /\ Len(file.lines) < MaxLines
    /\ req' = [req EXCEPT ![t] = r]
    /\ Goto(t, "submit")
    /\ UNCHANGED <<store, up, refused, memory, lock, history>>

\* slip: the head is compared before the lock is taken
EnterUnlocked(t) ==
    /\ pc[t] = "submit"
    /\ IF Regresses(req[t]) THEN Return(t) ELSE Goto(t, "write") /\ UNCHANGED req
    /\ UNCHANGED <<store, up, refused, memory, lock, history>>

Enter(t) ==
    /\ pc[t] = "submit"
    /\ lock = NoThread
    /\ IF Regresses(req[t])
       THEN Return(t) /\ UNCHANGED lock
       ELSE Goto(t, "write") /\ lock' = t /\ UNCHANGED req
    /\ UNCHANGED <<store, up, refused, memory, history>>

Write(t) ==
    /\ pc[t] = "write"
    /\ file' = Appended(file, req[t])
    /\ pages' = pages \cup {file'} \cup CutShort(file, req[t])
    /\ Goto(t, "sync")
    /\ UNCHANGED <<up, refused, memory, lock, req, history>>

\* slip: flush() without fsync()
FlushOnly(t) ==
    /\ pc[t] = "sync"
    /\ Goto(t, "remember")
    /\ UNCHANGED <<store, up, refused, memory, lock, req, history>>

Sync(t) ==
    /\ pc[t] = "sync"
    /\ pages' = {file}
    /\ Goto(t, "remember")
    /\ UNCHANGED <<file, up, refused, memory, lock, req, history>>

Remember(t) ==
    /\ pc[t] = "remember"
    /\ heads' = [heads EXCEPT ![req[t].chain] = <<req[t].seq, req[t].hash>>]
    /\ at' = {q \in at : ~ SameKey(q, req[t])} \cup {req[t]}
    /\ acked' = acked \cup {req[t]}
    /\ lock' = NoThread
    /\ Return(t)
    /\ UNCHANGED <<store, up, refused, shown>>

\* slip: the lock is released on the good path only
RaiseHoldingLock(t) ==
    /\ "io" \in faults
    /\ pc[t] = "sync"
    /\ Return(t)
    /\ UNCHANGED <<store, up, refused, memory, lock, history>>

\* write, flush or fsync raises: the lock is released, nothing is remembered, and
\* the line stays in the file as far as it got.
Raise(t) ==
    /\ "io" \in faults
    /\ \/ /\ pc[t] = "write"
          /\ file' \in {file} \cup CutShort(file, req[t])
       \/ /\ pc[t] = "sync"
          /\ UNCHANGED file
    /\ pages' = pages \cup {file'}
    /\ lock' = NoThread
    /\ Return(t)
    /\ UNCHANGED <<up, refused, memory, history>>

\* head() takes the lock too.
ReadHead(c) ==
    /\ up
    /\ lock = NoThread
    /\ shown' = [shown EXCEPT ![c] = heads[c]]
    /\ UNCHANGED <<store, up, refused, memory, calls, acked>>

Crash ==
    /\ "crash" \in faults
    /\ up
    /\ up' = FALSE
    /\ file' \in pages
    /\ pages' = {file'}
    /\ lock' = NoThread
    /\ pc' = [t \in Threads |-> "idle"]
    /\ req' = [t \in Threads |-> NoRequest]
    /\ UNCHANGED <<refused, memory, history>>

\* slip: the last line wins, not the highest seq
RecoverLastLine ==
    LET mine(c) == SelectSeq(file.lines, LAMBDA l : l # Junk /\ l.chain = c)
    IN /\ ~ up /\ ~ refused
       /\ refused' = Unreadable(file) /\ up' = ~ refused'
       /\ at' = Replayed(file)
       /\ heads' = [c \in Chains |-> IF mine(c) = <<>> THEN NoHead
                                     ELSE <<Last(mine(c)).seq, Last(mine(c)).hash>>]
       /\ UNCHANGED <<store, calls, history>>

\* slip: at() is rebuilt from the heads alone
RecoverOnlyHeads ==
    LET top == {r \in Replayed(file) : <<r.seq, r.hash>> = Latest(Replayed(file), r.chain)}
    IN /\ ~ up /\ ~ refused
       /\ refused' = Unreadable(file) /\ up' = ~ refused'
       /\ at' = top
       /\ heads' = [c \in Chains |-> Latest(top, c)]
       /\ UNCHANGED <<store, calls, history>>

\* A new object replays the file; it repairs nothing in it.
Recover ==
    /\ ~ up /\ ~ refused
    /\ IF Unreadable(file)
       THEN /\ refused' = TRUE
            /\ UNCHANGED <<up, memory>>
       ELSE /\ up' = TRUE
            /\ at' = Replayed(file)
            /\ heads' = [c \in Chains |-> Latest(Replayed(file), c)]
            /\ UNCHANGED refused
    /\ UNCHANGED <<store, calls, history>>

Next ==
    /\ \/ \E t \in Threads :
            \/ \E r \in Requests : Submit(t, r)
            \/ Enter(t) \/ Write(t) \/ Sync(t) \/ Remember(t) \/ Raise(t)
       \/ \E c \in Chains : ReadHead(c)
       \/ Crash
       \/ Recover
    /\ UNCHANGED faults

Spec == Init /\ [][Next]_vars

-----------------------------------------------------------------------------

TypeOK ==
    /\ \A f \in pages \cup {file} :
         /\ f.lines \in Seq(Requests \cup {Junk})
         /\ f.ended \in BOOLEAN
    /\ faults \in Environments
    /\ file \in pages
    /\ up \in BOOLEAN /\ refused \in BOOLEAN
    /\ heads \in [Chains -> (0..MaxSeq) \X Hashes \cup {NoHead}]
    /\ at \in SUBSET Requests
    /\ \A t \in Threads : pc[t] \in {"write", "sync", "remember"} <=> lock = t
    /\ pc \in [Threads -> {"idle", "submit", "write", "sync", "remember"}]
    /\ req \in [Threads -> Requests]
    /\ acked \in SUBSET Requests
    /\ shown \in [Chains -> (0..MaxSeq) \X Hashes \cup {NoHead}]

\* An acknowledged head is held for ever, through restarts: "every accepted head
\* is fsync'd before it is acknowledged" (notary.py:104-106).
AckedSurvive == "tail" \notin faults /\ up => acked \subseteq at

\* What head() once answered, no later head() goes back on (notary.py:17-20).
ShownHeadsStand ==
    "tail" \notin faults /\ up => \A c \in Chains :
            shown[c] # NoHead =>
                /\ [chain |-> c, seq |-> shown[c][1], hash |-> shown[c][2]] \in at
                /\ shown[c][1] <= heads[c][1]

\* head() and at() tell of one history: the head is the highest seq held, after a
\* replay of lines that are out of order too (notary.py:146-150).
HeadIsHighest == up => \A c \in Chains : heads[c] = Latest(at, c)

\* "An append-only witness must never hold two DIFFERENT hashes at the same
\* (chain, seq)" (notary.py:137-138): no two acknowledgements give one seq of a
\* chain two hashes, the restarts between them notwithstanding.
OneHashPerSeq == \A q, r \in acked : SameKey(q, r) => q.hash = r.hash

\* The ledger can be reopened whatever moment the process died at (notary.py:105-106);
\* a write that raised may leave a line that bars it.
Reopenable == faults \subseteq {"crash"} => ~ refused

\* An acknowledged head that is not in the file any more left a corrupt line.
LossLeavesEvidence == acked \subseteq ToSet(file.lines) \/ Junk \in ToSet(file.lines)

\* What a restart would hold, or what the object holds.
Held == IF up THEN at ELSE Replayed(file)

W == INSTANCE Witness WITH Seqs <- 0..MaxSeq, book <- Held

\* Locks, fsyncs and restarts together are an append-only witness: where the
\* process may only die, every step is one head taken in order, or none
\* (notary.py:14-20, 101-107).
Contract == W!Init /\ [][faults \subseteq {"crash"} => W!Next]_Held
=============================================================================
