----------------------------- MODULE AuditChain -----------------------------
(***************************************************************************)
(* HashChainedAudit (audit_chain.py): a file of hash-linked lines, the     *)
(* head of it kept in memory, and an optional sink the head is published   *)
(* to.  record() takes no lock, so its reads, its write and its update of  *)
(* the head are separate steps here.                                       *)
(*                                                                         *)
(* A hash is the tuple of what is hashed: equal hashes mean equal entries. *)
(* A body stands for the other hashed fields of an entry, its timestamp    *)
(* included.                                                               *)
(***************************************************************************)
EXTENDS Integers, Sequences, SequencesExt

CONSTANTS
    Writers,      \* threads that call record()
    Bodies,       \* what an entry is about
    NoBody,       \* of the entry a writer is not writing
    Junk,         \* a line json.loads refuses
    MaxLines,     \* bound: no new record() once the head's seq has reached it
    Environments  \* the subsets of FaultKinds to be met with

FaultKinds ==
    {"crash",     \* the process dies between two steps
     "torn",      \* a write is cut short, by a full disk or a power failure
     "anchor",    \* the sink raises, before or after it took the head
     "alter"}     \* the file is changed once behind the log's back

ASSUME FaultAssumption == Environments \subseteq SUBSET FaultKinds
ASSUME BoundAssumption == MaxLines \in Nat /\ NoBody \notin Bodies

VARIABLES
    faults,       \* what the environment may do, of FaultKinds
    file,         \* the lines on disk
    newline,      \* whether the last line is terminated
    phase,        \* the object: "up", "down" (no object), "refused" (reopening raised)
    next_seq, last_hash,
    pc, entry,    \* per writer
    recorded,     \* history: the entries this object found or wrote, in order
    returned,     \* history: the entries whose record() returned
    anchored,     \* history: the <<seq, hash>> heads the sink took, in order
    altered       \* history: the file was changed behind the log's back

head == <<next_seq, last_hash>>
disk == <<file, newline>>
calls == <<pc, entry>>
history == <<recorded, returned, anchored, altered>>
vars == <<faults, disk, phase, head, calls, history>>

-----------------------------------------------------------------------------

Genesis == <<>>

CanonicalHash(seq, body, prev) == <<seq, body, prev>>

Entry(seq, body, prev) ==
    [seq |-> seq, body |-> body, prev |-> prev, hash |-> CanonicalHash(seq, body, prev)]

NoEntry == Entry(-1, NoBody, Genesis)

HashAt(f, i) == IF i = 0 THEN Genesis ELSE f[i].hash

\* slip: the link to the line before is not compared
IntactUnlinked(f) ==
    \A i \in DOMAIN f :
        /\ f[i] # Junk
        /\ f[i].seq = i - 1
        /\ f[i].hash = CanonicalHash(f[i].seq, f[i].body, f[i].prev)

\* verify_detail answers (True, "ok").
Intact(f) ==
    \A i \in DOMAIN f :
        /\ f[i] # Junk
        /\ f[i].seq = i - 1
        /\ f[i].prev = HashAt(f, i - 1)
        /\ f[i].hash = CanonicalHash(f[i].seq, f[i].body, f[i].prev)

FileHead(f) == <<Len(f) - 1, HashAt(f, Len(f))>>

\* Opening in mode "a": what follows an unterminated line becomes part of it.
Appended(f, terminated, e) ==
    IF terminated THEN Append(f, e) ELSE [f EXCEPT ![Len(f)] = Junk]

\* What a write that is cut short leaves: a fragment, or all but the newline.
CutShort(e) ==
    \E l \in {Junk, e} :
        /\ file' = Appended(file, newline, l)
        /\ newline' = FALSE

-----------------------------------------------------------------------------

Init ==
    /\ faults \in Environments
    /\ file = <<>> /\ newline = TRUE
    /\ phase = "up"
    /\ next_seq = 0 /\ last_hash = Genesis
    /\ pc = [w \in Writers |-> "idle"]
    /\ entry = [w \in Writers |-> NoEntry]
    /\ recorded = <<>> /\ returned = {} /\ anchored = <<>>
    /\ altered = FALSE

Goto(w, l) == pc' = [pc EXCEPT ![w] = l]

Return(w) ==
    /\ Goto(w, "idle")
    /\ entry' = [entry EXCEPT ![w] = NoEntry]

Record(w, b) ==
    /\ phase = "up"
    /\ pc[w] = "idle"
    /\ next_seq < MaxLines
    /\ entry' = [entry EXCEPT ![w] = Entry(next_seq, b, last_hash)]
    /\ Goto(w, "write")
    /\ UNCHANGED <<disk, phase, head, history>>

\* slip: the line stays in a buffer the process still holds
WriteBuffered(w) ==
    /\ pc[w] = "write"
    /\ recorded' = Append(recorded, entry[w])
    /\ Goto(w, "advance")
    /\ UNCHANGED <<disk, phase, head, entry, returned, anchored, altered>>

Write(w) ==
    /\ pc[w] = "write"
    /\ file' = Appended(file, newline, entry[w])
    /\ newline' = TRUE
    /\ recorded' = Append(recorded, entry[w])
    /\ Goto(w, "advance")
    /\ UNCHANGED <<phase, head, entry, returned, anchored, altered>>

\* The write raises: record() propagates, the head in memory stays.
WriteRaises(w) ==
    /\ "torn" \in faults
    /\ pc[w] = "write"
    /\ CutShort(entry[w]) \/ UNCHANGED disk
    /\ Return(w)
    /\ UNCHANGED <<phase, head, history>>

\* slip: the head's hash is moved on, its seq is not
AdvanceHashOnly(w) ==
    /\ pc[w] = "advance"
    /\ last_hash' = entry[w].hash
    /\ Goto(w, "publish")
    /\ UNCHANGED <<disk, phase, next_seq, entry, history>>

\* slip: the counter is moved on at both ends of record()
AdvanceTwice(w) ==
    /\ pc[w] = "advance"
    /\ last_hash' = entry[w].hash
    /\ next_seq' = next_seq + 2
    /\ Goto(w, "publish")
    /\ UNCHANGED <<disk, phase, entry, history>>

\* _next_seq += 1 reads the counter again: it adds to what is there now.
Advance(w) ==
    /\ pc[w] = "advance"
    /\ last_hash' = entry[w].hash
    /\ next_seq' = next_seq + 1
    /\ Goto(w, "publish")
    /\ UNCHANGED <<disk, phase, entry, history>>

\* slip: what the head has become since is published, not what was written
PublishAhead(w) ==
    /\ pc[w] = "publish"
    /\ anchored' = Append(anchored, <<next_seq, last_hash>>)
    /\ returned' = returned \cup {entry[w]}
    /\ Return(w)
    /\ UNCHANGED <<disk, phase, head, recorded, altered>>

Publish(w) ==
    /\ pc[w] = "publish"
    /\ anchored' = Append(anchored, <<entry[w].seq, entry[w].hash>>)
    /\ returned' = returned \cup {entry[w]}
    /\ Return(w)
    /\ UNCHANGED <<disk, phase, head, recorded, altered>>

\* The sink raises, whether or not it took the head; the line is written.
PublishRaises(w) ==
    /\ "anchor" \in faults
    /\ pc[w] = "publish"
    /\ anchored' \in {anchored, Append(anchored, <<entry[w].seq, entry[w].hash>>)}
    /\ Return(w)
    /\ UNCHANGED <<disk, phase, head, recorded, returned, altered>>

\* The process dies; a write under way is cut short when "torn" is allowed.
Crash ==
    /\ "crash" \in faults
    /\ phase = "up"
    /\ \/ UNCHANGED disk
       \/ /\ "torn" \in faults
          /\ \E w \in Writers : pc[w] = "write" /\ CutShort(entry[w])
    /\ phase' = "down"
    /\ pc' = [w \in Writers |-> "idle"]
    /\ entry' = [w \in Writers |-> NoEntry]
    /\ UNCHANGED <<head, history>>

\* slip: the counter is not carried over
ReopenAtZero ==
    /\ phase = "down"
    /\ IF Intact(file)
       THEN phase' = "up" /\ next_seq' = 0 /\ last_hash' = HashAt(file, Len(file))
       ELSE phase' = "refused" /\ UNCHANGED head
    /\ recorded' = file
    /\ UNCHANGED <<disk, calls, returned, anchored, altered>>

\* A new object on the file: the chain is validated, then its tail adopted.  The
\* new object vouches for what it found.
Reopen ==
    /\ phase = "down"
    /\ IF Intact(file)
       THEN /\ phase' = "up"
            /\ next_seq' = FileHead(file)[1] + 1
            /\ last_hash' = FileHead(file)[2]
       ELSE phase' = "refused" /\ UNCHANGED head
    /\ recorded' = file
    /\ UNCHANGED <<disk, calls, returned, anchored, altered>>

\* One line is dropped, doubled, swapped with the next one, or edited, with its
\* own hash recomputed or not; or the end of the file is lost.  Recomputing the
\* hashes of the last line, or of all that follow, is out of verify()'s reach
\* and left out (audit_chain.py:30-35).
Altered(f) ==
    LET Deleted   == {RemoveAt(f, i) : i \in DOMAIN f}
        Doubled   == {InsertAt(f, i, f[i]) : i \in DOMAIN f}
        Swapped   == {[f EXCEPT ![i] = f[i + 1], ![i + 1] = f[i]] : i \in 1..(Len(f) - 1)}
        Edited    == {[f EXCEPT ![i].body = b] : i \in {j \in DOMAIN f : f[j] # Junk}, b \in Bodies}
        Rehashed  == {[f EXCEPT ![i] = Entry(@.seq, b, @.prev)] :
                         i \in {j \in 1..(Len(f) - 1) : f[j] # Junk}, b \in Bodies}
        Truncated == {SubSeq(f, 1, n) : n \in 0..Len(f)}
    IN (Deleted \cup Doubled \cup Swapped \cup Edited \cup Rehashed \cup Truncated) \ {f}

Alter ==
    /\ "alter" \in faults
    /\ ~ altered
    /\ file' \in Altered(file)
    /\ newline' = TRUE
    /\ altered' = TRUE
    /\ UNCHANGED <<phase, head, calls, recorded, returned, anchored>>

Next ==
    /\ \/ \E w \in Writers :
            \/ \E b \in Bodies : Record(w, b)
            \/ Write(w)
            \/ WriteRaises(w)
            \/ Advance(w)
            \/ Publish(w)
            \/ PublishRaises(w)
       \/ Crash
       \/ Reopen
       \/ Alter
    /\ UNCHANGED faults

Spec == Init /\ [][Next]_vars

-----------------------------------------------------------------------------

\* verify_against_anchor on the live object: the file is re-read, the head it is
\* compared by is the one in memory.
VerifyAgainstAnchor(seq, hash) ==
    Intact(file) /\ last_hash = hash /\ next_seq - 1 = seq

\* The same asked of an object opened on the file now.
FreshVerifyAgainstAnchor(seq, hash) ==
    Intact(file) /\ FileHead(file) = <<seq, hash>>

\* Nobody changed the file, and every write reached it whole.
Sound == ~ altered /\ "torn" \notin faults

TypeOK ==
    LET IsEntry(e) ==
              /\ DOMAIN e = {"seq", "body", "prev", "hash"}
              /\ e.seq \in Int /\ e.body \in Bodies \cup {NoBody}
    IN /\ faults \in Environments
       /\ \A i \in DOMAIN file : file[i] = Junk \/ IsEntry(file[i])
       /\ newline \in BOOLEAN
       /\ phase \in {"up", "down", "refused"}
       /\ next_seq \in 0..MaxLines
       /\ pc \in [Writers -> {"idle", "write", "advance", "publish"}]
       /\ \A w \in Writers : IsEntry(entry[w])
       /\ \A e \in returned : IsEntry(e)
       /\ altered \in BOOLEAN

\* Every line of a log nobody touched is linked to the line before it, after
\* crashes and reopenings too (audit_chain.py:8-16, 91-94, 155).
ChainIntact == Sound => Intact(file)

\* An entry whose record() returned is never missing from a log that verifies:
\* a write cut short may glue two lines together, but then reopening refuses the
\* log and verify() fails (audit_chain.py:126-135).
LossIsDetected == ~ altered /\ Intact(file) => returned \subseteq ToSet(file)

\* The sink never has a head the log does not: "the durable log is the source of
\* truth" (audit_chain.py:179-183).
AnchorNeverAhead ==
    Sound => \A i \in DOMAIN anchored : \E j \in DOMAIN file :
                    anchored[i] = <<file[j].seq, file[j].hash>>

\* An honest log never gives a monotonic witness cause to refuse a head, however
\* the sink failed and the process restarted before (notary.py:14-16).
HeadsIncrease ==
    ~ altered => \A i, j \in DOMAIN anchored : i < j => anchored[i][1] < anchored[j][1]

\* An auditor who opens the log and holds the sink's last head agrees with it
\* whenever the log's last entry was acknowledged.
AuditorAgrees ==
    Sound /\ file # <<>> /\ Last(file) \in returned =>
        /\ anchored # <<>>
        /\ FreshVerifyAgainstAnchor(Last(anchored)[1], Last(anchored)[2])

\* A chain that verifies is the chain that was written, or a beginning of it:
\* edits, insertions, deletions and swaps are detected (audit_chain.py:18-28).
VerifyDetects == "torn" \notin faults /\ Intact(file) => IsPrefix(file, recorded)

\* What audit_chain.py:195-196 says of a log compared with a retained head: "any
\* TRUNCATION or REWRITE changes the *head* hash".
TruncationIsSeen ==
    phase = "up" =>
        \A i \in DOMAIN anchored :
            VerifyAgainstAnchor(anchored[i][1], anchored[i][2]) =>
                FreshVerifyAgainstAnchor(anchored[i][1], anchored[i][2])
=============================================================================
