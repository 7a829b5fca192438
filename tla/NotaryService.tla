---------------------------- MODULE NotaryService ---------------------------
(***************************************************************************)
(* The notary as the log and its auditors meet it (notary.py): connections *)
(* served by a thread each, requests that arrive in pieces or never end,   *)
(* a client that gives up before it is answered, a notary that restarts.   *)
(*                                                                         *)
(* The ledger behind it is the Witness that NotaryLedger implements.  The  *)
(* log writes a line and submits the new head, the sequence of lines that  *)
(* is hashed, over a connection of its own (make_anchor); nobody forces    *)
(* its lines to disk (audit_chain.py:174), so a power failure loses some.  *)
(***************************************************************************)
EXTENDS Integers, Sequences, SequencesExt

CONSTANTS
    Visitors,     \* who may come besides the log: sets of "auditor" and "stranger"
    Conns,        \* what a connection takes: a thread and a socket
    LineBodies,   \* what a line of the log is about
    Forged,       \* what a head is of that the log never had
    NoHead,       \* of an answer that names none
    MaxLog,       \* bound: the lines of the log, by who visits
    MaxBytes      \* _MAX_LINE, in pieces of a request

ASSUME ServiceAssumption ==
    /\ Forged \notin LineBodies /\ NoHead \notin Seq(LineBodies)
    /\ MaxLog \in [Visitors -> Nat] /\ MaxBytes \in Nat \ {0}

VARIABLES
    visitors,     \* who does
    lines,        \* the log's lines
    book,         \* the heads the witness holds
    conn,         \* per connection: see Free
    vouched       \* history: the heads whose record() returned

serviceVars == <<visitors, lines, book, conn, vouched>>

Keeper == INSTANCE Witness
              WITH Chains <- {"log"}, Seqs <- Nat, Hashes <- Seq(LineBodies \cup {Forged})

-----------------------------------------------------------------------------

HeadOf(h) == [chain |-> "log", seq |-> Len(h), hash |-> h]

Submit(h, mac) == [op |-> "submit", head |-> h, mac |-> mac]
AskHead == [op |-> "head"]
AskAt(n) == [op |-> "at", seq |-> n]
Malformed == [op |-> "malformed"]

\* The head of another log, with a MAC made up or left out.
Unauthentic == Submit(<<Forged>>, FALSE)

\* A request not known yet is one whose line has not ended.
Unended == [op |-> "unended"]

Says(req, ok, h) == [to |-> req, ok |-> ok, head |-> h]
Refusal(req) == Says(req, FALSE, NoHead)
Waiting == Refusal(Unended)

Free == [user    |-> "nobody",
         client  |-> FALSE,      \* still connected
         thread  |-> "none",     \* or "reading", "answering"
         request |-> Unended,
         got     |-> 0,          \* pieces of the line that is read
         quiet   |-> FALSE,      \* nothing came for the length of the timeout
         answer  |-> Waiting,
         known   |-> {}]         \* history: what was witnessed when an auditor asked

Hashes == {q.hash : q \in book}

\* slip: the first head is answered
FirstHead == IF book = {} THEN <<>> ELSE CHOOSE h \in Hashes : \A g \in Hashes : Len(h) <= Len(g)

LatestHead == IF book = {} THEN <<>> ELSE CHOOSE h \in Hashes : \A g \in Hashes : Len(g) <= Len(h)

HeadAt(n) == IF \E h \in Hashes : Len(h) = n THEN CHOOSE h \in Hashes : Len(h) = n ELSE NoHead

Admits(req) == req.mac /\ \A h \in Hashes : Len(h) < Len(req.head)

-----------------------------------------------------------------------------

ServiceInit ==
    /\ visitors \in Visitors
    /\ lines = <<>> /\ book = {}
    /\ conn = [k \in Conns |-> Free]
    /\ vouched = {}

Change(k, r) == conn' = [conn EXCEPT ![k] = r]

\* A connection nobody is at any more is free.
Left(r) == IF ~ r.client /\ r.thread = "none" THEN Free ELSE r

Open(k, user, req) ==
    /\ conn[k] = Free
    /\ Change(k, [Free EXCEPT !.user = user, !.client = TRUE, !.thread = "reading",
                              !.request = req, !.got = 1,
                              !.known = IF user = "auditor" THEN Hashes ELSE {}])

\* record(): the line, then its head to the notary; the caller waits.
Log(k, b) ==
    /\ \A j \in Conns : conn[j].user = "log" => ~ conn[j].client
    /\ Len(lines) < MaxLog[visitors]
    /\ lines' = Append(lines, b)
    /\ Open(k, "log", Submit(lines', TRUE))
    /\ UNCHANGED <<book, vouched>>

\* The notary cannot be reached: record() raises, its line stays.
LogUnreached(b) ==
    /\ \A j \in Conns : conn[j].user = "log" => ~ conn[j].client
    /\ Len(lines) < MaxLog[visitors]
    /\ lines' = Append(lines, b)
    /\ UNCHANGED <<book, conn, vouched>>

Audit(k, req) ==
    /\ "auditor" \in visitors
    /\ \A j \in Conns : conn[j].user # "auditor"
    /\ Open(k, "auditor", req)
    /\ UNCHANGED <<lines, book, vouched>>

\* Somebody without the key: what it sends has no end yet.
Stranger(k) ==
    /\ "stranger" \in visitors
    /\ \A j \in Conns : conn[j].user # "stranger"
    /\ Open(k, "stranger", Unended)
    /\ UNCHANGED <<lines, book, vouched>>

\* It sends another piece, the last one perhaps.
Drip(k) ==
    /\ conn[k].user = "stranger" /\ conn[k].client
    /\ conn[k].thread = "reading" /\ conn[k].request = Unended
    /\ \/ Change(k, [conn[k] EXCEPT !.got = IF @ > MaxBytes THEN @ ELSE @ + 1, !.quiet = FALSE])
       \/ \E req \in {Malformed, Unauthentic} :
            conn[k].got <= MaxBytes /\ Change(k, [conn[k] EXCEPT !.request = req, !.quiet = FALSE])
    /\ UNCHANGED <<lines, book, vouched>>

-----------------------------------------------------------------------------

\* slip: the limit is looked at once the client falls silent
TooLargeLate(k) ==
    /\ conn[k].thread = "reading" /\ conn[k].got > MaxBytes /\ conn[k].quiet
    /\ Change(k, Left([conn[k] EXCEPT !.thread = "none", !.answer = Refusal(Malformed)]))
    /\ UNCHANGED <<lines, book, vouched>>

\* It has more than a line may hold: that is answered, and the thread goes.
TooLarge(k) ==
    /\ conn[k].thread = "reading" /\ conn[k].got > MaxBytes
    /\ Change(k, Left([conn[k] EXCEPT !.thread = "none", !.answer = Refusal(Malformed)]))
    /\ UNCHANGED <<lines, book, vouched>>

\* Nothing came for _CONN_TIMEOUT.
Silence(k) ==
    /\ conn[k].thread = "reading" /\ conn[k].request = Unended
    /\ conn[k].got <= MaxBytes /\ ~ conn[k].quiet
    /\ Change(k, [conn[k] EXCEPT !.quiet = TRUE])
    /\ UNCHANGED <<lines, book, vouched>>

\* The read times out, or the client has left before its line ended; what it had sent
\* is then taken for a line, and is none.
GiveUpReading(k) ==
    /\ conn[k].thread = "reading" /\ conn[k].request = Unended
    /\ conn[k].quiet \/ ~ conn[k].client
    /\ Change(k, Left([conn[k] EXCEPT !.thread = "none"]))
    /\ UNCHANGED <<lines, book, vouched>>

\* readline() has the whole line, and dispatch() rules on it.
Serve(k) ==
    LET req == conn[k].request
        Answers(a) == Change(k, [conn[k] EXCEPT !.thread = "answering", !.request = Unended,
                                            !.answer = a])
    IN /\ conn[k].thread = "reading" /\ req # Unended
       /\ CASE req.op = "submit" /\ Admits(req) ->
                    Keeper!Accept(HeadOf(req.head)) /\ Answers(Says(req, TRUE, req.head))
            [] req.op = "head" -> UNCHANGED book /\ Answers(Says(req, TRUE, LatestHead))
            [] req.op = "at"   -> UNCHANGED book /\ Answers(Says(req, TRUE, HeadAt(req.seq)))
            [] OTHER           -> UNCHANGED book /\ Answers(Refusal(req))
       /\ UNCHANGED <<lines, vouched>>

\* _respond(), and on to the next line; the answer of a client that left is lost.
Respond(k) ==
    /\ conn[k].thread = "answering"
    /\ Change(k, IF conn[k].client
                 THEN [conn[k] EXCEPT !.thread = "reading", !.got = 0, !.quiet = FALSE]
                 ELSE Free)
    /\ UNCHANGED <<lines, book, vouched>>

\* The notary's process dies and is started again on its ledger.
Restart ==
    /\ \E k \in Conns : conn[k].thread # "none"
    /\ conn' = [k \in Conns |->
                   Left([conn[k] EXCEPT !.thread = "none",
                                        !.answer = IF conn[k].thread = "answering" THEN Waiting ELSE @])]
    /\ UNCHANGED <<lines, book, vouched>>

-----------------------------------------------------------------------------

Answered(k) == conn[k].answer # Waiting /\ conn[k].thread # "answering"

Leave(k) == Change(k, Left([conn[k] EXCEPT !.client = FALSE, !.known = {}]))

\* The anchor sink has its answer: record() returns, or raises when it is a refusal.
Anchored(k) ==
    /\ conn[k].user = "log" /\ conn[k].client /\ Answered(k)
    /\ Leave(k)
    /\ vouched' = IF conn[k].answer.ok THEN vouched \cup {lines} ELSE vouched
    /\ UNCHANGED <<lines, book>>

AuditorReads(k) ==
    /\ conn[k].user = "auditor" /\ conn[k].client /\ Answered(k)
    /\ Leave(k)
    /\ UNCHANGED <<lines, book, vouched>>

\* slip: an answer that says nothing is no refusal
EndOfAnswersTaken(k) ==
    /\ conn[k].user \in {"log", "auditor"} /\ conn[k].client
    /\ conn[k].thread = "none" /\ ~ Answered(k)
    /\ Leave(k)
    /\ vouched' = IF conn[k].user = "log" THEN vouched \cup {lines} ELSE vouched
    /\ UNCHANGED <<lines, book>>

\* The connection ended without an answer, which reads as "{}": record() raises, an
\* auditor takes it for a chain nobody has heard of.
EndOfAnswers(k) ==
    /\ conn[k].user \in {"log", "auditor"} /\ conn[k].client
    /\ conn[k].thread = "none" /\ ~ Answered(k)
    /\ Leave(k)
    /\ UNCHANGED <<lines, book, vouched>>

\* The client gives up after its 5 s, what it asked is served all the same; or a
\* stranger leaves.
GiveUpWaiting(k) ==
    /\ conn[k].client /\ (conn[k].user = "stranger" \/ ~ Answered(k))
    /\ Leave(k)
    /\ UNCHANGED <<lines, book, vouched>>

\* The log's machine loses power, and the lines that were not on disk yet; record()
\* was under way, or not.
PowerLoss ==
    /\ \E n \in 0..Len(lines) : lines' = SubSeq(lines, 1, n)
    /\ conn' = [k \in Conns |-> IF conn[k].user = "log" THEN Left([conn[k] EXCEPT !.client = FALSE])
                                ELSE conn[k]]
    /\ UNCHANGED <<book, vouched>>

Thread(k) == TooLarge(k) \/ Silence(k) \/ GiveUpReading(k) \/ Serve(k) \/ Respond(k)

ServiceNext ==
    /\ \/ \E b \in LineBodies : LogUnreached(b) \/ \E k \in Conns : Log(k, b)
       \/ \E k \in Conns :
            \/ Audit(k, AskHead) \/ \E n \in 1..MaxLog[visitors] : Audit(k, AskAt(n))
            \/ Stranger(k) \/ Drip(k)
            \/ Thread(k)
            \/ Anchored(k) \/ AuditorReads(k) \/ EndOfAnswers(k) \/ GiveUpWaiting(k)
       \/ Restart
       \/ PowerLoss
    /\ UNCHANGED visitors

\* The operating system runs the notary's threads; nothing is asked of a client.
ServiceFairness == \A k \in Conns : WF_serviceVars(Thread(k) /\ UNCHANGED visitors)

ServiceSpec == ServiceInit /\ [][ServiceNext]_serviceVars /\ ServiceFairness

-----------------------------------------------------------------------------

\* The heads of the records that returned are witnessed, for ever and by the head of
\* its own length alone: whatever the log loses or rewrites afterwards, `at` tells the
\* difference.  Nothing else is witnessed but what the log once was: not what a
\* stranger submits, though what a client gave up on may come late
\* (notary.py:17-20, 36-39).
WitnessedHistory ==
    /\ vouched \subseteq Hashes
    /\ \A h \in Hashes : ~ Contains(h, Forged)
    /\ \A g, h \in Hashes : Len(g) = Len(h) => g = h

\* An auditor that is answered hears no less than was witnessed when it asked, though
\* submissions and restarts came in between (notary.py:17-20, 176-184).
AuditorsAreToldTheLatest ==
    \A k \in Conns :
        LET r == conn[k] IN
        /\ r.answer.to.op = "head" => \A h \in r.known : Len(h) <= Len(r.answer.head)
        /\ r.answer.to.op = "at"   => \A h \in r.known : Len(h) = r.answer.to.seq => r.answer.head = h

\* No connection pins a thread: a line is complete some day or the thread is gone,
\* however slowly it comes (notary.py:61-66, 190-194).
PartialRequestsEnd ==
    \A k \in Conns :
        LET Pinned == conn[k].thread = "reading" /\ conn[k].request = Unended
        IN Pinned ~> ~ Pinned
=============================================================================
