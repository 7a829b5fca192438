------------------------- MODULE NotaryServiceProofs ------------------------
(***************************************************************************)
(* What the log and its auditors may rely on, for any number of            *)
(* connections, visitors and lines, whoever gives up, restarts or loses    *)
(* power: the records that returned are witnessed, nothing else is but     *)
(* what the log once was, and an auditor hears of no less than was         *)
(* witnessed when it asked.                                                *)
(*                                                                         *)
(* The argument: a submission with a good MAC is a head of the log as it   *)
(* once was; while the log waits for an answer its lines stay as they were *)
(* submitted; the book only grows, by a head longer than all it holds.     *)
(*                                                                         *)
(* The key it signs heads with (SigningKey) is one key, for any number of  *)
(* processes, crashes, full disks and restarts, as long as no process      *)
(* creates the key file over another's: until one does, one process at     *)
(* most is between creating the file and writing it, before anything is    *)
(* signed, and from then on the notary is known by one key at most, which  *)
(* is on file or was cut short there (Settled).                            *)
(***************************************************************************)
EXTENDS NotaryService, SigningKey, SequenceTheorems, TLAPS

-----------------------------------------------------------------------------
(* The connections. *)

Logs == Seq(LineBodies)

AskedFor ==
    [op : {"submit"}, head : Seq(LineBodies \cup {Forged}), mac : BOOLEAN]
        \cup [op : {"at"}, seq : Nat]
        \cup {AskHead, Malformed, Unended}

ConnRecords ==
    [user    : {"nobody", "log", "auditor", "stranger"},
     client  : BOOLEAN,
     thread  : {"none", "reading", "answering"},
     request : AskedFor,
     got     : Int,
     quiet   : BOOLEAN,
     answer  : [to : AskedFor, ok : BOOLEAN, head : Seq(LineBodies \cup {Forged}) \cup {NoHead}],
     known   : SUBSET Logs]

ServiceType ==
    /\ visitors \in Visitors
    /\ lines \in Logs
    /\ \A q \in book : q.hash \in Logs /\ q = HeadOf(q.hash)
    /\ conn \in [Conns -> ConnRecords]

\* The heads of the book, one to a length, have a longest.
Growing ==
    /\ \A g, h \in Hashes : Len(g) = Len(h) => g = h
    /\ book = {} \/ \E h \in Hashes : \A g \in Hashes : Len(g) <= Len(h)

\* The MAC is the log's.
Authentic(r) == r.request.op = "submit" /\ r.request.mac => r.request.head \in Logs

\* The log waits for what it submitted, the lines l it has, and is told so when they
\* are among the hashes H of the book.
Honest(r, l, H) ==
    r.user = "log" /\ r.client =>
        /\ r.request \in {Submit(l, TRUE), Unended}
        /\ r.answer.ok => l \in H

\* What AuditorsAreToldTheLatest says of a connection.
Told(r) ==
    /\ r.answer.to.op = "head" => \A h \in r.known : Len(h) <= Len(r.answer.head)
    /\ r.answer.to.op = "at"   => \A h \in r.known : Len(h) = r.answer.to.seq => r.answer.head = h

Sound(r, l, H) ==
    /\ r \in ConnRecords
    /\ Authentic(r)
    /\ Honest(r, l, H)
    /\ r.known \subseteq H
    /\ Told(r)

ServiceIInv ==
    /\ ServiceType
    /\ Growing
    /\ \A k \in Conns : Sound(conn[k], lines, Hashes)
    /\ vouched \subseteq Hashes

-----------------------------------------------------------------------------

\* What clients send.
LEMMA RequestTypes ==
    /\ AskHead \in AskedFor /\ Malformed \in AskedFor /\ Unended \in AskedFor
    /\ Unauthentic \in AskedFor /\ \A n \in Nat : AskAt(n) \in AskedFor
    /\ \A h \in Logs : Submit(h, TRUE) \in AskedFor
  <1>1. Logs \subseteq Seq(LineBodies \cup {Forged}) /\ <<Forged>> \in Seq(LineBodies \cup {Forged})
    BY DEF Logs
  <1> QED
    BY <1>1 DEF AskedFor, AskHead, Malformed, Unended, Unauthentic, AskAt, Submit

\* The answers that say nothing, and the refusals.
LEMMA AnswerTypes ==
    ASSUME NEW a \in {Waiting, Refusal(Malformed)}
    PROVE  /\ a \in [to : AskedFor, ok : {FALSE}, head : {NoHead}]
           /\ a.to.op \notin {"head", "at"}
  <1>1. Unended.op = "unended" /\ Malformed.op = "malformed"
    BY DEF Unended, Malformed
  <1>2. a \in {[to |-> Unended, ok |-> FALSE, head |-> NoHead], [to |-> Malformed, ok |-> FALSE, head |-> NoHead]}
    BY DEF Waiting, Refusal, Says
  <1>3. Unended \in AskedFor /\ Malformed \in AskedFor
    BY RequestTypes
  <1>4. CASE a = [to |-> Unended, ok |-> FALSE, head |-> NoHead]
    BY <1>1, <1>3, <1>4
  <1>5. CASE a = [to |-> Malformed, ok |-> FALSE, head |-> NoHead]
    BY <1>1, <1>3, <1>5
  <1> QED
    BY <1>2, <1>4, <1>5

\* A connection nobody is at.
LEMMA FreeIsSound ==
    ASSUME NEW l, NEW H
    PROVE  Sound(Free, l, H)
  BY RequestTypes
  DEF Sound, Free, ConnRecords, Authentic, Honest, Told, Waiting, Refusal, Says, Unended, Malformed

\* One that may have become free.
LEMMA LeftIsSound ==
    ASSUME NEW r, NEW l, NEW H, Sound(r, l, H)
    PROVE  Sound(Left(r), l, H)
  BY FreeIsSound DEF Left

\* A connection that loses its client owes nobody anything.
LEMMA LeavingIsSound ==
    ASSUME NEW r, NEW l, NEW H, Sound(r, l, H), NEW l2
    PROVE  /\ Sound([r EXCEPT !.client = FALSE, !.known = {}], l, H)
           /\ Sound([r EXCEPT !.client = FALSE], l2, H)
  BY DEF Sound, ConnRecords, Authentic, Honest, Told

\* The same where what r says of its request, or of the answer, says nothing now.
LEMMA SoundAfterwards ==
    ASSUME NEW r, NEW l, NEW H, Sound(r, l, H), NEW s \in ConnRecords,
           s.user = r.user, s.client = r.client, s.known = r.known,
           \/ s.request = r.request
           \/ s.request = Unended
           \/ r.user # "log" /\ (s.request.op = "submit" => ~ s.request.mac),
           \/ s.answer = r.answer
           \/ s.answer.to.op \notin {"head", "at"} /\ ~ s.answer.ok
    PROVE  Sound(s, l, H)
  <1>1. Authentic(s) /\ s.known \subseteq H
    BY DEF Sound, Authentic, Unended
  <1>2. Honest(s, l, H)
    BY DEF Sound, Honest
  <1>3. Told(s)
    BY DEF Sound, Told
  <1> QED
    BY <1>1, <1>2, <1>3 DEF Sound

\* The thread of a connection that is done with its request, or is not yet.
LEMMA ResettingIsSound ==
    ASSUME NEW r, NEW l, NEW H, Sound(r, l, H)
    PROVE  /\ \A a \in {Waiting, Refusal(Malformed)} :
                 Sound([r EXCEPT !.thread = "none", !.answer = a], l, H)
           /\ Sound([r EXCEPT !.thread = "none"], l, H)
           /\ Sound([r EXCEPT !.thread = "reading", !.got = 0, !.quiet = FALSE], l, H)
           /\ Sound([r EXCEPT !.quiet = TRUE], l, H)
  <1>0. r \in ConnRecords
    BY DEF Sound
  <1>9. 0 \in Int
    OBVIOUS
  <1>1. ASSUME NEW a \in {Waiting, Refusal(Malformed)}
        PROVE  Sound([r EXCEPT !.thread = "none", !.answer = a], l, H)
    <2>1. a \in [to : AskedFor, ok : {FALSE}, head : {NoHead}] /\ a.to.op \notin {"head", "at"}
      BY AnswerTypes
    <2>2. a \in [to : AskedFor, ok : BOOLEAN, head : Seq(LineBodies \cup {Forged}) \cup {NoHead}] /\ ~ a.ok
      BY <2>1
    <2> DEFINE s == [r EXCEPT !.thread = "none", !.answer = a]
    <2>3. /\ s \in ConnRecords /\ s.answer = a /\ s.user = r.user /\ s.client = r.client
          /\ s.request = r.request /\ s.known = r.known
      BY <2>2 DEF Sound, ConnRecords
    <2> HIDE DEF s
    <2>4. Sound(s, l, H)
      BY <2>1, <2>2, <2>3, SoundAfterwards
    <2> QED
      BY <2>4 DEF s
  <1>2. Sound([r EXCEPT !.thread = "none"], l, H)
    <2> DEFINE s == [r EXCEPT !.thread = "none"]
    <2>1. /\ s \in ConnRecords /\ s.answer = r.answer /\ s.user = r.user /\ s.client = r.client
          /\ s.request = r.request /\ s.known = r.known
      BY <1>0 DEF ConnRecords
    <2> QED
      BY <2>1, SoundAfterwards
  <1>3. Sound([r EXCEPT !.thread = "reading", !.got = 0, !.quiet = FALSE], l, H)
    <2> DEFINE s == [r EXCEPT !.thread = "reading", !.got = 0, !.quiet = FALSE]
    <2>1. /\ s \in ConnRecords /\ s.answer = r.answer /\ s.user = r.user /\ s.client = r.client
          /\ s.request = r.request /\ s.known = r.known
      BY <1>0, <1>9 DEF ConnRecords
    <2> QED
      BY <2>1, SoundAfterwards
  <1>4. Sound([r EXCEPT !.quiet = TRUE], l, H)
    <2> DEFINE s == [r EXCEPT !.quiet = TRUE]
    <2>1. /\ s \in ConnRecords /\ s.answer = r.answer /\ s.user = r.user /\ s.client = r.client
          /\ s.request = r.request /\ s.known = r.known
      BY <1>0 DEF ConnRecords
    <2> QED
      BY <2>1, SoundAfterwards
  <1> QED
    BY <1>1, <1>2, <1>3, <1>4

\* Whoever comes is told nothing yet.
LEMMA OpeningIsSound ==
    ASSUME NEW who \in {"log", "auditor", "stranger"}, NEW req \in AskedFor,
           NEW l \in Logs, NEW H \in SUBSET Logs,
           \/ who = "log" /\ req = Submit(l, TRUE)
           \/ who # "log" /\ req.op # "submit"
    PROVE  Sound([Free EXCEPT !.user = who, !.client = TRUE, !.thread = "reading", !.request = req,
                              !.got = 1, !.known = IF who = "auditor" THEN H ELSE {}], l, H)
  <1> DEFINE r == [Free EXCEPT !.user = who, !.client = TRUE, !.thread = "reading", !.request = req,
                               !.got = 1, !.known = IF who = "auditor" THEN H ELSE {}]
  <1>1. Free \in ConnRecords /\ Free.answer = Waiting
    BY FreeIsSound DEF Sound, Free
  <1>2. Waiting \in [to : AskedFor, ok : {FALSE}, head : {NoHead}] /\ Waiting.to.op \notin {"head", "at"}
    BY AnswerTypes
  <1>3. 1 \in Int /\ (IF who = "auditor" THEN H ELSE {}) \in SUBSET Logs
    OBVIOUS
  <1>4. /\ r \in ConnRecords /\ r.user = who /\ r.request = req /\ r.answer = Waiting
        /\ r.known = IF who = "auditor" THEN H ELSE {}
    BY <1>1, <1>3, Zenon DEF ConnRecords
  <1>5. Submit(l, TRUE).head = l
    BY DEF Submit
  <1> HIDE DEF r
  <1>6. Authentic(r) /\ Honest(r, l, H) /\ Told(r) /\ r.known \subseteq H
    BY <1>2, <1>4, <1>5 DEF Authentic, Honest, Told
  <1>7. Sound(r, l, H)
    BY <1>4, <1>6 DEF Sound
  <1> QED
    BY <1>7 DEF r

\* A longer book leaves sound what is.
LEMMA GrowingIsSound ==
    ASSUME NEW r, NEW l, NEW H, NEW H2, H \subseteq H2, Sound(r, l, H)
    PROVE  Sound(r, l, H2)
  BY DEF Sound, Honest

\* A client of the log that has left does not care what its lines are.
LEMMA LinesMayChange ==
    ASSUME NEW r, NEW l, NEW l2, NEW H, Sound(r, l, H), r.user = "log" => ~ r.client
    PROVE  Sound(r, l2, H)
  BY DEF Sound, Honest

-----------------------------------------------------------------------------

\* A step that changes one connection, to a sound one, and leaves the others sound.
LEMMA OneConnectionChanges ==
    ASSUME ServiceIInv, NEW k \in Conns, NEW r, Change(k, r),
           Sound(r, lines', Hashes'), \A j \in Conns : Sound(conn[j], lines', Hashes')
    PROVE  /\ conn' \in [Conns -> ConnRecords]
           /\ \A j \in Conns : Sound(conn'[j], lines', Hashes')
  <1>1. /\ conn' = [conn EXCEPT ![k] = r] /\ conn \in [Conns -> ConnRecords]
        /\ r \in ConnRecords
    BY DEF Change, ServiceIInv, ServiceType, Sound
  <1>2. conn' \in [Conns -> ConnRecords] /\ \A j \in Conns : conn'[j] \in {r, conn[j]}
    BY <1>1
  <1> QED
    BY <1>2

\* The same where neither the lines nor the book change.
LEMMA QuietStep ==
    ASSUME ServiceIInv, NEW k \in Conns, NEW r, Change(k, r), Sound(r, lines, Hashes),
           lines' = lines, book' = book, visitors' = visitors, vouched' \subseteq Hashes
    PROVE  ServiceIInv'
  <1>1. Hashes' = Hashes /\ \A j \in Conns : Sound(conn[j], lines', Hashes')
    BY DEF Hashes, ServiceIInv
  <1>2. Sound(r, lines', Hashes')
    BY <1>1
  <1>3. conn' \in [Conns -> ConnRecords] /\ \A j \in Conns : Sound(conn'[j], lines', Hashes')
    BY <1>1, <1>2, OneConnectionChanges
  <1> QED
    BY <1>1, <1>3 DEF ServiceIInv, ServiceType, Growing, HeadOf

\* The log writes a line, and submits its head or cannot.
LEMMA LogKept ==
    ASSUME ServiceIInv, NEW b \in LineBodies, visitors' = visitors,
           LogUnreached(b) \/ \E k \in Conns : Log(k, b)
    PROVE  ServiceIInv'
  <1>1. /\ lines' = Append(lines, b) /\ UNCHANGED <<book, vouched>>
        /\ \A j \in Conns : conn[j].user = "log" => ~ conn[j].client
    BY DEF LogUnreached, Log
  <1>2. lines' \in Logs /\ Hashes' = Hashes /\ Hashes \subseteq Logs
    BY <1>1 DEF ServiceIInv, ServiceType, Logs, Hashes
  <1>3. \A j \in Conns : Sound(conn[j], lines', Hashes')
    BY <1>1, <1>2, LinesMayChange DEF ServiceIInv
  <1>4. conn' \in [Conns -> ConnRecords] /\ \A j \in Conns : Sound(conn'[j], lines', Hashes')
    <2>1. CASE LogUnreached(b)
      BY <2>1, <1>3 DEF LogUnreached, ServiceIInv, ServiceType
    <2>2. ASSUME NEW k \in Conns, Log(k, b)
          PROVE  conn' \in [Conns -> ConnRecords] /\ \A j \in Conns : Sound(conn'[j], lines', Hashes')
      <3> DEFINE req == Submit(lines', TRUE)
                 r == [Free EXCEPT !.user = "log", !.client = TRUE, !.thread = "reading", !.request = req,
                                   !.got = 1, !.known = IF "log" = "auditor" THEN Hashes ELSE {}]
      <3>1. Change(k, r)
        BY <2>2 DEF Log, Open
      <3>2. req \in AskedFor
        BY <1>2, RequestTypes
      <3>3. Sound([Free EXCEPT !.user = "log", !.client = TRUE, !.thread = "reading", !.request = req,
                                   !.got = 1, !.known = IF "log" = "auditor" THEN Hashes' ELSE {}], lines', Hashes')
        BY <3>2, <1>2, OpeningIsSound
      <3>4. Sound(r, lines', Hashes')
        BY <3>3
      <3> QED
        BY <3>1, <3>4, <1>3, OneConnectionChanges
    <2> QED
      BY <2>1, <2>2
  <1> QED
    BY <1>1, <1>2, <1>4 DEF ServiceIInv, ServiceType, Growing, HeadOf


\* Whoever comes by, and what a stranger sends.
LEMMA VisitorsKept ==
    ASSUME ServiceIInv, NEW k \in Conns, visitors' = visitors,
           \/ Audit(k, AskHead) \/ \E n \in 1..MaxLog[visitors] : Audit(k, AskAt(n))
           \/ Stranger(k) \/ Drip(k)
    PROVE  ServiceIInv'
  <1>1. Hashes \in SUBSET Logs /\ lines \in Logs /\ vouched \subseteq Hashes /\ Sound(conn[k], lines, Hashes)
    BY DEF ServiceIInv, ServiceType, Hashes
  <1>2. ASSUME NEW who \in {"auditor", "stranger"}, NEW req \in AskedFor, req.op # "submit",
               Open(k, who, req), UNCHANGED <<lines, book, vouched>>
        PROVE  ServiceIInv'
    <2>1. Sound([Free EXCEPT !.user = who, !.client = TRUE, !.thread = "reading", !.request = req,
                             !.got = 1, !.known = IF who = "auditor" THEN Hashes ELSE {}], lines, Hashes)
      BY <1>1, <1>2, OpeningIsSound
    <2> QED
      BY <2>1, <1>1, <1>2, QuietStep DEF Open
  <1>3. CASE Audit(k, AskHead)
    <2>1. AskHead \in AskedFor /\ AskHead.op # "submit"
      BY RequestTypes DEF AskHead
    <2> QED
      BY <2>1, <1>2, <1>3 DEF Audit
  <1>4. ASSUME NEW n \in 1..MaxLog[visitors], Audit(k, AskAt(n))
        PROVE  ServiceIInv'
    <2>1. n \in Nat
      OBVIOUS
    <2>2. AskAt(n) \in AskedFor /\ AskAt(n).op # "submit"
      BY <2>1, RequestTypes DEF AskAt
    <2> QED
      BY <2>2, <1>2, <1>4 DEF Audit
  <1>5. CASE Stranger(k)
    <2>1. Unended \in AskedFor /\ Unended.op # "submit"
      BY RequestTypes DEF Unended
    <2> QED
      BY <2>1, <1>2, <1>5 DEF Stranger
  <1>6. CASE Drip(k)
    <2>1. conn[k] \in ConnRecords /\ conn[k].got \in Int /\ 1 \in Int /\ conn[k].user # "log"
      BY <1>1, <1>6 DEF Sound, ConnRecords, Drip
    <2>2. (IF conn[k].got > MaxBytes THEN conn[k].got ELSE conn[k].got + 1) \in Int
      BY <2>1
    <2>3. ASSUME NEW n \in Int, Change(k, [conn[k] EXCEPT !.got = n, !.quiet = FALSE])
          PROVE  ServiceIInv'
      <3> DEFINE s == [conn[k] EXCEPT !.got = n, !.quiet = FALSE]
      <3>1. /\ s \in ConnRecords /\ s.answer = conn[k].answer /\ s.user = conn[k].user
            /\ s.client = conn[k].client /\ s.request = conn[k].request /\ s.known = conn[k].known
        BY <2>1 DEF ConnRecords
      <3> HIDE DEF s
      <3>2. Sound(s, lines, Hashes)
        BY <3>1, <1>1, SoundAfterwards
      <3>3. Change(k, s)
        BY <2>3 DEF s
      <3> QED
        BY <3>2, <3>3, <1>1, <1>6, QuietStep DEF Drip
    <2>4. ASSUME NEW req \in {Malformed, Unauthentic},
                 Change(k, [conn[k] EXCEPT !.request = req, !.quiet = FALSE])
          PROVE  ServiceIInv'
      <3> DEFINE s == [conn[k] EXCEPT !.request = req, !.quiet = FALSE]
      <3>1. req \in AskedFor /\ (req.op = "submit" => ~ req.mac)
        <4>1. CASE req = Malformed
          BY <4>1, RequestTypes DEF Malformed
        <4>2. CASE req = Unauthentic
          BY <4>2, RequestTypes DEF Unauthentic, Submit
        <4> QED
          BY <4>1, <4>2
      <3>2. /\ s \in ConnRecords /\ s.answer = conn[k].answer /\ s.user = conn[k].user
            /\ s.client = conn[k].client /\ s.request = req /\ s.known = conn[k].known
        BY <2>1, <3>1 DEF ConnRecords
      <3> HIDE DEF s
      <3>3. Sound(s, lines, Hashes)
        BY <3>1, <3>2, <2>1, <1>1, SoundAfterwards
      <3>4. Change(k, s)
        BY <2>4 DEF s
      <3> QED
        BY <3>3, <3>4, <1>1, <1>6, QuietStep DEF Drip
    <2> QED
      BY <1>6, <2>2, <2>3, <2>4 DEF Drip
  <1> QED
    BY <1>3, <1>4, <1>5, <1>6

\* The clients that hear, or do not, and go.
LEMMA ClientsKept ==
    ASSUME ServiceIInv, NEW k \in Conns, visitors' = visitors,
           Anchored(k) \/ AuditorReads(k) \/ EndOfAnswers(k) \/ GiveUpWaiting(k)
    PROVE  ServiceIInv'
  <1>1. vouched \subseteq Hashes /\ Sound(conn[k], lines, Hashes)
    BY DEF ServiceIInv
  <1>2. Sound(Left([conn[k] EXCEPT !.client = FALSE, !.known = {}]), lines, Hashes)
    BY <1>1, LeavingIsSound, LeftIsSound
  <1>3. /\ Change(k, Left([conn[k] EXCEPT !.client = FALSE, !.known = {}]))
        /\ UNCHANGED <<lines, book>>
    BY DEF Anchored, AuditorReads, EndOfAnswers, GiveUpWaiting, Leave
  <1>4. vouched' \subseteq Hashes
    BY <1>1 DEF Anchored, AuditorReads, EndOfAnswers, GiveUpWaiting, Sound, Honest
  <1> QED
    BY <1>2, <1>3, <1>4, QuietStep

\* What a thread does but serve a request.
LEMMA ReadingKept ==
    ASSUME ServiceIInv, NEW k \in Conns, visitors' = visitors,
           TooLarge(k) \/ Silence(k) \/ GiveUpReading(k) \/ Respond(k)
    PROVE  ServiceIInv'
  <1>1. vouched \subseteq Hashes /\ Sound(conn[k], lines, Hashes)
    BY DEF ServiceIInv
  <1>2. UNCHANGED <<lines, book, vouched>>
    BY DEF TooLarge, Silence, GiveUpReading, Respond
  <1>3. /\ Sound(Left([conn[k] EXCEPT !.thread = "none", !.answer = Refusal(Malformed)]), lines, Hashes)
        /\ Sound(Left([conn[k] EXCEPT !.thread = "none"]), lines, Hashes)
        /\ Sound([conn[k] EXCEPT !.quiet = TRUE], lines, Hashes)
        /\ Sound([conn[k] EXCEPT !.thread = "reading", !.got = 0, !.quiet = FALSE], lines, Hashes)
        /\ Sound(Free, lines, Hashes)
    BY <1>1, ResettingIsSound, LeftIsSound, FreeIsSound
  <1>4. PICK r : Change(k, r) /\ Sound(r, lines, Hashes)
    BY <1>3 DEF TooLarge, Silence, GiveUpReading, Respond
  <1> QED
    BY <1>1, <1>2, <1>4, QuietStep

\* The steps at which connections are lost, none to its harm.
LEMMA RestartKept ==
    ASSUME ServiceIInv, Restart, visitors' = visitors
    PROVE  ServiceIInv'
  <1> DEFINE r(k) == Left([conn[k] EXCEPT !.thread = "none",
                                          !.answer = IF conn[k].thread = "answering" THEN Waiting ELSE @])
  <1>1. conn' = [k \in Conns |-> r(k)] /\ UNCHANGED <<lines, book, vouched>>
    BY DEF Restart
  <1>2. ASSUME NEW k \in Conns
        PROVE  Sound(r(k), lines, Hashes)
    <2>1. Sound(conn[k], lines, Hashes)
      BY DEF ServiceIInv
    <2> DEFINE a == IF conn[k].thread = "answering" THEN Waiting ELSE conn[k].answer
               s == [conn[k] EXCEPT !.thread = "none", !.answer = a]
    <2>2. a = conn[k].answer \/ (a.to.op \notin {"head", "at"} /\ ~ a.ok)
      BY AnswerTypes
    <2>3. /\ Waiting \in [to : AskedFor, ok : BOOLEAN, head : Seq(LineBodies \cup {Forged}) \cup {NoHead}]
          /\ conn[k].answer \in [to : AskedFor, ok : BOOLEAN, head : Seq(LineBodies \cup {Forged}) \cup {NoHead}]
      BY <2>1, AnswerTypes DEF Sound, ConnRecords
    <2>4. a \in [to : AskedFor, ok : BOOLEAN, head : Seq(LineBodies \cup {Forged}) \cup {NoHead}]
      BY <2>3
    <2> HIDE DEF a
    <2>5. /\ s \in ConnRecords /\ s.answer = a /\ s.user = conn[k].user /\ s.client = conn[k].client
          /\ s.request = conn[k].request /\ s.known = conn[k].known
      BY <2>1, <2>4 DEF Sound, ConnRecords
    <2> HIDE DEF s
    <2>6. Sound(s, lines, Hashes)
      BY <2>1, <2>2, <2>5, SoundAfterwards
    <2> QED
      BY <2>6, LeftIsSound DEF s, a
  <1> HIDE DEF r
  <1>3. conn' \in [Conns -> ConnRecords] /\ \A k \in Conns : Sound(conn'[k], lines, Hashes)
    BY <1>1, <1>2 DEF Sound
  <1> QED
    BY <1>1, <1>3 DEF ServiceIInv, ServiceType, Growing, Hashes, HeadOf

\* The log loses lines, and with them whoever waited for an answer.
LEMMA PowerLossKept ==
    ASSUME ServiceIInv, PowerLoss, visitors' = visitors
    PROVE  ServiceIInv'
  <1> DEFINE r(k) == IF conn[k].user = "log" THEN Left([conn[k] EXCEPT !.client = FALSE]) ELSE conn[k]
  <1>1. conn' = [k \in Conns |-> r(k)] /\ UNCHANGED <<book, vouched>>
    BY DEF PowerLoss
  <1>2. lines' \in Logs
    <2>1. PICK n \in 0..Len(lines) : lines' = SubSeq(lines, 1, n)
      BY DEF PowerLoss
    <2>2. lines \in Seq(LineBodies)
      BY DEF ServiceIInv, ServiceType, Logs
    <2>3. \A i \in 1..n : lines[i] \in LineBodies
      BY <2>2
    <2> QED
      BY <2>1, <2>2, <2>3, SubSeqProperties DEF Logs
  <1>3. ASSUME NEW k \in Conns
        PROVE  Sound(r(k), lines', Hashes)
    <2>1. Sound(conn[k], lines, Hashes)
      BY DEF ServiceIInv
    <2> QED
      BY <2>1, LeavingIsSound, LeftIsSound, LinesMayChange
  <1> HIDE DEF r
  <1>4. conn' \in [Conns -> ConnRecords] /\ \A k \in Conns : Sound(conn'[k], lines', Hashes)
    BY <1>1, <1>3 DEF Sound
  <1>5. Hashes' = Hashes
    BY <1>1 DEF Hashes
  <1> QED
    BY <1>1, <1>2, <1>4, <1>5 DEF ServiceIInv, ServiceType, Growing, HeadOf

-----------------------------------------------------------------------------

\* The answer to a connection, when it says what Told wants and no more than the log
\* may hear.
LEMMA AnsweringIsSound ==
    ASSUME NEW r, NEW l, NEW H, NEW H2, H \subseteq H2, Sound(r, l, H),
           NEW a \in [to : AskedFor, ok : BOOLEAN, head : Seq(LineBodies \cup {Forged}) \cup {NoHead}],
           a.to.op = "head" => \A h \in H : Len(h) <= Len(a.head),
           a.to.op = "at"   => \A h \in H : Len(h) = a.to.seq => a.head = h,
           r.user = "log" /\ r.client /\ a.ok => l \in H2
    PROVE  Sound([r EXCEPT !.thread = "answering", !.request = Unended, !.answer = a], l, H2)
  <1> DEFINE s == [r EXCEPT !.thread = "answering", !.request = Unended, !.answer = a]
  <1>1. Unended \in AskedFor /\ r \in ConnRecords
    BY RequestTypes DEF Sound
  <1>2. /\ s \in ConnRecords /\ s.answer = a /\ s.user = r.user /\ s.client = r.client
        /\ s.request = Unended /\ s.known = r.known
    BY <1>1 DEF ConnRecords
  <1> HIDE DEF s
  <1>3. r.known \subseteq H /\ Unended.op # "submit"
    BY DEF Sound, Unended
  <1>4. Authentic(s) /\ s.known \subseteq H2
    BY <1>2, <1>3 DEF Authentic
  <1>5. Honest(s, l, H2)
    BY <1>2 DEF Honest
  <1>6. Told(s)
    BY <1>2, <1>3 DEF Told
  <1>7. Sound(s, l, H2)
    BY <1>2, <1>4, <1>5, <1>6 DEF Sound
  <1> QED
    BY <1>7 DEF s

\* The book has a longest head to answer with, and one at most of a length.
LEMMA BookAnswers ==
    ASSUME ServiceIInv
    PROVE  /\ LatestHead \in Logs /\ \A h \in Hashes : Len(h) <= Len(LatestHead)
           /\ \A n \in Nat : /\ HeadAt(n) \in Logs \cup {NoHead}
                             /\ \A h \in Hashes : Len(h) = n => HeadAt(n) = h
  <1>1. Hashes \subseteq Logs /\ (book = {} => Hashes = {}) /\ <<>> \in Logs
    BY DEF ServiceIInv, ServiceType, Hashes, Logs
  <1>2. CASE book = {}
    BY <1>1, <1>2 DEF LatestHead, HeadAt
  <1>3. CASE book # {}
    <2>1. \E h \in Hashes : \A g \in Hashes : Len(g) <= Len(h)
      BY <1>3 DEF ServiceIInv, Growing
    <2>2. LatestHead \in Hashes /\ \A g \in Hashes : Len(g) <= Len(LatestHead)
      BY <2>1, <1>3 DEF LatestHead
    <2>3. \A g, h \in Hashes : Len(g) = Len(h) => g = h
      BY DEF ServiceIInv, Growing
    <2>4. \A n \in Nat : /\ HeadAt(n) \in Logs \cup {NoHead}
                         /\ \A h \in Hashes : Len(h) = n => HeadAt(n) = h
      BY <1>1, <2>3 DEF HeadAt
    <2> QED
      BY <1>1, <2>2, <2>4
  <1> QED
    BY <1>2, <1>3

\* dispatch() rules on a request: the book grows by a longer head, or answers.
LEMMA ServeKept ==
    ASSUME ServiceIInv, NEW k \in Conns, Serve(k), visitors' = visitors
    PROVE  ServiceIInv'
  <1> DEFINE req == conn[k].request
             Answers(a) == Change(k, [conn[k] EXCEPT !.thread = "answering", !.request = Unended, !.answer = a])
             Replies == [to : AskedFor, ok : BOOLEAN, head : Seq(LineBodies \cup {Forged}) \cup {NoHead}]
  <1>1. /\ Sound(conn[k], lines, Hashes) /\ vouched \subseteq Hashes /\ lines \in Logs
        /\ Logs \subseteq Seq(LineBodies \cup {Forged}) /\ Hashes \subseteq Logs
    BY DEF ServiceIInv, ServiceType, Logs, Hashes
  <1>2. req \in AskedFor /\ req # Unended
    BY <1>1 DEF Sound, ConnRecords, Serve
  <1>3. conn[k].user = "log" /\ conn[k].client => req = Submit(lines, TRUE)
    BY <1>1, <1>2 DEF Sound, Honest
  <1>4. lines' = lines /\ vouched' = vouched
    BY DEF Serve
  <1>5. \/ /\ req.op = "submit" /\ Admits(req) /\ Keeper!Accept(HeadOf(req.head))
           /\ Answers(Says(req, TRUE, req.head))
        \/ UNCHANGED book /\ req.op = "head" /\ Answers(Says(req, TRUE, LatestHead))
        \/ UNCHANGED book /\ req.op = "at" /\ Answers(Says(req, TRUE, HeadAt(req.seq)))
        \/ UNCHANGED book /\ req.op \notin {"head", "at"} /\ Answers(Refusal(req))
    BY DEF Serve
  <1>6. req.op = "at" => req.seq \in Nat
    BY <1>2 DEF AskedFor, AskHead, Malformed, Unended
  <1>7. req.op = "submit" => req.head \in Seq(LineBodies \cup {Forged})
    BY <1>2 DEF AskedFor, AskHead, Malformed, Unended
  <1>8. \A h, o : h \in Seq(LineBodies \cup {Forged}) \cup {NoHead} /\ o \in BOOLEAN =>
            /\ Says(req, o, h) \in Replies
            /\ Says(req, o, h).to = req /\ Says(req, o, h).ok = o /\ Says(req, o, h).head = h
    BY <1>2 DEF Says
  <1>9. ASSUME NEW a \in Replies, NEW H, Hashes \subseteq H,
                a.to.op = "head" => \A h \in Hashes : Len(h) <= Len(a.head),
                a.to.op = "at"   => \A h \in Hashes : Len(h) = a.to.seq => a.head = h,
                conn[k].user = "log" /\ conn[k].client /\ a.ok => lines \in H
         PROVE  Sound([conn[k] EXCEPT !.thread = "answering", !.request = Unended, !.answer = a], lines, H)
    BY <1>1, <1>9, AnsweringIsSound
  <1> HIDE DEF req, Replies
  <1>10. CASE /\ req.op = "submit" /\ Admits(req) /\ Keeper!Accept(HeadOf(req.head))
             /\ Answers(Says(req, TRUE, req.head))
    <2> DEFINE h == req.head
    <2>1. h \in Logs /\ \A g \in Hashes : Len(g) < Len(h)
      BY <1>1, <1>10 DEF Admits, Sound, Authentic, req
    <2>2. book' = book \cup {HeadOf(h)} /\ HeadOf(h).hash = h
      BY <1>10 DEF Keeper!Accept, HeadOf
    <2>3. Hashes' = Hashes \cup {h}
      BY <2>2 DEF Hashes
    <2>4. conn[k].user = "log" /\ conn[k].client => h = lines
      BY <1>3 DEF Submit
    <2> HIDE DEF h
    <2>5. Sound([conn[k] EXCEPT !.thread = "answering", !.request = Unended, !.answer = Says(req, TRUE, h)],
                lines, Hashes')
      <3> DEFINE a == Says(req, TRUE, h)
      <3>1. a \in Replies /\ a.to.op = "submit" /\ Hashes \subseteq Hashes' /\ h \in Hashes'
        BY <1>7, <1>8, <1>10, <2>3 DEF h
      <3> HIDE DEF a
      <3>2. Sound([conn[k] EXCEPT !.thread = "answering", !.request = Unended, !.answer = a], lines, Hashes')
        BY <1>9, <2>4, <3>1
      <3> QED
        BY <3>2 DEF a
    <2>6. \A j \in Conns : Sound(conn[j], lines', Hashes')
      BY <1>4, <2>3, GrowingIsSound DEF ServiceIInv
    <2>7. conn' \in [Conns -> ConnRecords] /\ \A j \in Conns : Sound(conn'[j], lines', Hashes')
      BY <1>4, <1>10, <2>5, <2>6, OneConnectionChanges DEF h
    <2>8. \A f, g \in Hashes' : Len(f) = Len(g) => f = g
      <3>1. \A f, g \in Hashes : Len(f) = Len(g) => f = g
        BY DEF ServiceIInv, Growing
      <3>2. Len(h) \in Nat /\ \A g \in Hashes : Len(g) \in Nat /\ Len(g) < Len(h)
        BY <1>1, <2>1 DEF Logs
      <3> QED
        BY <2>3, <3>1, <3>2
    <2>9. \A g \in Hashes' : Len(g) <= Len(h)
      <3>1. Len(h) \in Nat /\ \A g \in Hashes : Len(g) \in Nat /\ Len(g) < Len(h)
        BY <1>1, <2>1 DEF Logs
      <3> QED
        BY <2>3, <3>1
    <2>10. Growing'
      BY <2>3, <2>8, <2>9 DEF Growing
    <2>11. \A q \in book' : q.hash \in Logs /\ q = HeadOf(q.hash)
      BY <2>1, <2>2 DEF ServiceIInv, ServiceType
    <2>12. ServiceType'
      BY <1>1, <1>4, <2>7, <2>11 DEF ServiceIInv, ServiceType, HeadOf
    <2> QED
      BY <1>1, <1>4, <2>3, <2>7, <2>10, <2>12 DEF ServiceIInv
  <1>11. CASE UNCHANGED book /\ req.op = "head" /\ Answers(Says(req, TRUE, LatestHead))
    <2>1. Sound([conn[k] EXCEPT !.thread = "answering", !.request = Unended,
                                !.answer = Says(req, TRUE, LatestHead)], lines, Hashes)
      <3>1. ~ (conn[k].user = "log" /\ conn[k].client)
        BY <1>3, <1>11 DEF Submit
      <3> QED
        <4> DEFINE a == Says(req, TRUE, LatestHead)
        <4>1. /\ a \in Replies /\ a.to.op = "head"
              /\ \A h \in Hashes : Len(h) <= Len(a.head)
          BY <1>1, <1>8, <1>11, BookAnswers
        <4> HIDE DEF a
        <4>2. Sound([conn[k] EXCEPT !.thread = "answering", !.request = Unended, !.answer = a], lines, Hashes)
          BY <1>9, <3>1, <4>1
        <4> QED
          BY <4>2 DEF a
    <2> QED
      BY <1>1, <1>4, <1>11, <2>1, QuietStep
  <1>12. CASE UNCHANGED book /\ req.op = "at" /\ Answers(Says(req, TRUE, HeadAt(req.seq)))
    <2>1. Sound([conn[k] EXCEPT !.thread = "answering", !.request = Unended,
                                !.answer = Says(req, TRUE, HeadAt(req.seq))], lines, Hashes)
      <3>1. ~ (conn[k].user = "log" /\ conn[k].client)
        BY <1>3, <1>12 DEF Submit
      <3>2. /\ HeadAt(req.seq) \in Seq(LineBodies \cup {Forged}) \cup {NoHead}
            /\ \A h \in Hashes : Len(h) = req.seq => HeadAt(req.seq) = h
        BY <1>1, <1>6, <1>12, BookAnswers
      <3> QED
        <4> DEFINE a == Says(req, TRUE, HeadAt(req.seq))
        <4>1. /\ a \in Replies /\ a.to.op = "at"
              /\ \A h \in Hashes : Len(h) = a.to.seq => a.head = h
          BY <1>8, <1>12, <3>2
        <4> HIDE DEF a
        <4>2. Sound([conn[k] EXCEPT !.thread = "answering", !.request = Unended, !.answer = a], lines, Hashes)
          BY <1>9, <3>1, <4>1
        <4> QED
          BY <4>2 DEF a
    <2> QED
      BY <1>1, <1>4, <1>12, <2>1, QuietStep
  <1>13. CASE UNCHANGED book /\ req.op \notin {"head", "at"} /\ Answers(Refusal(req))
    <2>1. Sound([conn[k] EXCEPT !.thread = "answering", !.request = Unended,
                                !.answer = Refusal(req)], lines, Hashes)
      <3> DEFINE a == Refusal(req)
      <3>1. a \in Replies /\ a.to.op \notin {"head", "at"} /\ ~ a.ok
        BY <1>8, <1>13 DEF Refusal
      <3> HIDE DEF a
      <3>2. Sound([conn[k] EXCEPT !.thread = "answering", !.request = Unended, !.answer = a], lines, Hashes)
        BY <1>9, <3>1
      <3> QED
        BY <3>2 DEF a
    <2> QED
      BY <1>1, <1>4, <1>13, <2>1, QuietStep
  <1> QED
    BY <1>5, <1>10, <1>11, <1>12, <1>13

-----------------------------------------------------------------------------

\* Each step of the log, its visitors, the notary's threads, and each crash, keeps
\* the invariant.
THEOREM ServiceInvariant == ServiceInit /\ [][ServiceNext]_serviceVars => []ServiceIInv
  <1>1. ServiceInit => ServiceIInv
    <2> SUFFICES ASSUME ServiceInit
                 PROVE  ServiceIInv
      OBVIOUS
    <2>1. /\ visitors \in Visitors /\ lines = <<>> /\ book = {} /\ vouched = {}
          /\ conn = [k \in Conns |-> Free]
      BY DEF ServiceInit
    <2>2. conn \in [Conns -> ConnRecords] /\ \A k \in Conns : Sound(conn[k], lines, Hashes)
      BY <2>1, FreeIsSound DEF Sound
    <2>3. lines \in Logs /\ Hashes = {}
      BY <2>1 DEF Logs, Hashes
    <2> QED
      BY <2>1, <2>2, <2>3 DEF ServiceIInv, ServiceType, Growing
  <1>2. ServiceIInv /\ [ServiceNext]_serviceVars => ServiceIInv'
    <2> SUFFICES ASSUME ServiceIInv, [ServiceNext]_serviceVars
                 PROVE  ServiceIInv'
      OBVIOUS
    <2>1. CASE ServiceNext
      BY <2>1, LogKept, VisitorsKept, ReadingKept, ServeKept, ClientsKept, RestartKept, PowerLossKept
      DEF ServiceNext, Thread
    <2>2. CASE UNCHANGED serviceVars
      BY <2>2 DEF serviceVars, ServiceIInv, ServiceType, Growing, Hashes, HeadOf
    <2> QED
      BY <2>1, <2>2
  <1> QED
    BY <1>1, <1>2, PTL

\* The records that returned are witnessed for good, by the head of their own length
\* alone, and nothing else is witnessed but what the log once was
\* (notary.py:17-20, 36-39).
THEOREM WitnessedHistoryCorrect == ServiceSpec => []WitnessedHistory
  <1>1. ServiceIInv => WitnessedHistory
    <2> SUFFICES ASSUME ServiceIInv
                 PROVE  WitnessedHistory
      OBVIOUS
    <2>1. Hashes \subseteq Seq(LineBodies)
      BY DEF ServiceIInv, ServiceType, Hashes, Logs
    <2>2. ASSUME NEW h \in Hashes
          PROVE  ~ Contains(h, Forged)
      BY <2>1, <2>2, ServiceAssumption DEF Contains
    <2> QED
      BY <2>2 DEF ServiceIInv, Growing, WitnessedHistory
  <1> QED
    BY <1>1, ServiceInvariant, PTL DEF ServiceSpec

\* An auditor that is answered hears no less than was witnessed when it asked, and at a
\* length the head of that length, whatever was submitted or restarted in between
\* (notary.py:17-20, 176-184).
THEOREM AuditorsAreToldTheLatestCorrect == ServiceSpec => []AuditorsAreToldTheLatest
  <1>1. ServiceIInv => AuditorsAreToldTheLatest
    BY DEF ServiceIInv, Sound, Told, AuditorsAreToldTheLatest
  <1> QED
    BY <1>1, ServiceInvariant, PTL DEF ServiceSpec

-----------------------------------------------------------------------------
(* The key. *)

KeyType ==
    /\ key_file \in Keys \cup {NoFile, Torn}
    /\ pub_file \in Keys \cup {NoFile, Torn}
    /\ at \in [Processes -> {"down", "load", "create", "write", "publish", "up"}]
    /\ key \in [Processes -> Keys \cup {NoFile}]
    /\ found \in [Processes -> Keys \cup {NoFile, Torn}]
    /\ overwrote \in BOOLEAN /\ cut \in BOOLEAN
    /\ \A p \in Processes : at[p] \in {"create", "write", "publish", "up"} => key[p] \in Keys
    /\ issued \in SUBSET (Keys \X SignedHeads)

\* k is one of the keys the notary is known by.
KnownBy(k) ==
    \/ \E p \in Processes : at[p] \in {"publish", "up"} /\ key[p] = k
    \/ \E h \in SignedHeads : <<k, h>> \in issued
    \/ pub_file = k

OnFile(k) == key_file = k \/ (cut /\ key_file = Torn)

HasOneMaker(p) ==
    /\ at[p] = "create" => found[p] = NoFile
    /\ at[p] = "write" => key_file = Torn /\ ~ cut /\ \A q \in Processes \ {p} : at[q] # "write"

HasOneKey ==
    /\ \A p \in Processes : HasOneMaker(p)
    /\ cut => key_file = Torn
    /\ \A k \in Keys : KnownBy(k) => OnFile(k)
    /\ \A k, l \in Keys : KnownBy(k) /\ KnownBy(l) => k = l

Settled == ~ overwrote => HasOneKey

KeyIInv == KeyType /\ Settled

\* Every step keeps the types.
LEMMA KeyTypeKept ==
    ASSUME KeyType, KeyNext
    PROVE  KeyType'
  <1> USE KeyAssumption DEF KeyType, Move
  <1>1. ASSUME NEW p \in Processes, LookForKey(p)
        PROVE  KeyType'
    BY <1>1 DEF LookForKey, GenerateKey, files
  <1>2. ASSUME NEW p \in Processes, LoadKey(p)
        PROVE  KeyType'
    BY <1>2 DEF LoadKey, files, past
  <1>3. ASSUME NEW p \in Processes,
               CreateKeyFile(p) \/ WriteKey(p) \/ WriteKeyShort(p) \/ PublishKey(p)
        PROVE  KeyType'
    BY <1>3 DEF CreateKeyFile, WriteKey, WriteKeyShort, PublishKey, files, past
  <1>4. ASSUME NEW p \in Processes, WriteKeyRaises(p) \/ PublishKeyRaises(p) \/ KillSigner(p)
        PROVE  KeyType'
    BY <1>4 DEF WriteKeyRaises, PublishKeyRaises, KillSigner, files, past
  <1>5. ASSUME NEW p \in Processes, NEW h \in SignedHeads, SignHead(p, h)
        PROVE  KeyType'
    BY <1>5 DEF SignHead, Sign, files, past
  <1> QED
    BY <1>1, <1>2, <1>3, <1>4, <1>5 DEF KeyNext

\* A step that overwrites no key file leaves one key at most.
LEMMA SettledKept ==
    ASSUME KeyType, HasOneKey, KeyNext, ~ overwrote'
    PROVE  HasOneKey'
  <1> USE KeyAssumption DEF KeyType, Move
  <1>1. ASSUME NEW p \in Processes, LookForKey(p)
        PROVE  HasOneKey'
    <2>1. \A k \in Keys : KnownBy(k)' => KnownBy(k)
      BY <1>1 DEF LookForKey, GenerateKey, files, KnownBy
    <2>2. \A q \in Processes : HasOneMaker(q)'
      BY <1>1 DEF LookForKey, GenerateKey, files, HasOneKey, HasOneMaker
    <2> QED
      BY <1>1, <2>1, <2>2 DEF LookForKey, files, HasOneKey, OnFile
  <1>2. ASSUME NEW p \in Processes, LoadKey(p)
        PROVE  HasOneKey'
    <2>1. \A k \in Keys : KnownBy(k)' => KnownBy(k) \/ k = key_file
      BY <1>2 DEF LoadKey, files, past, KnownBy
    <2>2. \A q \in Processes : HasOneMaker(q)'
      BY <1>2 DEF LoadKey, files, past, HasOneKey, HasOneMaker
    <2>3. key_file' = key_file /\ cut' = cut
      BY <1>2 DEF LoadKey, files, past
    <2>4. CASE key_file \in Keys
      <3>1. \A k \in Keys : KnownBy(k) => k = key_file
        BY <2>4 DEF HasOneKey, OnFile
      <3> QED
        BY <2>1, <2>2, <2>3, <3>1 DEF HasOneKey, OnFile
    <2>5. CASE key_file \notin Keys
      <3>1. \A k \in Keys : KnownBy(k)' => KnownBy(k)
        BY <2>1, <2>5
      <3> QED
        BY <2>2, <2>3, <3>1 DEF HasOneKey, OnFile
    <2> QED
      BY <2>4, <2>5
  <1>3. ASSUME NEW p \in Processes, CreateKeyFile(p)
        PROVE  HasOneKey'
    <2>1. key_file = NoFile
      BY <1>3 DEF CreateKeyFile, HasOneKey, HasOneMaker
    <2>2. \A k \in Keys : ~ KnownBy(k)
      BY <2>1 DEF HasOneKey, OnFile
    <2>3. \A k \in Keys : ~ KnownBy(k)'
      BY <1>3, <2>2 DEF CreateKeyFile, KnownBy
    <2>4. ~ cut /\ \A q \in Processes : at[q] # "write"
      BY <2>1 DEF HasOneKey, HasOneMaker
    <2>5. \A q \in Processes : HasOneMaker(q)'
      BY <1>3, <2>4 DEF CreateKeyFile, HasOneKey, HasOneMaker
    <2>6. key_file' = Torn
      BY <1>3 DEF CreateKeyFile
    <2> QED
      BY <2>3, <2>5, <2>6 DEF HasOneKey
  <1>4. ASSUME NEW p \in Processes, WriteKey(p) \/ WriteKeyShort(p)
        PROVE  HasOneKey'
    <2>1. at[p] = "write" /\ at' = [at EXCEPT ![p] = "publish"] /\ key' = key
      BY <1>4 DEF WriteKey, WriteKeyShort
    <2>2. key_file = Torn /\ ~ cut /\ \A q \in Processes \ {p} : at[q] # "write"
      BY <2>1 DEF HasOneKey, HasOneMaker
    <2>3. \A k \in Keys : ~ KnownBy(k)
      BY <2>2 DEF HasOneKey, OnFile
    <2>4. \A k \in Keys : KnownBy(k)' => k = key[p]
      BY <1>4, <2>1, <2>3 DEF WriteKey, WriteKeyShort, files, past, KnownBy
    <2>5. OnFile(key[p])'
      BY <1>4, <2>1, <2>2 DEF WriteKey, WriteKeyShort, files, OnFile
    <2>6. \A q \in Processes : HasOneMaker(q)'
      BY <1>4, <2>1, <2>2 DEF WriteKey, WriteKeyShort, files, past, HasOneKey, HasOneMaker
    <2>7. cut' => key_file' = Torn
      BY <1>4, <2>2 DEF WriteKey, WriteKeyShort, files, past
    <2> QED
      BY <2>1, <2>4, <2>5, <2>6, <2>7 DEF HasOneKey, OnFile
  <1>5. ASSUME NEW p \in Processes,
               \/ PublishKey(p) \/ WriteKeyRaises(p) \/ PublishKeyRaises(p) \/ KillSigner(p)
               \/ \E h \in SignedHeads : SignHead(p, h)
        PROVE  HasOneKey'
    <2> USE DEF PublishKey, WriteKeyRaises, PublishKeyRaises, KillSigner, SignHead, Sign, files, past
    <2>1. \A k \in Keys : KnownBy(k)' => KnownBy(k)
      <3>1. CASE PublishKey(p)
        BY <3>1 DEF KnownBy
      <3>2. CASE WriteKeyRaises(p) \/ PublishKeyRaises(p) \/ KillSigner(p)
        <4>1. /\ \A q \in Processes : at'[q] \in {"publish", "up"} =>
                     at'[q] = at[q] /\ key'[q] = key[q]
              /\ issued' = issued /\ pub_file' \in {pub_file, Torn}
          BY <3>2
        <4> QED
          BY <4>1 DEF KnownBy
      <3>3. CASE \E h \in SignedHeads : SignHead(p, h)
        BY <3>3 DEF KnownBy
      <3> QED
        BY <1>5, <3>1, <3>2, <3>3
    <2>2. \A q \in Processes : HasOneMaker(q)'
      BY <1>5 DEF HasOneKey, HasOneMaker
    <2>3. key_file' = key_file /\ cut' = cut
      BY <1>5
    <2> QED
      BY <2>1, <2>2, <2>3 DEF HasOneKey, OnFile
  <1> QED
    BY <1>1, <1>2, <1>3, <1>4, <1>5 DEF KeyNext

\* Once a file was overwritten, that is remembered.
LEMMA OverwrittenForGood ==
    ASSUME KeyType, KeyNext, overwrote
    PROVE  overwrote'
  BY DEF KeyNext, LookForKey, LoadKey, CreateKeyFile, WriteKey, WriteKeyShort, WriteKeyRaises,
     PublishKey, PublishKeyRaises, SignHead, KillSigner, past

\* Each step keeps the key settled.
THEOREM KeyInvariant == KeySpec => []KeyIInv
  <1>1. KeyInit => KeyIInv
    BY KeyAssumption DEF KeyInit, KeyIInv, KeyType, Settled, HasOneKey, HasOneMaker, KnownBy, OnFile
  <1>2. KeyIInv /\ [KeyNext]_keyVars => KeyIInv'
    <2>1. CASE KeyNext
      BY <2>1, KeyTypeKept, SettledKept, OverwrittenForGood DEF KeyIInv, Settled
    <2>2. CASE UNCHANGED keyVars
      BY <2>2 DEF keyVars, files, past, KeyIInv, KeyType, Settled, HasOneKey, HasOneMaker, KnownBy, OnFile
    <2> QED
      BY <2>1, <2>2
  <1> QED
    BY <1>1, <1>2, PTL DEF KeySpec

\* No two keys sign, what is signed verifies under the published key if there is one to
\* read, and the key is on file unless a write was cut short, until two processes
\* overwrite each other's key file (signing.py:5-11, 83-92, 110).
THEOREM OneIdentityCorrect == KeySpec => []OneIdentity
  <1>1. KeyIInv => OneIdentity
    <2>1. ASSUME HasOneKey, NEW k \in Keys, NEW h \in SignedHeads, Sign(k, h) \in issued
          PROVE  /\ \A l \in Keys, g \in SignedHeads : Sign(l, g) \in issued => l = k
                 /\ pub_file \in Keys => VerifyHead(pub_file, h, Sign(k, h))
                 /\ OnFile(k)
      <3>1. KnownBy(k) /\ \A l \in Keys, g \in SignedHeads : Sign(l, g) \in issued => KnownBy(l)
        BY <2>1 DEF KnownBy, Sign
      <3>2. pub_file \in Keys => KnownBy(pub_file)
        BY DEF KnownBy
      <3> QED
        BY <2>1, <3>1, <3>2 DEF HasOneKey, VerifyHead
    <2> QED
      BY <2>1 DEF KeyIInv, Settled, OneIdentity, OnFile
  <1> QED
    BY <1>1, KeyInvariant, PTL
=============================================================================
