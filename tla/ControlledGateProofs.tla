------------------------ MODULE ControlledGateProofs ------------------------
(***************************************************************************)
(* What the gate guarantees, for any number of calls, packets, grants and  *)
(* faults and any configuration of the three layers.                       *)
(*                                                                         *)
(* The argument: the log is ahead of each call (Logs), so what runs is on  *)
(* record; a call in flight is marked whenever the agent holds what it     *)
(* asks for (Present), so two reads of changing grants do no harm; each    *)
(* grant is of a cleared call past the runtime's turn, one call each       *)
(* (Consumption); and what is granted and has not run yet is set aside for *)
(* it, a step, its charges and its nonce (SetAside, OneUse), so a tool     *)
(* still finds its session within every limit when it runs at last.        *)
(***************************************************************************)
EXTENDS ControlledGate, FiniteSetTheorems, SequenceTheorems, TLAPS

\* The tables of stages, looked up.
LEMMA Tables ==
    /\ DOMAIN Recording = {"record capability", "record policy", "record runtime"}
    /\ Recording["record capability"] = "capability"
    /\ Recording["record policy"] = "policy"
    /\ Recording["record runtime"] = "runtime"
    /\ AfterRecord["record capability"] = "policy"
    /\ AfterRecord["record policy"] = "stop flag"
    /\ AfterRecord["record runtime"] = "execute"
  BY DEF Recording, AfterRecord

\* What the gate needs of a packet.
LEMMA PacketFacts ==
    ASSUME NEW a \in Actions
    PROVE  /\ a.session \in Sessions
           /\ Redacted[a] \in Actions
           /\ a # NoAction
  <1>1. a \in Action /\ Redacted[a] \in Action
    BY PacketAssumption, GateAssumption
  <1>2. a.session \in Sessions /\ Redacted[a] \in Actions
    BY <1>1, GateAssumption DEF Action
  <1> QED
    BY <1>2, CallAssumption

\* A charge is a natural number, and the ledger's copy of it the same.
LEMMA ChargeFacts ==
    ASSUME NEW a \in Actions
    PROVE  /\ Runtime!Unpriced(a) <=> Unpriced(a)
           /\ \A k : Runtime!Charge(a, k) = Charge(a, k)
           /\ ~ Unpriced(a) => \A k \in CostKeys : Charge(a, k) \in Nat
  <1>1. Runtime!Unpriced(a) <=> Unpriced(a)
    BY DEF Unpriced, Runtime!Unpriced, BudgetedKeys, Runtime!BudgetedKeys
  <1>2. \A k : Runtime!Charge(a, k) = Charge(a, k)
    BY DEF Charge, Runtime!Charge
  <1>3. ASSUME ~ Unpriced(a), NEW k \in CostKeys
        PROVE  Charge(a, k) \in Nat
    BY <1>3, PacketAssumption, DistinctAssumption DEF Charge, Unpriced, Action
  <1> QED
    BY <1>1, <1>2, <1>3

-----------------------------------------------------------------------------
(* Room: what calls in flight are still owed, added up.                    *)

\* W weighs sets of calls by the weights w of their members.
Weighs(W, w) ==
    /\ W \in [SUBSET Calls -> Nat]
    /\ W[{}] = 0
    /\ \A X \in SUBSET Calls, c \in Calls : c \notin X => W[X \cup {c}] = W[X] + w[c]

Fits(w, n) == \E W : Weighs(W, w) /\ W[Calls] <= n

\* Nothing has weight 0.
LEMMA NothingFits ==
    ASSUME NEW n \in Nat
    PROVE  Fits([c \in Calls |-> 0], n)
  <1> DEFINE W == [X \in SUBSET Calls |-> 0]
  <1>1. Weighs(W, [c \in Calls |-> 0]) /\ W[Calls] <= n
    BY DEF Weighs
  <1> QED
    BY <1>1, Zenon DEF Fits

\* Room is not lost where there is more of it.
LEMMA FitsMore ==
    ASSUME NEW w, NEW n \in Int, Fits(w, n), NEW m \in Int, n <= m
    PROVE  Fits(w, m)
  <1>1. PICK W : Weighs(W, w) /\ W[Calls] <= n
    BY DEF Fits
  <1>2. W[Calls] <= m
    BY <1>1 DEF Weighs
  <1> QED
    BY <1>1, <1>2, Zenon DEF Fits

\* One call's weight changes, and the room with it; what it weighed was there.
LEMMA FitsChanged ==
    ASSUME NEW w \in [Calls -> Nat], NEW n \in Int, Fits(w, n), NEW c \in Calls, NEW x \in Nat
    PROVE  /\ w[c] <= n
           /\ Fits([w EXCEPT ![c] = x], n - w[c] + x)
  <1>1. PICK W : Weighs(W, w) /\ W[Calls] <= n
    BY DEF Fits
  <1> DEFINE u == [w EXCEPT ![c] = x]
             V == [X \in SUBSET Calls |-> IF c \in X THEN W[X \ {c}] + x ELSE W[X]]
  <1>2. \A X \in SUBSET Calls : W[X] \in Nat /\ (c \in X => W[X] = W[X \ {c}] + w[c])
    <2> SUFFICES ASSUME NEW X \in SUBSET Calls
                 PROVE  W[X] \in Nat /\ (c \in X => W[X] = W[X \ {c}] + w[c])
      OBVIOUS
    <2>1. c \in X => (X \ {c}) \cup {c} = X
      OBVIOUS
    <2>2. X \ {c} \in SUBSET Calls /\ c \notin X \ {c}
      OBVIOUS
    <2>3. W[(X \ {c}) \cup {c}] = W[X \ {c}] + w[c]
      BY <1>1, <2>2 DEF Weighs
    <2> QED
      BY <1>1, <2>1, <2>3 DEF Weighs
  <1>3. W[Calls] = W[Calls \ {c}] + w[c] /\ W[Calls \ {c}] \in Nat
    BY <1>2
  <1>4. Weighs(V, u)
    <2>1. V \in [SUBSET Calls -> Nat]
      BY <1>2
    <2>2. V[{}] = 0
      BY <1>1 DEF Weighs
    <2>3. ASSUME NEW X \in SUBSET Calls, NEW d \in Calls, d \notin X
          PROVE  V[X \cup {d}] = V[X] + u[d]
      <3>1. CASE d = c
        <4>1. (X \cup {c}) \ {c} = X /\ X \cup {c} \in SUBSET Calls
          BY <2>3, <3>1
        <4> QED
          BY <2>3, <3>1, <4>1
      <3>2. CASE d # c /\ c \in X
        <4>1. /\ (X \cup {d}) \ {c} = (X \ {c}) \cup {d}
              /\ X \ {c} \in SUBSET Calls /\ d \notin X \ {c} /\ X \cup {d} \in SUBSET Calls
          BY <2>3, <3>2
        <4>2. W[(X \ {c}) \cup {d}] = W[X \ {c}] + w[d]
          BY <1>1, <4>1 DEF Weighs
        <4>3. W[X \ {c}] \in Nat /\ w[d] \in Nat
          BY <1>2, <4>1
        <4> QED
          BY <3>2, <4>1, <4>2, <4>3
      <3>3. CASE d # c /\ c \notin X
        <4>1. W[X \cup {d}] = W[X] + w[d] /\ X \cup {d} \in SUBSET Calls
          BY <1>1, <2>3 DEF Weighs
        <4> QED
          BY <3>3, <4>1
      <3> QED
        BY <3>1, <3>2, <3>3
    <2> QED
      BY <2>1, <2>2, <2>3 DEF Weighs
  <1>5. V[Calls] = W[Calls \ {c}] + x
    OBVIOUS
  <1>6. V[Calls] <= n - w[c] + x
    <2> HIDE DEF V
    <2> QED
      BY <1>1, <1>3, <1>5
  <1>7. Fits(u, n - w[c] + x)
    BY <1>4, <1>6, Zenon DEF Fits
  <1> QED
    BY <1>1, <1>3, <1>7

-----------------------------------------------------------------------------
(* The inductive invariant.                                                *)

\* What a call knows at each stage of its way.
Stages ==
    \A c \in Calls :
        /\ pc[c] = "new" => effective[c] = NoAction
        /\ pc[c] \notin {"new", "done"} =>
             /\ presented[c] \in Actions /\ effective[c] \in Actions
        /\ pc[c] \in {"record capability", "record runtime"} => verdict[c] # "transform"
        /\ pc[c] = "execute" => verdict[c] = "allow"

CapabilityPassed == {"policy", "record policy", "stop flag", "runtime", "record runtime", "execute"}

PolicyPassed == {"stop flag", "runtime", "record runtime", "execute"}

\* The log is ahead of the call.
AheadOf(c) ==
    /\ pc[c] \in CapabilityPassed => Logged(c, "capability", {"allow"})
    /\ pc[c] \in PolicyPassed => Logged(c, "policy", {"allow", "transform"})
    /\ pc[c] = "execute" =>
         \E e \in log : e.call = c /\ e.layer = "runtime" /\ e.verdict = "allow"
                            /\ e.packet = effective[c]
    /\ pc[c] \notin PolicyPassed \cup {"done"} =>
         \A e \in log : e.call = c => e.layer # "policy"

Logs == \A c \in Calls : AheadOf(c)

\* A call that was let through, or may yet be with what the agent holds now, has held it.
PresentIn(c) ==
    /\ pc[c] \notin {"new", "done"} /\ Holds(grants, presented[c]) => c \in held
    /\ pc[c] \in CapabilityPassed => c \in held
    /\ pc[c] = "record capability" /\ verdict[c] = "allow" => c \in held

Present == \A c \in Calls : PresentIn(c)

Cleared(s) ==
    {c \in Calls :
        /\ effective[c] # NoAction /\ effective[c].session = s
        /\ Logged(c, "capability", {"allow"})
        /\ Logged(c, "policy", {"allow", "transform"})}

Presenting == {c \in Calls : effective[c] # NoAction}

\* Cleared, and past the one step that may consume.
Consumers(s) == {c \in Cleared(s) : pc[c] \notin {"stop flag", "runtime"}}

Consumption ==
    /\ IsFiniteSet(Presenting)
    /\ \A s \in Sessions : Len(granted[s]) <= Cardinality(Consumers(s))

\* Granted, and the tool not run yet.
Pending(c) == pc[c] = "execute" \/ (pc[c] = "record runtime" /\ verdict[c] = "allow")

PendingIn(s, c) == Pending(c) /\ effective[c].session = s

Owed(s) == [c \in Calls |-> IF PendingIn(s, c) THEN 1 ELSE 0]
OwedCharge(s, k) == [c \in Calls |-> IF PendingIn(s, c) THEN Charge(effective[c], k) ELSE 0]

IsIn(a, h) == \E i \in DOMAIN h : h[i] = a

\* What is granted and has not run is set aside for it.
SetAside ==
    /\ \A c \in Calls : Pending(c) =>
         /\ ~ Unpriced(effective[c])
         /\ IsIn(effective[c], granted[effective[c].session])
    /\ \A s \in Sessions :
         /\ \A i \in DOMAIN ran[s] : IsIn(ran[s][i], granted[s])
         /\ Fits(Owed(s), Len(granted[s]) - Len(ran[s]))
         /\ \A k \in CostKeys : Fits(OwedCharge(s, k), spent[s][k] - charged[s][k])

\* A nonce is of one call, that runs once.
OneUse ==
    \A c \in Calls : Pending(c) /\ effective[c].nonce # NoNonce =>
        /\ \A i \in DOMAIN ran[effective[c].session] :
             ran[effective[c].session][i].nonce # effective[c].nonce
        /\ \A d \in Calls \ {c} :
             Pending(d) /\ effective[d].session = effective[c].session =>
                effective[d].nonce # effective[c].nonce

IInv ==
    /\ TypeOK
    /\ Stages
    /\ Logs /\ RunsAreLogged
    /\ Present /\ AuthorisedDuringCall
    /\ Consumption
    /\ SetAside
    /\ OneUse

-----------------------------------------------------------------------------
(* Types.                                                                  *)

\* A line of the log is well formed.
LEMMA LineType ==
    ASSUME TypeOK, Stages, NEW c \in Calls, pc[c] \in DOMAIN Recording
    PROVE  Line(c) \in [call : Calls, layer : {"capability", "policy", "runtime"},
                        verdict : {"allow", "deny", "transform"}, packet : Actions]
  <1>1. presented[c] \in Actions /\ effective[c] \in Actions
    BY Tables DEF Stages
  <1> QED
    BY <1>1, Tables DEF Line, TypeOK

\* A record leads to the next layer.
LEMMA NextStage ==
    ASSUME NEW l \in DOMAIN Recording
    PROVE  AfterRecord[l] \in {"policy", "stop flag", "execute"}
  BY Tables

\* What a step of the ledger does to the totals.
LEMMA GrantFacts ==
    ASSUME TypeOK, NEW a \in Actions,
           Runtime!Permitted(a.session, a), Runtime!Grant(a)
    PROVE  /\ ~ Unpriced(a)
           /\ a.session \in Sessions
           /\ \A k \in CostKeys : Charge(a, k) \in Nat
           /\ granted' = [granted EXCEPT ![a.session] = Append(granted[a.session], a)]
           /\ \A s \in Sessions :
                granted'[s] = IF s = a.session THEN Append(granted[s], a) ELSE granted[s]
           /\ spent' \in [Sessions -> [CostKeys -> Nat]]
           /\ \A s \in Sessions, k \in CostKeys :
                spent'[s][k] = spent[s][k] + IF s = a.session THEN Charge(a, k) ELSE 0
           /\ a.nonce # NoNonce => \A i \in DOMAIN granted[a.session] : granted[a.session][i].nonce # a.nonce
  <1>1. ~ Unpriced(a) /\ a.session \in Sessions
    BY ChargeFacts, PacketFacts DEF Runtime!Permitted, Runtime!BudgetLeft
  <1>2. \A k \in CostKeys : Charge(a, k) \in Nat
    BY <1>1, ChargeFacts
  <1>3. granted' = [granted EXCEPT ![a.session] = Append(granted[a.session], a)]
    BY DEF Runtime!Grant
  <1>4. \A s \in Sessions :
           granted'[s] = IF s = a.session THEN Append(granted[s], a) ELSE granted[s]
    BY <1>1, <1>3 DEF TypeOK
  <1>5. spent' = [spent EXCEPT ![a.session] = [k \in CostKeys |-> spent[a.session][k] + Charge(a, k)]]
    BY ChargeFacts DEF Runtime!Grant
  <1>t. spent \in [Sessions -> [CostKeys -> Nat]]
    BY DEF TypeOK
  <1>6. [k \in CostKeys |-> spent[a.session][k] + Charge(a, k)] \in [CostKeys -> Nat]
    BY <1>1, <1>2, <1>t
  <1>7. spent' \in [Sessions -> [CostKeys -> Nat]]
    BY <1>1, <1>t, <1>5, <1>6
  <1>8. \A s \in Sessions, k \in CostKeys :
           spent'[s][k] = spent[s][k] + IF s = a.session THEN Charge(a, k) ELSE 0
    BY <1>1, <1>t, <1>5
  <1>9. a.nonce # NoNonce => \A i \in DOMAIN granted[a.session] : granted[a.session][i].nonce # a.nonce
    BY DEF Runtime!Permitted, Runtime!NeverReplayed
  <1> QED
    BY <1>1, <1>2, <1>3, <1>4, <1>7, <1>8, <1>9

\* What a run does to the history of runs.
LEMMA RanFacts ==
    ASSUME TypeOK, NEW a \in Actions, ~ Unpriced(a), Ran(a)
    PROVE  /\ ran' = [ran EXCEPT ![a.session] = Append(ran[a.session], a)]
           /\ \A s \in Sessions : ran'[s] = IF s = a.session THEN Append(ran[s], a) ELSE ran[s]
           /\ charged' \in [Sessions -> [CostKeys -> Nat]]
           /\ \A s \in Sessions, k \in CostKeys :
                charged'[s][k] = charged[s][k] + IF s = a.session THEN Charge(a, k) ELSE 0
  <1>1. a.session \in Sessions /\ \A k \in CostKeys : Charge(a, k) \in Nat
    BY PacketFacts, ChargeFacts
  <1>2. charged \in [Sessions -> [CostKeys -> Nat]] /\ ran \in [Sessions -> Seq(Actions)]
    BY DEF TypeOK
  <1>3. [k \in CostKeys |-> charged[a.session][k] + Charge(a, k)] \in [CostKeys -> Nat]
    BY <1>1, <1>2
  <1>4. charged' = [charged EXCEPT ![a.session] = [k \in CostKeys |-> charged[a.session][k] + Charge(a, k)]]
    BY DEF Ran
  <1>5. \A s \in Sessions, k \in CostKeys :
           charged'[s][k] = charged[s][k] + IF s = a.session THEN Charge(a, k) ELSE 0
    BY <1>1, <1>2, <1>4
  <1>6. charged' \in [Sessions -> [CostKeys -> Nat]]
    BY <1>1, <1>2, <1>3, <1>4
  <1> QED
    BY <1>1, <1>2, <1>5, <1>6 DEF Ran

\* Appending to a history: what is at each position afterwards.
LEMMA AppendedHistory ==
    ASSUME NEW h \in Seq(Actions), NEW a \in Actions
    PROVE  /\ Append(h, a) \in Seq(Actions)
           /\ Len(h) \in Nat
           /\ Len(Append(h, a)) = Len(h) + 1
           /\ DOMAIN Append(h, a) = DOMAIN h \cup {Len(h) + 1}
           /\ \A i \in DOMAIN h : Append(h, a)[i] = h[i]
           /\ Append(h, a)[Len(h) + 1] = a
  OBVIOUS

\* Types are kept.
LEMMA TypeKept ==
    ASSUME TypeOK, Stages, SetAside, Next
    PROVE  TypeOK'
  <1>1. ASSUME NEW c \in Calls, NEW a \in Actions, Dispatch(c, a)
        PROVE  TypeOK'
    BY <1>1 DEF TypeOK, Dispatch, Goto, ledger, effects
  <1>2. ASSUME NEW c \in Calls, RefuseNonAction(c) \/ EvaluateRaises(c) \/ ExecuteRaises(c)
        PROVE  TypeOK'
    BY <1>2 DEF TypeOK, RefuseNonAction, EvaluateRaises, ExecuteRaises, Answer, Goto, ledger, effects
  <1>3. ASSUME NEW c \in Calls, CheckHeld(c) \/ CheckWildcard(c) \/ CheckCapability(c)
        PROVE  TypeOK'
    BY <1>3, Tables DEF TypeOK, CheckHeld, CheckWildcard, CheckCapability, Rule, Goto, ledger, effects
  <1>4. ASSUME NEW c \in Calls, Evaluate(c)
        PROVE  TypeOK'
    <2>1. presented[c] \in Actions /\ Redacted[presented[c]] \in Actions
      BY <1>4, PacketFacts DEF Stages, Evaluate
    <2> QED
      BY <1>4, <2>1, Tables DEF TypeOK, Evaluate, Rule, Goto, ledger, effects
  <1>5. ASSUME NEW c \in Calls, CheckStopped(c)
        PROVE  TypeOK'
    BY <1>5, Tables DEF TypeOK, CheckStopped, Rule, Goto, ledger, effects
  <1>6. ASSUME NEW c \in Calls, CheckRuntime(c)
        PROVE  TypeOK'
    <2>1. effective[c] \in Actions
      BY <1>6 DEF Stages, CheckRuntime
    <2>2. granted' \in [Sessions -> Seq(Actions)] /\ spent' \in [Sessions -> [CostKeys -> Nat]]
      <3>1. CASE Runtime!Permitted(effective[c].session, effective[c])
        <4>1. Runtime!Grant(effective[c])
          BY <1>6, <3>1 DEF CheckRuntime
        <4>2. granted' \in [Sessions -> Seq(Actions)] /\ spent' \in [Sessions -> [CostKeys -> Nat]]
          <5>1. granted \in [Sessions -> Seq(Actions)]
            BY DEF TypeOK
          <5>2. /\ granted' = [granted EXCEPT ![effective[c].session] =
                                   Append(granted[effective[c].session], effective[c])]
                /\ spent' \in [Sessions -> [CostKeys -> Nat]]
                /\ effective[c].session \in Sessions
            BY <2>1, <3>1, <4>1, GrantFacts
          <5> QED
            BY <2>1, <5>1, <5>2, AppendedHistory
        <4> QED
          BY <4>2
      <3>2. CASE ~ Runtime!Permitted(effective[c].session, effective[c])
        BY <1>6, <3>2 DEF CheckRuntime, ledger, TypeOK
      <3> QED
        BY <3>1, <3>2
    <2> QED
      BY <1>6, <2>2, Tables DEF TypeOK, CheckRuntime, Rule, Goto, effects
  <1>7. ASSUME NEW c \in Calls, Record(c) \/ RecordRaises(c)
        PROVE  TypeOK'
    <2>1. pc[c] \in DOMAIN Recording
      BY <1>7 DEF Record, RecordRaises
    <2>2. log' \subseteq [call : Calls, layer : {"capability", "policy", "runtime"},
                          verdict : {"allow", "deny", "transform"}, packet : Actions]
      <3>1. log' \subseteq log \cup {Line(c)}
        BY <1>7 DEF Record, RecordRaises
      <3> QED
        BY <2>1, <3>1, LineType DEF TypeOK
    <2>3. CASE Answer(c, "deny")
      BY <1>7, <2>2, <2>3 DEF TypeOK, Record, RecordRaises, Answer, Goto, ledger, effects
    <2>4. CASE Goto(c, AfterRecord[pc[c]]) /\ outcome' = outcome
      BY <1>7, <2>1, <2>2, <2>4, NextStage DEF TypeOK, Record, RecordRaises, Goto, ledger, effects
    <2> QED
      BY <1>7, <2>3, <2>4 DEF Record, RecordRaises
  <1>8. ASSUME NEW c \in Calls, Execute(c)
        PROVE  TypeOK'
    <2>1. effective[c] \in Actions /\ ~ Unpriced(effective[c])
      BY <1>8 DEF Stages, SetAside, Pending, Execute
    <2>2. ran' \in [Sessions -> Seq(Actions)] /\ charged' \in [Sessions -> [CostKeys -> Nat]]
      <3>1. ran \in [Sessions -> Seq(Actions)] /\ effective[c].session \in Sessions
        BY <2>1, PacketFacts DEF TypeOK
      <3>2. /\ ran' = [ran EXCEPT ![effective[c].session] = Append(ran[effective[c].session], effective[c])]
            /\ charged' \in [Sessions -> [CostKeys -> Nat]]
        BY <1>8, <2>1, RanFacts DEF Execute
      <3> QED
        BY <2>1, <3>1, <3>2, AppendedHistory
    <2> QED
      BY <1>8, <2>2 DEF TypeOK, Execute, Answer, Goto, ledger
  <1>9. ASSUME NEW k \in Capabilities, Grant(k) \/ Revoke(k)
        PROVE  TypeOK'
    BY <1>9 DEF TypeOK, Grant, Revoke, SetGrants, ledger, calls, effects
  <1>10. ASSUME Stop
         PROVE  TypeOK'
    BY <1>10 DEF TypeOK, Stop, ledger, calls, effects
  <1> QED
    BY <1>1, <1>2, <1>3, <1>4, <1>5, <1>6, <1>7, <1>8, <1>9, <1>10 DEF Next

\* A call keeps what it knows.
LEMMA StagesKept ==
    ASSUME TypeOK, Stages, Next
    PROVE  Stages'
  <1>1. ASSUME NEW c \in Calls, NEW a \in Actions, Dispatch(c, a)
        PROVE  Stages'
    BY <1>1 DEF TypeOK, Stages, Dispatch, Goto
  <1>2. ASSUME NEW c \in Calls,
               RefuseNonAction(c) \/ EvaluateRaises(c) \/ Execute(c) \/ ExecuteRaises(c)
        PROVE  Stages'
    BY <1>2 DEF TypeOK, Stages, RefuseNonAction, EvaluateRaises, Execute, ExecuteRaises, Answer, Goto
  <1>3. ASSUME NEW c \in Calls, CheckHeld(c) \/ CheckWildcard(c) \/ CheckCapability(c)
        PROVE  Stages'
    <2>1. CASE CheckHeld(c)
      BY <2>1 DEF TypeOK, Stages, CheckHeld, Rule, Goto
    <2>2. CASE CheckWildcard(c)
      BY <2>2 DEF TypeOK, Stages, CheckWildcard, Rule, Goto
    <2>3. CASE CheckCapability(c)
      BY <2>3 DEF TypeOK, Stages, CheckCapability, Rule, Goto
    <2> QED
      BY <1>3, <2>1, <2>2, <2>3
  <1>4. ASSUME NEW c \in Calls, Evaluate(c)
        PROVE  Stages'
    <2>1. presented[c] \in Actions /\ effective[c] \in Actions
          /\ Redacted[presented[c]] \in Actions
      BY <1>4, PacketFacts DEF Stages, Evaluate
    <2>2. pc' = [pc EXCEPT ![c] = "record policy"] /\ presented' = presented
      BY <1>4 DEF Evaluate, Rule, Goto
    <2>3. \E v : verdict' = [verdict EXCEPT ![c] = v]
      BY <1>4 DEF Evaluate, Rule
    <2>4. effective' = effective \/ effective' = [effective EXCEPT ![c] = Redacted[presented[c]]]
      BY <1>4 DEF Evaluate
    <2> QED
      BY <2>1, <2>2, <2>3, <2>4 DEF TypeOK, Stages
  <1>5. ASSUME NEW c \in Calls, CheckStopped(c) \/ CheckRuntime(c)
        PROVE  Stages'
    BY <1>5 DEF TypeOK, Stages, CheckStopped, CheckRuntime, Rule, Goto
  <1>6. ASSUME NEW c \in Calls, Record(c) \/ RecordRaises(c)
        PROVE  Stages'
    <2>1. pc[c] \in {"record capability", "record policy", "record runtime"}
      BY <1>6, Tables DEF Record, RecordRaises
    <2>2. presented' = presented /\ effective' = effective /\ verdict' = verdict
      BY <1>6 DEF Record, RecordRaises
    <2>3. CASE Answer(c, "deny")
      BY <2>2, <2>3 DEF TypeOK, Stages, Answer, Goto
    <2>4. CASE verdict[c] # "deny" /\ Goto(c, AfterRecord[pc[c]])
      <3>1. /\ presented[c] \in Actions /\ effective[c] \in Actions
            /\ pc[c] = "record runtime" => verdict[c] = "allow"
        BY <2>1, <2>4 DEF Stages, TypeOK
      <3>2. /\ pc' = [pc EXCEPT ![c] = AfterRecord[pc[c]]]
            /\ AfterRecord[pc[c]] \in {"policy", "stop flag", "execute"}
            /\ AfterRecord[pc[c]] = "execute" => pc[c] = "record runtime"
        BY <2>1, <2>4, Tables DEF Goto
      <3> QED
        BY <2>2, <3>1, <3>2 DEF TypeOK, Stages
    <2> QED
      BY <1>6, <2>3, <2>4 DEF Record, RecordRaises
  <1>7. ASSUME NEW k \in Capabilities, Grant(k) \/ Revoke(k)
        PROVE  Stages'
    BY <1>7 DEF Stages, Grant, Revoke, SetGrants, calls
  <1>8. ASSUME Stop
        PROVE  Stages'
    BY <1>8 DEF Stages, Stop, calls
  <1> QED
    BY <1>1, <1>2, <1>3, <1>4, <1>5, <1>6, <1>7, <1>8 DEF Next

-----------------------------------------------------------------------------
(* The log accounts for what runs.                                         *)

\* No line is ever taken back.
LEMMA LogGrows ==
    ASSUME Next
    PROVE  /\ log \subseteq log'
           /\ \A c, l, v : Logged(c, l, v) => Logged(c, l, v)'
  <1>1. log \subseteq log'
    BY DEF Next, Dispatch, RefuseNonAction, CheckHeld, CheckWildcard, CheckCapability, Evaluate,
       EvaluateRaises, CheckStopped, CheckRuntime, Record, RecordRaises, Execute, ExecuteRaises,
       Grant, Revoke, SetGrants, Stop
  <1> QED
    BY <1>1 DEF Logged

\* Nothing that ran is taken back.
LEMMA RanGrows ==
    ASSUME TypeOK, Stages, SetAside, Next, NEW s \in Sessions
    PROVE  \A i \in DOMAIN ran[s] : i \in DOMAIN ran'[s] /\ ran'[s][i] = ran[s][i]
  <1>1. CASE \E c \in Calls : Execute(c)
    <2>1. PICK c \in Calls : Execute(c)
      BY <1>1
    <2>2. effective[c] \in Actions /\ ~ Unpriced(effective[c])
      BY <2>1 DEF Stages, SetAside, Pending, Execute
    <2>3. ran'[s] = IF s = effective[c].session THEN Append(ran[s], effective[c]) ELSE ran[s]
      BY <2>1, <2>2, RanFacts DEF Execute
    <2>4. ran[s] \in Seq(Actions)
      BY DEF TypeOK
    <2> QED
      BY <2>2, <2>3, <2>4, AppendedHistory
  <1>2. CASE ~ \E c \in Calls : Execute(c)
    <2>1. ran' = ran
      BY <1>2 DEF Next, Dispatch, RefuseNonAction, CheckHeld, CheckWildcard, CheckCapability, Evaluate,
         EvaluateRaises, CheckStopped, CheckRuntime, Record, RecordRaises, ExecuteRaises,
         Grant, Revoke, SetGrants, Stop, effects
    <2> QED
      BY <2>1
  <1> QED
    BY <1>1, <1>2

\* A call that writes nothing and passes no layer: the log is as far ahead as it was.
LEMMA StaysAhead ==
    ASSUME NEW d \in Calls, AheadOf(d),
           log \subseteq log', \A e \in log' : e \in log \/ e.call # d,
           pc'[d] \in CapabilityPassed => pc[d] \in CapabilityPassed,
           pc'[d] \in PolicyPassed => pc[d] \in PolicyPassed,
           pc'[d] = "execute" => pc[d] = "execute" /\ effective'[d] = effective[d],
           pc'[d] \notin PolicyPassed \cup {"done"} => pc[d] \notin PolicyPassed \cup {"done"}
    PROVE  AheadOf(d)'
  <1>1. pc'[d] \in CapabilityPassed => Logged(d, "capability", {"allow"})'
    BY DEF AheadOf, Logged
  <1>2. pc'[d] \in PolicyPassed => Logged(d, "policy", {"allow", "transform"})'
    BY DEF AheadOf, Logged
  <1>3. pc'[d] = "execute" =>
             \E e \in log' : e.call = d /\ e.layer = "runtime" /\ e.verdict = "allow"
                                /\ e.packet = effective'[d]
    BY DEF AheadOf
  <1>4. pc'[d] \notin PolicyPassed \cup {"done"} =>
             \A e \in log' : e.call = d => e.layer # "policy"
    BY DEF AheadOf
  <1> QED
    BY <1>1, <1>2, <1>3, <1>4 DEF AheadOf, CapabilityPassed, PolicyPassed

\* A record puts the log ahead of the stage it lets the call reach.
LEMMA RecordKeepsAhead ==
    ASSUME TypeOK, Stages, NEW c \in Calls, AheadOf(c), Record(c)
    PROVE  AheadOf(c)'
  <1>1. /\ pc[c] \in {"record capability", "record policy", "record runtime"}
        /\ log' = log \cup {Line(c)} /\ effective'[c] = effective[c]
        /\ Line(c).call = c /\ Line(c).layer = Recording[pc[c]] /\ Line(c).verdict = verdict[c]
        /\ pc[c] = "record runtime" => Line(c).packet = effective[c]
    BY Tables DEF Record, Line
  <1>2. Line(c) \in log' /\ log \subseteq log'
    BY <1>1
  <1>3. CASE verdict[c] = "deny"
    <2>1. pc'[c] = "done"
      BY <1>3 DEF Record, Answer, Goto, TypeOK
    <2> QED
      BY <2>1 DEF AheadOf, CapabilityPassed, PolicyPassed
  <1>4. CASE verdict[c] # "deny"
    <2>1. /\ pc'[c] = AfterRecord[pc[c]]
          /\ pc[c] # "record policy" => verdict[c] = "allow"
          /\ verdict[c] \in {"allow", "transform"}
      BY <1>1, <1>4 DEF Record, Goto, TypeOK, Stages
    <2>2. CASE pc[c] = "record capability"
      <3>1. pc'[c] = "policy" /\ Line(c).layer = "capability" /\ Line(c).verdict = "allow"
        BY <1>1, <2>1, <2>2, Tables
      <3>2. Logged(c, "capability", {"allow"})'
        BY <1>1, <1>2, <3>1 DEF Logged
      <3>3. \A e \in log' : e.call = c => e.layer # "policy"
        BY <1>1, <2>2, <3>1 DEF AheadOf, PolicyPassed
      <3> QED
        BY <3>1, <3>2, <3>3 DEF AheadOf, CapabilityPassed, PolicyPassed
    <2>3. CASE pc[c] = "record policy"
      <3>1. pc'[c] = "stop flag" /\ Line(c).layer = "policy"
        BY <1>1, <2>1, <2>3, Tables
      <3>2. Logged(c, "capability", {"allow"})'
        BY <1>2, <2>3 DEF AheadOf, CapabilityPassed, Logged
      <3>3. Logged(c, "policy", {"allow", "transform"})'
        BY <1>1, <1>2, <2>1, <3>1 DEF Logged
      <3> QED
        BY <3>1, <3>2, <3>3 DEF AheadOf, CapabilityPassed, PolicyPassed
    <2>4. CASE pc[c] = "record runtime"
      <3>1. pc'[c] = "execute" /\ Line(c).layer = "runtime" /\ Line(c).verdict = "allow"
        BY <1>1, <2>1, <2>4, Tables
      <3>2. Logged(c, "capability", {"allow"})'
        BY <1>2, <2>4 DEF AheadOf, CapabilityPassed, Logged
      <3>3. Logged(c, "policy", {"allow", "transform"})'
        BY <1>2, <2>4 DEF AheadOf, PolicyPassed, Logged
      <3> QED
        BY <1>1, <1>2, <2>4, <3>1, <3>2, <3>3 DEF AheadOf, CapabilityPassed, PolicyPassed
    <2> QED
      BY <1>1, <2>2, <2>3, <2>4
  <1> QED
    BY <1>3, <1>4

\* The log stays ahead of each call.
LEMMA LogsKept ==
    ASSUME TypeOK, Stages, Logs, Next
    PROVE  Logs'
  <1> SUFFICES ASSUME NEW d \in Calls
               PROVE  AheadOf(d)'
    BY DEF Logs
  <1>0. AheadOf(d)
    BY DEF Logs
  <1> USE DEF CapabilityPassed, PolicyPassed
  <1>1. ASSUME NEW c \in Calls, NEW a \in Actions, Dispatch(c, a)
        PROVE  AheadOf(d)'
    <2>1. /\ pc[c] = "new" /\ pc' = [pc EXCEPT ![c] = "grants"] /\ log' = log
          /\ effective' = [effective EXCEPT ![c] = a]
      BY <1>1 DEF Dispatch, Goto
    <2> QED
      BY <1>0, <2>1, StaysAhead DEF TypeOK
  <1>2. ASSUME NEW c \in Calls,
               RefuseNonAction(c) \/ EvaluateRaises(c) \/ Execute(c) \/ ExecuteRaises(c)
        PROVE  AheadOf(d)'
    <2>1. pc' = [pc EXCEPT ![c] = "done"] /\ log' = log /\ effective' = effective
      BY <1>2 DEF RefuseNonAction, EvaluateRaises, Execute, ExecuteRaises, Answer, Goto
    <2> QED
      BY <1>0, <2>1, StaysAhead DEF TypeOK
  <1>3. ASSUME NEW c \in Calls, CheckHeld(c) \/ CheckWildcard(c) \/ CheckCapability(c)
        PROVE  AheadOf(d)'
    <2>1. /\ pc[c] \in {"grants", "wildcard", "capability"}
          /\ \E l \in {"wildcard", "capability", "record capability"} : pc' = [pc EXCEPT ![c] = l]
          /\ log' = log /\ effective' = effective
      BY <1>3 DEF CheckHeld, CheckWildcard, CheckCapability, Rule, Goto
    <2> QED
      BY <1>0, <2>1, StaysAhead DEF TypeOK
  <1>4. ASSUME NEW c \in Calls, Evaluate(c)
        PROVE  AheadOf(d)'
    <2>1. pc[c] = "policy" /\ pc' = [pc EXCEPT ![c] = "record policy"] /\ log' = log
      BY <1>4 DEF Evaluate, Rule, Goto
    <2>2. d # c => effective'[d] = effective[d]
      BY <1>4 DEF Evaluate, TypeOK
    <2> QED
      BY <1>0, <2>1, <2>2, StaysAhead DEF TypeOK
  <1>5. ASSUME NEW c \in Calls, CheckStopped(c) \/ CheckRuntime(c)
        PROVE  AheadOf(d)'
    <2>1. /\ pc[c] \in {"stop flag", "runtime"}
          /\ \E l \in {"runtime", "record runtime"} : pc' = [pc EXCEPT ![c] = l]
          /\ log' = log /\ effective' = effective
      BY <1>5 DEF CheckStopped, CheckRuntime, Rule, Goto
    <2> QED
      BY <1>0, <2>1, StaysAhead DEF TypeOK
  <1>6. ASSUME NEW c \in Calls, Record(c)
        PROVE  AheadOf(d)'
    <2>1. CASE d = c
      BY <1>0, <1>6, <2>1, RecordKeepsAhead
    <2>2. CASE d # c
      <3>1. pc'[d] = pc[d] /\ effective'[d] = effective[d]
        BY <1>6, <2>2 DEF Record, Answer, Goto, TypeOK
      <3>2. log' = log \cup {Line(c)} /\ Line(c).call # d
        BY <1>6, <2>2 DEF Record, Line
      <3> QED
        BY <1>0, <3>1, <3>2, StaysAhead
    <2> QED
      BY <2>1, <2>2
  <1>7. ASSUME NEW c \in Calls, RecordRaises(c)
        PROVE  AheadOf(d)'
    <2>1. pc' = [pc EXCEPT ![c] = "done"] /\ effective' = effective
      BY <1>7 DEF RecordRaises, Answer, Goto
    <2>2. log' \subseteq log \cup {Line(c)} /\ log \subseteq log' /\ Line(c).call = c
      BY <1>7 DEF RecordRaises, Line
    <2>3. CASE d = c
      <3>1. pc'[c] = "done"
        BY <2>1 DEF TypeOK
      <3> QED
        BY <2>3, <3>1 DEF AheadOf
    <2>4. CASE d # c
      BY <1>0, <2>1, <2>2, <2>4, StaysAhead DEF TypeOK
    <2> QED
      BY <2>3, <2>4
  <1>8. ASSUME NEW k \in Capabilities, Grant(k) \/ Revoke(k)
        PROVE  AheadOf(d)'
    <2>1. log' = log /\ pc' = pc /\ effective' = effective
      BY <1>8 DEF Grant, Revoke, SetGrants, calls
    <2> QED
      BY <1>0, <2>1, StaysAhead
  <1>9. ASSUME Stop
        PROVE  AheadOf(d)'
    <2>1. log' = log /\ pc' = pc /\ effective' = effective
      BY <1>9 DEF Stop, calls
    <2> QED
      BY <1>0, <2>1, StaysAhead
  <1> QED
    BY <1>1, <1>2, <1>3, <1>4, <1>5, <1>6, <1>7, <1>8, <1>9 DEF Next

\* A call that ran did so by Execute.
LEMMA Runners ==
    ASSUME TypeOK, Next, NEW c \in Calls, outcome'[c] = "ran"
    PROVE  outcome[c] = "ran" \/ Execute(c)
  <1>0. outcome \in [Calls -> {"none", "deny", "ran", "raised"}]
    BY DEF TypeOK
  <1>1. ASSUME NEW d \in Calls, Execute(d)
        PROVE  outcome[c] = "ran" \/ Execute(c)
    <2>1. outcome' = [outcome EXCEPT ![d] = "ran"]
      BY <1>1 DEF Execute, Answer
    <2> QED
      BY <1>0, <1>1, <2>1
  <1>2. CASE ~ \E d \in Calls : Execute(d)
    <2>1. \/ outcome' = outcome
          \/ \E d \in Calls, o \in {"deny", "raised"} : outcome' = [outcome EXCEPT ![d] = o]
      BY <1>2 DEF Next, Dispatch, RefuseNonAction, CheckHeld, CheckWildcard, CheckCapability, Evaluate,
         EvaluateRaises, CheckStopped, CheckRuntime, Record, RecordRaises, ExecuteRaises,
         Grant, Revoke, SetGrants, Stop, Rule, Answer, calls
    <2> QED
      BY <1>0, <2>1
  <1> QED
    BY <1>1, <1>2

\* What runs has the log ahead of it.
LEMMA RunsAreLoggedKept ==
    ASSUME TypeOK, Stages, Logs, SetAside, RunsAreLogged, Next
    PROVE  RunsAreLogged'
  <1> SUFFICES ASSUME NEW c \in Calls, outcome'[c] = "ran"
               PROVE  /\ Logged(c, "capability", {"allow"})'
                      /\ Logged(c, "policy", {"allow", "transform"})'
                      /\ \E e \in log' :
                           /\ e.call = c /\ e.layer = "runtime" /\ e.verdict = "allow"
                           /\ \E i \in DOMAIN ran'[e.packet.session] : ran'[e.packet.session][i] = e.packet
    BY DEF RunsAreLogged
  <1>1. CASE outcome[c] = "ran"
    <2>1. PICK e \in log :
            /\ e.call = c /\ e.layer = "runtime" /\ e.verdict = "allow"
            /\ \E i \in DOMAIN ran[e.packet.session] : ran[e.packet.session][i] = e.packet
      BY <1>1 DEF RunsAreLogged
    <2>2. e.packet.session \in Sessions
      BY PacketFacts DEF TypeOK
    <2>3. \E i \in DOMAIN ran'[e.packet.session] : ran'[e.packet.session][i] = e.packet
      BY <2>1, <2>2, RanGrows
    <2> QED
      BY <1>1, <2>1, <2>3, LogGrows DEF RunsAreLogged
  <1>2. CASE Execute(c)
    <2>1. PICK e \in log :
            e.call = c /\ e.layer = "runtime" /\ e.verdict = "allow" /\ e.packet = effective[c]
      BY <1>2 DEF Execute, Logs, AheadOf
    <2>2. effective[c] \in Actions /\ ~ Unpriced(effective[c])
      BY <1>2 DEF Stages, SetAside, Pending, Execute
    <2>3. ran'[effective[c].session] = Append(ran[effective[c].session], effective[c])
      BY <1>2, <2>2, RanFacts, PacketFacts DEF Execute
    <2>4. ran[effective[c].session] \in Seq(Actions)
      BY <2>2, PacketFacts DEF TypeOK
    <2>5. \E i \in DOMAIN ran'[e.packet.session] : ran'[e.packet.session][i] = e.packet
      BY <2>1, <2>2, <2>3, <2>4, AppendedHistory
    <2>6. /\ Logged(c, "capability", {"allow"})
          /\ Logged(c, "policy", {"allow", "transform"})
      BY <1>2 DEF Execute, Logs, AheadOf, CapabilityPassed, PolicyPassed
    <2> QED
      BY <2>1, <2>5, <2>6, LogGrows
  <1> QED
    BY <1>1, <1>2, Runners

-----------------------------------------------------------------------------
(* Who is let through held the capability during its call.                 *)

\* held is a history: it only grows.
LEMMA HeldGrows ==
    ASSUME Next
    PROVE  held \subseteq held'
  BY DEF Next, Dispatch, RefuseNonAction, CheckHeld, CheckWildcard, CheckCapability, Evaluate,
     EvaluateRaises, CheckStopped, CheckRuntime, Record, RecordRaises, Execute, ExecuteRaises,
     Grant, Revoke, SetGrants, Stop

\* A step that leaves the grants, and the call's packet, alone.
LEMMA StaysPresent ==
    ASSUME NEW d \in Calls, PresentIn(d), held \subseteq held',
           grants' = grants, presented'[d] = presented[d],
           pc'[d] \notin {"new", "done"} => pc[d] \notin {"new", "done"},
           pc'[d] \in CapabilityPassed =>
             \/ pc[d] \in CapabilityPassed
             \/ pc[d] = "record capability" /\ verdict[d] = "allow",
           pc'[d] = "record capability" /\ verdict'[d] = "allow" =>
             \/ pc[d] = "record capability" /\ verdict[d] = "allow"
             \/ pc[d] \notin {"new", "done"} /\ Holds(grants, presented[d])
    PROVE  PresentIn(d)'
  BY DEF PresentIn, Holds, CapabilityPassed

\* A grant that is held marks the calls in flight.
LEMMA PresentKept ==
    ASSUME TypeOK, Stages, Present, Next
    PROVE  Present'
  <1> SUFFICES ASSUME NEW d \in Calls
               PROVE  PresentIn(d)'
    BY DEF Present
  <1>0. PresentIn(d) /\ held \subseteq held'
    BY HeldGrows DEF Present
  <1> USE DEF CapabilityPassed
  <1>1. ASSUME NEW c \in Calls, NEW a \in Actions, Dispatch(c, a)
        PROVE  PresentIn(d)'
    <2>1. /\ pc' = [pc EXCEPT ![c] = "grants"] /\ verdict' = verdict /\ grants' = grants
          /\ presented' = [presented EXCEPT ![c] = a]
          /\ held' = IF Holds(grants, a) THEN held \cup {c} ELSE held
      BY <1>1 DEF Dispatch, Goto
    <2>2. CASE d = c
      BY <2>1, <2>2 DEF PresentIn, Holds, TypeOK
    <2>3. CASE d # c
      BY <1>0, <2>1, <2>3, StaysPresent DEF TypeOK
    <2> QED
      BY <2>2, <2>3
  <1>2. ASSUME NEW c \in Calls,
               RefuseNonAction(c) \/ EvaluateRaises(c) \/ Execute(c) \/ ExecuteRaises(c) \/ RecordRaises(c)
        PROVE  PresentIn(d)'
    <2>1. /\ pc' = [pc EXCEPT ![c] = "done"] /\ verdict' = verdict /\ grants' = grants
          /\ presented' = presented
      BY <1>2 DEF RefuseNonAction, EvaluateRaises, Execute, ExecuteRaises, RecordRaises, Answer, Goto
    <2> QED
      BY <1>0, <2>1, StaysPresent DEF TypeOK
  <1>3. ASSUME NEW c \in Calls, CheckHeld(c)
        PROVE  PresentIn(d)'
    <2>1. /\ pc[c] = "grants" /\ presented' = presented /\ grants' = grants
          /\ \/ pc' = [pc EXCEPT ![c] = "record capability"] /\ verdict' = [verdict EXCEPT ![c] = "deny"]
             \/ pc' = [pc EXCEPT ![c] = "wildcard"] /\ verdict' = verdict
      BY <1>3 DEF CheckHeld, Rule, Goto
    <2> QED
      BY <1>0, <2>1, StaysPresent DEF TypeOK
  <1>4. ASSUME NEW c \in Calls, CheckWildcard(c)
        PROVE  PresentIn(d)'
    <2>1. /\ pc[c] = "wildcard" /\ presented' = presented /\ grants' = grants
          /\ \/ /\ pc' = [pc EXCEPT ![c] = "record capability"]
                /\ verdict' = [verdict EXCEPT ![c] = "allow"]
                /\ Holds(grants, presented[c])
             \/ pc' = [pc EXCEPT ![c] = "capability"] /\ verdict' = verdict
      BY <1>4 DEF CheckWildcard, Rule, Goto, Holds
    <2> QED
      BY <1>0, <2>1, StaysPresent DEF TypeOK
  <1>5. ASSUME NEW c \in Calls, CheckCapability(c)
        PROVE  PresentIn(d)'
    <2>1. /\ pc[c] = "capability" /\ presented' = presented /\ grants' = grants
          /\ pc' = [pc EXCEPT ![c] = "record capability"]
          /\ \/ verdict' = [verdict EXCEPT ![c] = "allow"] /\ Holds(grants, presented[c])
             \/ verdict' = [verdict EXCEPT ![c] = "deny"]
      BY <1>5 DEF CheckCapability, Rule, Goto, Holds
    <2> QED
      BY <1>0, <2>1, StaysPresent DEF TypeOK
  <1>6. ASSUME NEW c \in Calls, Evaluate(c) \/ CheckStopped(c) \/ CheckRuntime(c)
        PROVE  PresentIn(d)'
    <2>1. /\ pc[c] \in {"policy", "stop flag", "runtime"} /\ presented' = presented /\ grants' = grants
          /\ \E l \in {"record policy", "runtime", "record runtime"} : pc' = [pc EXCEPT ![c] = l]
          /\ verdict' = verdict \/ \E v : verdict' = [verdict EXCEPT ![c] = v]
      BY <1>6 DEF Evaluate, CheckStopped, CheckRuntime, Rule, Goto
    <2>2. d # c => pc'[d] = pc[d] /\ verdict'[d] = verdict[d]
      BY <2>1 DEF TypeOK
    <2> QED
      BY <1>0, <2>1, <2>2, StaysPresent DEF TypeOK
  <1>7. ASSUME NEW c \in Calls, Record(c)
        PROVE  PresentIn(d)'
    <2>1. /\ presented' = presented /\ grants' = grants /\ verdict' = verdict
          /\ pc[c] \in {"record capability", "record policy", "record runtime"}
          /\ \/ pc' = [pc EXCEPT ![c] = "done"]
             \/ /\ verdict[c] # "deny" /\ pc' = [pc EXCEPT ![c] = AfterRecord[pc[c]]]
                /\ AfterRecord[pc[c]] \in {"policy", "stop flag", "execute"}
      BY <1>7, Tables DEF Record, Answer, Goto
    <2>2. pc[c] = "record capability" /\ verdict[c] # "deny" => verdict[c] = "allow"
      BY DEF Stages, TypeOK
    <2> QED
      BY <1>0, <2>1, <2>2, StaysPresent DEF TypeOK
  <1>8. ASSUME NEW g, SetGrants(g)
        PROVE  PresentIn(d)'
    <2>1. /\ grants' = g /\ pc' = pc /\ presented' = presented /\ verdict' = verdict
          /\ held' = held \cup {c \in Calls : pc[c] \notin {"new", "done"} /\ Holds(g, presented[c])}
      BY <1>8 DEF SetGrants, calls
    <2> QED
      BY <1>0, <2>1 DEF PresentIn
  <1>9. ASSUME Stop
        PROVE  PresentIn(d)'
    <2>1. grants' = grants /\ pc' = pc /\ presented' = presented /\ verdict' = verdict
      BY <1>9 DEF Stop, calls
    <2> QED
      BY <1>0, <2>1, StaysPresent
  <1> QED
    BY <1>1, <1>2, <1>3, <1>4, <1>5, <1>6, <1>7, <1>8, <1>9 DEF Next, Grant, Revoke

\* What runs is marked.
LEMMA AuthorisedKept ==
    ASSUME TypeOK, Present, AuthorisedDuringCall, Next
    PROVE  AuthorisedDuringCall'
  <1> SUFFICES ASSUME NEW c \in Calls, outcome'[c] = "ran"
               PROVE  c \in held'
    BY DEF AuthorisedDuringCall
  <1>1. CASE outcome[c] = "ran"
    BY <1>1, HeldGrows DEF AuthorisedDuringCall
  <1>2. CASE Execute(c)
    BY <1>2, HeldGrows DEF Execute, Present, PresentIn, CapabilityPassed
  <1> QED
    BY <1>1, <1>2, Runners

-----------------------------------------------------------------------------
(* Each grant is of a call that two layers cleared.                        *)

\* What a call carries changes when it starts and when the policy rules on it.
LEMMA Carried ==
    ASSUME TypeOK, Stages, Next
    PROVE  /\ \A c \in Calls : effective[c] # NoAction /\ pc[c] # "policy" => effective'[c] = effective[c]
           /\ \/ effective' = effective
              \/ \E c \in Calls, a \in Actions : effective' = [effective EXCEPT ![c] = a]
  <1>1. \/ effective' = effective
        \/ \E c \in Calls, a \in Actions : Dispatch(c, a)
        \/ \E c \in Calls : Evaluate(c)
    BY DEF Next, RefuseNonAction, CheckHeld, CheckWildcard, CheckCapability,
       EvaluateRaises, CheckStopped, CheckRuntime, Record, RecordRaises, Execute, ExecuteRaises,
       Grant, Revoke, SetGrants, Stop, calls
  <1>2. ASSUME NEW d \in Calls, NEW a \in Actions, Dispatch(d, a)
        PROVE  /\ \A c \in Calls : effective[c] # NoAction => effective'[c] = effective[c]
               /\ effective' = [effective EXCEPT ![d] = a]
    BY <1>2 DEF Dispatch, TypeOK, Stages
  <1>3. ASSUME NEW d \in Calls, Evaluate(d)
        PROVE  /\ \A c \in Calls : pc[c] # "policy" => effective'[c] = effective[c]
               /\ \/ effective' = effective
                  \/ \E c \in Calls, a \in Actions : effective' = [effective EXCEPT ![c] = a]
    <2>1. pc[d] = "policy" /\ Redacted[presented[d]] \in Actions
      BY <1>3, PacketFacts DEF Evaluate, Stages
    <2>2. effective' = effective \/ effective' = [effective EXCEPT ![d] = Redacted[presented[d]]]
      BY <1>3 DEF Evaluate
    <2> QED
      BY <2>1, <2>2 DEF TypeOK
  <1> QED
    BY <1>1, <1>2, <1>3

\* A call that consumes, or once could have, never comes back to the runtime's turn.
LEMMA ConsumersStay ==
    ASSUME TypeOK, Stages, Logs, Next, NEW s \in Sessions
    PROVE  Consumers(s) \subseteq Consumers(s)'
  <1> SUFFICES ASSUME NEW c \in Consumers(s)
               PROVE  c \in Consumers(s)'
    OBVIOUS
  <1>1. /\ c \in Calls /\ effective[c] # NoAction /\ effective[c].session = s
        /\ Logged(c, "capability", {"allow"}) /\ Logged(c, "policy", {"allow", "transform"})
        /\ pc[c] \notin {"stop flag", "runtime"}
    BY DEF Consumers, Cleared
  <1>2. pc[c] \in {"record runtime", "execute", "done"}
    <2>1. \E e \in log : e.call = c /\ e.layer = "policy"
      BY <1>1 DEF Logged
    <2>2. pc[c] \in PolicyPassed \cup {"done"}
      BY <1>1, <2>1 DEF Logs, AheadOf
    <2> QED
      BY <1>1, <2>2 DEF PolicyPassed
  <1>3. /\ effective'[c] = effective[c]
        /\ Logged(c, "capability", {"allow"})' /\ Logged(c, "policy", {"allow", "transform"})'
    BY <1>1, <1>2, Carried, LogGrows
  <1>4. pc'[c] \notin {"stop flag", "runtime"}
    <2>0. pc \in [Calls -> {"new", "grants", "wildcard", "capability", "policy", "stop flag", "runtime",
                            "execute", "done"} \cup DOMAIN Recording]
      BY DEF TypeOK
    <2>1. \/ pc' = pc
          \/ \E d \in Calls : \E l : /\ pc' = [pc EXCEPT ![d] = l]
                                     /\ l \in {"stop flag", "runtime"} =>
                                               pc[d] \in {"record capability", "record policy", "stop flag"}
      <3>1. ASSUME NEW d \in Calls, Record(d)
            PROVE  \E l : /\ pc' = [pc EXCEPT ![d] = l]
                          /\ l \in {"stop flag", "runtime"} => pc[d] \in {"record capability",
                                                                 "record policy", "stop flag"}
        BY <3>1, Tables DEF Record, Answer, Goto
      <3>2. ASSUME NEW d \in Calls, NEW l, Goto(d, l),
                   l \in {"stop flag", "runtime"} => pc[d] = "stop flag"
            PROVE  \E m : /\ pc' = [pc EXCEPT ![d] = m]
                          /\ m \in {"stop flag", "runtime"} => pc[d] \in {"record capability",
                                                                 "record policy", "stop flag"}
        BY <3>2 DEF Goto
      <3>3. ASSUME NEW d \in Calls,
                   \/ \E a \in Actions : Dispatch(d, a)
                   \/ RefuseNonAction(d)
                   \/ CheckHeld(d) \/ CheckWildcard(d) \/ CheckCapability(d)
                   \/ Evaluate(d) \/ EvaluateRaises(d)
                   \/ CheckStopped(d) \/ CheckRuntime(d)
                   \/ RecordRaises(d)
                   \/ Execute(d) \/ ExecuteRaises(d)
            PROVE  \E l : Goto(d, l) /\ (l \in {"stop flag", "runtime"} => pc[d] = "stop flag")
        <4>1. ASSUME NEW m, Goto(d, m), m \notin {"stop flag", "runtime"} \/ pc[d] = "stop flag"
              PROVE  \E l : Goto(d, l) /\ (l \in {"stop flag", "runtime"} => pc[d] = "stop flag")
          BY <4>1
        <4>2. CASE \E a \in Actions : Dispatch(d, a)
          BY <4>1, <4>2 DEF Dispatch
        <4>3. CASE RefuseNonAction(d) \/ EvaluateRaises(d) \/ RecordRaises(d) \/ Execute(d) \/ ExecuteRaises(d)
          BY <4>1, <4>3 DEF RefuseNonAction, EvaluateRaises, RecordRaises, Execute, ExecuteRaises, Answer
        <4>4. CASE CheckHeld(d) \/ CheckWildcard(d) \/ CheckCapability(d)
          BY <4>1, <4>4 DEF CheckHeld, CheckWildcard, CheckCapability, Rule
        <4>5. CASE Evaluate(d) \/ CheckStopped(d) \/ CheckRuntime(d)
          BY <4>1, <4>5 DEF Evaluate, CheckStopped, CheckRuntime, Rule
        <4> QED
          BY <3>3, <4>2, <4>3, <4>4, <4>5
      <3>4. ASSUME Stop \/ \E k \in Capabilities : Grant(k) \/ Revoke(k)
            PROVE  pc' = pc
        BY <3>4 DEF Stop, Grant, Revoke, SetGrants, calls
      <3> QED
        BY <3>1, <3>2, <3>3, <3>4 DEF Next
    <2> QED
      BY <1>1, <1>2, <2>0, <2>1
  <1> QED
    BY <1>1, <1>3, <1>4 DEF Consumers, Cleared

\* A grant is of a cleared call that takes its one turn at the runtime.
LEMMA ConsumptionKept ==
    ASSUME TypeOK, Stages, Logs, Consumption, Next
    PROVE  Consumption'
  <1>1. IsFiniteSet(Presenting)'
    <2>1. CASE effective' = effective
      BY <2>1 DEF Consumption, Presenting
    <2>2. ASSUME NEW c \in Calls, NEW a \in Actions, effective' = [effective EXCEPT ![c] = a]
          PROVE  IsFiniteSet(Presenting)'
      <3>1. Presenting' \subseteq Presenting \cup {c}
        BY <2>2 DEF Presenting, TypeOK
      <3>2. IsFiniteSet(Presenting \cup {c})
        BY FS_AddElement DEF Consumption
      <3> QED
        BY <3>1, <3>2, FS_Subset
    <2> QED
      BY <2>1, <2>2, Carried
  <1>2. ASSUME NEW s \in Sessions
        PROVE  Len(granted'[s]) <= Cardinality(Consumers(s)')
    <2>1. Consumers(s) \subseteq Consumers(s)'
      BY ConsumersStay
    <2>2. IsFiniteSet(Consumers(s)')
      <3>1. Consumers(s)' \subseteq Presenting'
        BY DEF Consumers, Cleared, Presenting
      <3> QED
        BY <1>1, <3>1, FS_Subset
    <2>3. IsFiniteSet(Consumers(s))
      BY <2>1, <2>2, FS_Subset
    <2>4. /\ Cardinality(Consumers(s)) <= Cardinality(Consumers(s)')
          /\ Cardinality(Consumers(s)) \in Nat /\ Cardinality(Consumers(s)') \in Nat
          /\ Len(granted[s]) <= Cardinality(Consumers(s))
          /\ Len(granted[s]) \in Nat
      <3>1. Cardinality(Consumers(s)) <= Cardinality(Consumers(s)')
        BY <2>1, <2>2, FS_Subset
      <3>2. Cardinality(Consumers(s)) \in Nat /\ Cardinality(Consumers(s)') \in Nat
        BY <2>2, <2>3, FS_CardinalityType
      <3>3. granted[s] \in Seq(Actions)
        BY DEF TypeOK
      <3>4. Len(granted[s]) \in Nat
        BY <3>3
      <3> QED
        BY <3>1, <3>2, <3>4 DEF Consumption
    <2>5. CASE granted'[s] = granted[s]
      BY <2>4, <2>5
    <2>6. ASSUME NEW c \in Calls, CheckRuntime(c), granted'[s] # granted[s]
          PROVE  Len(granted'[s]) <= Cardinality(Consumers(s)')
      <3>1. /\ pc[c] = "runtime" /\ effective[c] \in Actions
        BY <2>6 DEF CheckRuntime, Stages
      <3>2. Runtime!Permitted(effective[c].session, effective[c]) /\ Runtime!Grant(effective[c])
        BY <2>6 DEF CheckRuntime, ledger
      <3>3. s = effective[c].session /\ granted'[s] = Append(granted[s], effective[c])
        BY <2>6, <3>1, <3>2, GrantFacts
      <3>4. Len(granted'[s]) = Len(granted[s]) + 1
        <4>1. granted[s] \in Seq(Actions)
          BY DEF TypeOK
        <4> QED
          BY <3>1, <3>3, <4>1, AppendedHistory
      <3>5. c \notin Consumers(s) /\ c \in Consumers(s)'
        <4>1. c \notin Consumers(s)
          BY <3>1 DEF Consumers
        <4>2. pc'[c] = "record runtime" /\ effective' = effective /\ log' = log
          BY <2>6 DEF CheckRuntime, Rule, Goto, TypeOK
        <4>3. Logged(c, "capability", {"allow"})' /\ Logged(c, "policy", {"allow", "transform"})'
          BY <3>1, LogGrows DEF Logs, AheadOf, CapabilityPassed, PolicyPassed
        <4> QED
          BY <3>1, <3>3, <4>1, <4>2, <4>3, PacketFacts DEF Consumers, Cleared
      <3>6. Cardinality(Consumers(s) \cup {c}) = Cardinality(Consumers(s)) + 1
        BY <2>3, <3>5, FS_AddElement
      <3>7. Cardinality(Consumers(s) \cup {c}) <= Cardinality(Consumers(s)')
        BY <2>1, <2>2, <3>5, FS_Subset
      <3> QED
        BY <2>4, <3>4, <3>6, <3>7
    <2>7. granted'[s] = granted[s] \/ \E c \in Calls : CheckRuntime(c)
      BY DEF Next, Dispatch, RefuseNonAction, CheckHeld, CheckWildcard, CheckCapability, Evaluate,
         EvaluateRaises, CheckStopped, Record, RecordRaises, Execute, ExecuteRaises,
         Grant, Revoke, SetGrants, Stop, ledger
    <2> QED
      BY <2>5, <2>6, <2>7
  <1> QED
    BY <1>1, <1>2 DEF Consumption

-----------------------------------------------------------------------------
(* What is granted is set aside until it runs or is given up.              *)

SameIn(d) == (Pending(d)' <=> Pending(d)) /\ (Pending(d) => effective'[d] = effective[d])

SameBut(c) == \A d \in Calls \ {c} : SameIn(d)

\* The four things a step can be to what is pending.
Elsewhere ==
    /\ \A d \in Calls : SameIn(d)
    /\ UNCHANGED <<ledger, effects>>

GrantsTo(c) ==
    /\ SameBut(c) /\ ~ Pending(c) /\ Pending(c)'
    /\ effective[c] \in Actions /\ effective'[c] = effective[c]
    /\ Runtime!Permitted(effective[c].session, effective[c]) /\ Runtime!Grant(effective[c])
    /\ UNCHANGED effects

GivesUp(c) ==
    /\ SameBut(c) /\ Pending(c) /\ ~ Pending(c)'
    /\ UNCHANGED <<ledger, effects>>

Runs(c) ==
    /\ SameBut(c) /\ Pending(c) /\ ~ Pending(c)'
    /\ Ran(effective[c])
    /\ UNCHANGED ledger

\* A step of a call that neither was pending nor is.
LEMMA StaysElsewhere ==
    ASSUME TypeOK, NEW c \in Calls, NEW l, NEW v, NEW a, pc' = [pc EXCEPT ![c] = l],
           verdict' = verdict \/ verdict' = [verdict EXCEPT ![c] = v],
           effective' = effective \/ effective' = [effective EXCEPT ![c] = a],
           ~ Pending(c), l # "execute", l = "record runtime" => verdict'[c] # "allow"
    PROVE  \A d \in Calls : SameIn(d)
  <1> SUFFICES ASSUME NEW d \in Calls
               PROVE  SameIn(d)
    OBVIOUS
  <1>1. CASE d # c
    BY <1>1 DEF TypeOK, SameIn, Pending
  <1>2. CASE d = c
    BY <1>2 DEF TypeOK, SameIn, Pending
  <1> QED
    BY <1>1, <1>2

\* A call that is owed its run has an action.
LEMMA PendingShape ==
    ASSUME TypeOK, Stages, Next
    PROVE  Elsewhere \/ \E c \in Calls : GrantsTo(c) \/ GivesUp(c) \/ Runs(c)
  <1>1. ASSUME NEW c \in Calls, NEW a \in Actions, Dispatch(c, a)
        PROVE  Elsewhere
    <2>1. /\ pc' = [pc EXCEPT ![c] = "grants"] /\ verdict' = verdict
          /\ effective' = [effective EXCEPT ![c] = a] /\ ~ Pending(c)
          /\ UNCHANGED <<ledger, effects>>
      BY <1>1 DEF Dispatch, Goto, Pending
    <2> QED
      BY <2>1, StaysElsewhere DEF Elsewhere
  <1>2. ASSUME NEW c \in Calls, RefuseNonAction(c) \/ EvaluateRaises(c)
        PROVE  Elsewhere
    <2>1. /\ pc' = [pc EXCEPT ![c] = "done"] /\ verdict' = verdict
          /\ effective' = effective /\ ~ Pending(c)
          /\ UNCHANGED <<ledger, effects>>
      BY <1>2 DEF RefuseNonAction, EvaluateRaises, Answer, Goto, Pending
    <2> QED
      BY <2>1, StaysElsewhere DEF Elsewhere
  <1>3. ASSUME NEW c \in Calls, CheckHeld(c) \/ CheckWildcard(c) \/ CheckCapability(c)
        PROVE  Elsewhere
    <2>1. /\ pc[c] \in {"grants", "wildcard", "capability"} /\ effective' = effective
          /\ UNCHANGED <<ledger, effects>>
      BY <1>3 DEF CheckHeld, CheckWildcard, CheckCapability
    <2>2. \E l \in {"wildcard", "capability", "record capability"} : pc' = [pc EXCEPT ![c] = l]
      BY <1>3 DEF CheckHeld, CheckWildcard, CheckCapability, Rule, Goto
    <2>3. verdict' = verdict \/ \E v : verdict' = [verdict EXCEPT ![c] = v]
      BY <1>3 DEF CheckHeld, CheckWildcard, CheckCapability, Rule
    <2>4. ~ Pending(c)
      BY <2>1 DEF Pending
    <2> QED
      BY <2>1, <2>2, <2>3, <2>4, StaysElsewhere DEF Elsewhere
  <1>4. ASSUME NEW c \in Calls, Evaluate(c)
        PROVE  Elsewhere
    <2>1. /\ pc[c] = "policy" /\ pc' = [pc EXCEPT ![c] = "record policy"]
          /\ UNCHANGED <<ledger, effects>>
      BY <1>4 DEF Evaluate, Rule, Goto
    <2>2. \E v : verdict' = [verdict EXCEPT ![c] = v]
      BY <1>4 DEF Evaluate, Rule
    <2>3. effective' = effective \/ \E a : effective' = [effective EXCEPT ![c] = a]
      BY <1>4 DEF Evaluate
    <2>4. ~ Pending(c)
      BY <2>1 DEF Pending
    <2> QED
      BY <2>1, <2>2, <2>3, <2>4, StaysElsewhere DEF Elsewhere
  <1>5. ASSUME NEW c \in Calls, CheckStopped(c)
        PROVE  Elsewhere
    <2>1. /\ pc[c] = "stop flag" /\ effective' = effective /\ UNCHANGED <<ledger, effects>>
          /\ \/ pc' = [pc EXCEPT ![c] = "runtime"] /\ verdict' = verdict
             \/ pc' = [pc EXCEPT ![c] = "record runtime"] /\ verdict' = [verdict EXCEPT ![c] = "deny"]
      BY <1>5 DEF CheckStopped, Rule, Goto
    <2>2. ~ Pending(c) /\ (pc'[c] = "record runtime" => verdict'[c] = "deny")
      BY <2>1 DEF Pending, TypeOK
    <2> QED
      BY <2>1, <2>2, StaysElsewhere DEF Elsewhere, TypeOK
  <1>6. ASSUME NEW c \in Calls, CheckRuntime(c)
        PROVE  Elsewhere \/ GrantsTo(c)
    <2>1. /\ pc[c] = "runtime" /\ pc' = [pc EXCEPT ![c] = "record runtime"]
          /\ effective' = effective /\ UNCHANGED effects /\ effective[c] \in Actions
      BY <1>6 DEF CheckRuntime, Rule, Goto, Stages
    <2>2. ~ Pending(c)
      BY <2>1 DEF Pending
    <2>3. CASE Runtime!Permitted(effective[c].session, effective[c])
      <3>1. Runtime!Grant(effective[c]) /\ verdict' = [verdict EXCEPT ![c] = "allow"]
        BY <1>6, <2>3 DEF CheckRuntime, Rule
      <3>2. Pending(c)'
        BY <2>1, <3>1 DEF Pending, TypeOK
      <3>3. SameBut(c)
        BY <2>1, <3>1 DEF SameBut, SameIn, Pending, TypeOK
      <3> QED
        BY <2>1, <2>2, <2>3, <3>1, <3>2, <3>3 DEF GrantsTo
    <2>4. CASE ~ Runtime!Permitted(effective[c].session, effective[c])
      <3>1. UNCHANGED ledger /\ verdict' = [verdict EXCEPT ![c] = "deny"]
        BY <1>6, <2>4 DEF CheckRuntime, Rule
      <3>2. verdict'[c] = "deny"
        BY <3>1 DEF TypeOK
      <3> QED
        BY <2>1, <2>2, <3>1, <3>2, StaysElsewhere DEF Elsewhere
    <2> QED
      BY <2>3, <2>4
  <1>7. ASSUME NEW c \in Calls, Record(c)
        PROVE  Elsewhere \/ GivesUp(c)
    <2>1. /\ pc[c] \in {"record capability", "record policy", "record runtime"}
          /\ effective' = effective /\ verdict' = verdict /\ UNCHANGED <<ledger, effects>>
      BY <1>7, Tables DEF Record
    <2>2. CASE verdict[c] = "deny"
      <3>1. pc' = [pc EXCEPT ![c] = "done"] /\ ~ Pending(c)
        BY <1>7, <2>1, <2>2 DEF Record, Answer, Goto, Pending
      <3> QED
        BY <2>1, <3>1, StaysElsewhere DEF Elsewhere
    <2>3. CASE verdict[c] # "deny" /\ pc[c] # "record runtime"
      <3>1. /\ \E l \in {"policy", "stop flag"} : pc' = [pc EXCEPT ![c] = l]
            /\ ~ Pending(c)
        BY <1>7, <2>1, <2>3, Tables DEF Record, Goto, Pending
      <3> QED
        BY <2>1, <3>1, StaysElsewhere DEF Elsewhere
    <2>4. CASE verdict[c] # "deny" /\ pc[c] = "record runtime"
      <3>1. pc' = [pc EXCEPT ![c] = "execute"] /\ verdict[c] = "allow"
        <4>1. pc' = [pc EXCEPT ![c] = "execute"]
          BY <1>7, <2>4, Tables DEF Record, Goto
        <4>2. verdict[c] = "allow"
          BY <2>4 DEF Stages, TypeOK
        <4> QED
          BY <4>1, <4>2
      <3>2. ASSUME NEW d \in Calls
            PROVE  SameIn(d)
        BY <2>1, <2>4, <3>1 DEF SameIn, Pending, TypeOK
      <3> QED
        BY <2>1, <3>2 DEF Elsewhere
    <2> QED
      BY <2>2, <2>3, <2>4
  <1>8. ASSUME NEW c \in Calls, RecordRaises(c) \/ ExecuteRaises(c)
        PROVE  Elsewhere \/ GivesUp(c)
    <2>1. /\ pc' = [pc EXCEPT ![c] = "done"]
          /\ effective' = effective /\ verdict' = verdict /\ UNCHANGED <<ledger, effects>>
      BY <1>8 DEF RecordRaises, ExecuteRaises, Answer, Goto
    <2>2. CASE Pending(c)
      BY <2>1, <2>2 DEF GivesUp, SameBut, SameIn, Pending, TypeOK
    <2>3. CASE ~ Pending(c)
      BY <2>1, <2>3, StaysElsewhere DEF Elsewhere
    <2> QED
      BY <2>2, <2>3
  <1>9. ASSUME NEW c \in Calls, Execute(c)
        PROVE  Runs(c)
    <2>1. /\ pc[c] = "execute" /\ pc' = [pc EXCEPT ![c] = "done"]
          /\ effective' = effective /\ verdict' = verdict /\ UNCHANGED ledger
          /\ Ran(effective[c])
      BY <1>9 DEF Execute, Answer, Goto
    <2> QED
      BY <2>1 DEF Runs, SameBut, SameIn, Pending, TypeOK
  <1>10. ASSUME Stop \/ \E k \in Capabilities : Grant(k) \/ Revoke(k)
         PROVE  Elsewhere
    BY <1>10 DEF Stop, Grant, Revoke, SetGrants, calls, Elsewhere, SameIn, Pending
  <1> QED
    BY <1>1, <1>2, <1>3, <1>4, <1>5, <1>6, <1>7, <1>8, <1>9, <1>10 DEF Next

\* What is owed changes for one call.
LEMMA OwedFollows ==
    ASSUME NEW c \in Calls, SameBut(c), NEW s, NEW k
    PROVE  /\ Owed(s)' = [Owed(s) EXCEPT ![c] = IF PendingIn(s, c)' THEN 1 ELSE 0]
           /\ OwedCharge(s, k)' = [OwedCharge(s, k) EXCEPT ![c] =
                                      IF PendingIn(s, c)' THEN Charge(effective'[c], k) ELSE 0]
  <1>1. ASSUME NEW d \in Calls, d # c
        PROVE  /\ PendingIn(s, d)' <=> PendingIn(s, d)
               /\ PendingIn(s, d) => effective'[d] = effective[d]
    BY <1>1 DEF SameBut, SameIn, PendingIn
  <1>2. Owed(s)' = [Owed(s) EXCEPT ![c] = IF PendingIn(s, c)' THEN 1 ELSE 0]
    BY <1>1 DEF Owed
  <1>3. OwedCharge(s, k)' = [OwedCharge(s, k) EXCEPT ![c] =
                                      IF PendingIn(s, c)' THEN Charge(effective'[c], k) ELSE 0]
    <2>1. OwedCharge(s, k)' = [d \in Calls |-> IF PendingIn(s, d)' THEN Charge(effective'[d], k) ELSE 0]
      BY DEF OwedCharge, Charge
    <2>2. ASSUME NEW d \in Calls, d # c
          PROVE  (IF PendingIn(s, d)' THEN Charge(effective'[d], k) ELSE 0) = OwedCharge(s, k)[d]
      BY <1>1, <2>2 DEF OwedCharge
    <2>3. DOMAIN OwedCharge(s, k) = Calls /\ OwedCharge(s, k) = [d \in Calls |-> OwedCharge(s, k)[d]]
      BY DEF OwedCharge
    <2> QED
      BY <2>1, <2>2, <2>3
  <1> QED
    BY <1>2, <1>3

\* What a session owes is of natural numbers.
LEMMA OwedType ==
    ASSUME TypeOK, Stages, SetAside, NEW s, NEW k \in CostKeys
    PROVE  Owed(s) \in [Calls -> Nat] /\ OwedCharge(s, k) \in [Calls -> Nat]
  <1>1. ASSUME NEW c \in Calls, PendingIn(s, c)
        PROVE  Charge(effective[c], k) \in Nat
    BY <1>1, ChargeFacts DEF PendingIn, Pending, Stages, SetAside
  <1> QED
    BY <1>1 DEF Owed, OwedCharge

\* The room of a session's grants follows what is granted and what runs.
LEMMA RoomKept ==
    ASSUME TypeOK, Stages, SetAside, NEW s \in Sessions, NEW c \in Calls,
           GrantsTo(c) \/ GivesUp(c) \/ Runs(c)
    PROVE  Fits(Owed(s)', Len(granted'[s]) - Len(ran'[s]))
  <1> DEFINE w == Owed(s)
             n == Len(granted[s]) - Len(ran[s])
             x == IF PendingIn(s, c)' THEN 1 ELSE 0
  <1>1. Fits(w, n)
    BY DEF SetAside
  <1>2. w \in [Calls -> Nat]
    BY DEF Owed
  <1>3. granted[s] \in Seq(Actions) /\ ran[s] \in Seq(Actions)
    BY DEF TypeOK
  <1>4. Len(granted[s]) \in Nat /\ Len(ran[s]) \in Nat /\ n \in Int
    BY <1>3
  <1>5. Owed(s)' = [w EXCEPT ![c] = x]
    <2>1. SameBut(c)
      BY DEF GrantsTo, GivesUp, Runs
    <2> QED
      BY <2>1, OwedFollows
  <1>6. w[c] = IF PendingIn(s, c) THEN 1 ELSE 0
    BY DEF Owed
  <1>7. x \in {0, 1} /\ w[c] \in {0, 1}
    BY <1>6
  <1> HIDE DEF w, n, x
  <1>8. w[c] <= n /\ Fits(Owed(s)', n - w[c] + x)
    <2>1. \A u \in [Calls -> Nat], m \in Int, y \in Nat :
             Fits(u, m) => u[c] <= m /\ Fits([u EXCEPT ![c] = y], m - u[c] + y)
      BY FitsChanged
    <2>2. x \in Nat
      BY <1>7
    <2> QED
      BY <1>1, <1>2, <1>4, <1>5, <2>1, <2>2
  <1>9. CASE GrantsTo(c)
    <2>1. /\ effective[c] \in Actions
          /\ Runtime!Permitted(effective[c].session, effective[c]) /\ Runtime!Grant(effective[c])
          /\ ran' = ran /\ w[c] = 0
          /\ x = IF effective[c].session = s THEN 1 ELSE 0
      BY <1>6, <1>9 DEF GrantsTo, effects, PendingIn, x
    <2>2. granted'[s] = IF s = effective[c].session THEN Append(granted[s], effective[c]) ELSE granted[s]
      BY <2>1, GrantFacts
    <2>3. Len(granted'[s]) = Len(granted[s]) + x
      <3>1. x = 0 => granted'[s] = granted[s]
        BY <2>1, <2>2
      <3>2. x = 1 => Len(granted'[s]) = Len(granted[s]) + 1
        BY <1>3, <2>1, <2>2, AppendedHistory
      <3> QED
        BY <1>4, <1>7, <3>1, <3>2
    <2>4. Len(granted'[s]) - Len(ran'[s]) = n - w[c] + x
      BY <1>4, <1>7, <2>1, <2>3 DEF n
    <2> QED
      BY <1>8, <2>4
  <1>10. CASE GivesUp(c)
    <2>1. Len(granted'[s]) - Len(ran'[s]) = n /\ x = 0
      BY <1>10 DEF GivesUp, ledger, effects, n, x, PendingIn
    <2>2. n - w[c] + x \in Int /\ n - w[c] + x <= n
      BY <1>4, <1>7, <2>1
    <2> QED
      BY <1>4, <1>8, <2>1, <2>2, FitsMore
  <1>11. CASE Runs(c)
    <2>1. /\ effective[c] \in Actions /\ ~ Unpriced(effective[c]) /\ Ran(effective[c])
          /\ granted' = granted /\ x = 0
          /\ w[c] = IF effective[c].session = s THEN 1 ELSE 0
      BY <1>6, <1>11 DEF Runs, ledger, PendingIn, SetAside, Stages, Pending, x
    <2>2. ran'[s] = IF s = effective[c].session THEN Append(ran[s], effective[c]) ELSE ran[s]
      BY <2>1, RanFacts
    <2>3. Len(ran'[s]) = Len(ran[s]) + w[c]
      <3>1. w[c] = 0 => ran'[s] = ran[s]
        BY <2>1, <2>2
      <3>2. w[c] = 1 => Len(ran'[s]) = Len(ran[s]) + 1
        BY <1>3, <2>1, <2>2, AppendedHistory
      <3> QED
        BY <1>4, <1>7, <3>1, <3>2
    <2>4. Len(granted'[s]) - Len(ran'[s]) = n - w[c] + x
      BY <1>4, <1>7, <2>1, <2>3 DEF n
    <2> QED
      BY <1>8, <2>4
  <1> QED
    BY <1>9, <1>10, <1>11

\* So does the room of its charges.
LEMMA ChargeRoomKept ==
    ASSUME TypeOK, Stages, SetAside, NEW s \in Sessions, NEW k \in CostKeys, NEW c \in Calls,
           GrantsTo(c) \/ GivesUp(c) \/ Runs(c)
    PROVE  Fits(OwedCharge(s, k)', spent'[s][k] - charged'[s][k])
  <1> DEFINE w == OwedCharge(s, k)
             n == spent[s][k] - charged[s][k]
             x == IF PendingIn(s, c)' THEN Charge(effective'[c], k) ELSE 0
  <1>1. Fits(w, n)
    BY DEF SetAside
  <1>2. w \in [Calls -> Nat]
    BY OwedType
  <1>4. spent[s][k] \in Nat /\ charged[s][k] \in Nat /\ n \in Int
    <2>1. spent \in [Sessions -> [CostKeys -> Nat]] /\ charged \in [Sessions -> [CostKeys -> Nat]]
      BY DEF TypeOK
    <2> QED
      BY <2>1
  <1>5. OwedCharge(s, k)' = [w EXCEPT ![c] = x]
    <2>1. SameBut(c)
      BY DEF GrantsTo, GivesUp, Runs
    <2> QED
      BY <2>1, OwedFollows
  <1>6. w[c] = IF PendingIn(s, c) THEN Charge(effective[c], k) ELSE 0
    BY DEF OwedCharge
  <1> HIDE DEF w, n, x
  <1>7. w[c] \in Nat
    BY <1>2
  <1>8. x \in Nat => w[c] <= n /\ Fits(OwedCharge(s, k)', n - w[c] + x)
    <2>1. \A u \in [Calls -> Nat], m \in Int, y \in Nat :
             Fits(u, m) => u[c] <= m /\ Fits([u EXCEPT ![c] = y], m - u[c] + y)
      BY FitsChanged
    <2> QED
      BY <1>1, <1>2, <1>4, <1>5, <2>1
  <1>9. CASE GrantsTo(c)
    <2>1. /\ effective[c] \in Actions
          /\ Runtime!Permitted(effective[c].session, effective[c]) /\ Runtime!Grant(effective[c])
          /\ charged' = charged /\ w[c] = 0
          /\ x = IF effective[c].session = s THEN Charge(effective[c], k) ELSE 0
      BY <1>6, <1>9 DEF GrantsTo, effects, PendingIn, x
    <2>2. /\ spent'[s][k] = spent[s][k] + IF s = effective[c].session THEN Charge(effective[c], k) ELSE 0
          /\ Charge(effective[c], k) \in Nat
      BY <2>1, GrantFacts
    <2>3. x \in Nat /\ spent'[s][k] - charged'[s][k] = n - w[c] + x
      BY <1>4, <2>1, <2>2 DEF n
    <2> QED
      BY <1>8, <2>3
  <1>10. CASE GivesUp(c)
    <2>1. spent'[s][k] - charged'[s][k] = n /\ x = 0
      BY <1>10 DEF GivesUp, ledger, effects, n, x, PendingIn
    <2>2. n - w[c] + x \in Int /\ n - w[c] + x <= n
      BY <1>4, <1>7, <2>1
    <2> QED
      BY <1>4, <1>8, <2>1, <2>2, FitsMore
  <1>11. CASE Runs(c)
    <2>1. /\ effective[c] \in Actions /\ ~ Unpriced(effective[c]) /\ Ran(effective[c])
          /\ spent' = spent /\ x = 0
          /\ w[c] = IF effective[c].session = s THEN Charge(effective[c], k) ELSE 0
      BY <1>6, <1>11 DEF Runs, ledger, PendingIn, SetAside, Stages, Pending, x
    <2>2. charged'[s][k] = charged[s][k] + IF s = effective[c].session THEN Charge(effective[c], k) ELSE 0
      BY <2>1, RanFacts
    <2>3. spent'[s][k] - charged'[s][k] = n - w[c] + x
      BY <1>4, <1>7, <2>1, <2>2 DEF n
    <2> QED
      BY <1>8, <2>1, <2>3
  <1> QED
    BY <1>9, <1>10, <1>11

\* What was granted is not taken back.
LEMMA GrantedGrows ==
    ASSUME TypeOK, Stages, Next, NEW s \in Sessions
    PROVE  \A a : IsIn(a, granted[s]) => IsIn(a, granted'[s])
  <1>0. granted[s] \in Seq(Actions)
    BY DEF TypeOK
  <1>1. ASSUME NEW c \in Calls, GrantsTo(c)
        PROVE  granted'[s] = granted[s] \/ granted'[s] = Append(granted[s], effective[c])
    BY <1>1, GrantFacts DEF GrantsTo
  <1>2. ASSUME NEW c \in Calls, GrantsTo(c)
        PROVE  \A a : IsIn(a, granted[s]) => IsIn(a, granted'[s])
    <2>1. effective[c] \in Actions
      BY <1>2 DEF GrantsTo
    <2> QED
      BY <1>0, <1>1, <1>2, <2>1, AppendedHistory DEF IsIn
  <1>3. CASE granted' = granted
    BY <1>3
  <1> QED
    BY <1>2, <1>3, PendingShape DEF Elsewhere, GivesUp, Runs, ledger

\* A grant sets room aside, a run uses it, a call that ends without one leaves it.
LEMMA SetAsideKept ==
    ASSUME TypeOK, Stages, SetAside, Next
    PROVE  SetAside'
  <1>1. ASSUME NEW d \in Calls, Pending(d)'
        PROVE  ~ Unpriced(effective'[d]) /\ IsIn(effective'[d], granted'[effective'[d].session])
    <2>1. CASE Pending(d) /\ effective'[d] = effective[d]
      <3>1. ~ Unpriced(effective[d]) /\ IsIn(effective[d], granted[effective[d].session])
        BY <2>1 DEF SetAside
      <3>2. effective[d].session \in Sessions
        BY <2>1, PacketFacts DEF Stages, Pending
      <3> QED
        BY <2>1, <3>1, <3>2, GrantedGrows
    <2>2. CASE GrantsTo(d)
      <3>1. /\ effective[d] \in Actions /\ effective'[d] = effective[d]
            /\ Runtime!Permitted(effective[d].session, effective[d]) /\ Runtime!Grant(effective[d])
        BY <2>2 DEF GrantsTo
      <3>2. /\ ~ Unpriced(effective[d]) /\ effective[d].session \in Sessions
            /\ granted'[effective[d].session] = Append(granted[effective[d].session], effective[d])
        BY <3>1, GrantFacts
      <3>3. granted[effective[d].session] \in Seq(Actions)
        BY <3>2 DEF TypeOK
      <3>4. IsIn(effective[d], granted'[effective[d].session])
        BY <3>1, <3>2, <3>3, AppendedHistory DEF IsIn
      <3> QED
        BY <3>1, <3>2, <3>4
    <2> QED
      BY <1>1, <2>1, <2>2, PendingShape DEF Elsewhere, GrantsTo, GivesUp, Runs, SameBut, SameIn
  <1>2. ASSUME NEW s \in Sessions, NEW i \in DOMAIN ran'[s]
        PROVE  IsIn(ran'[s][i], granted'[s])
    <2>0. ran[s] \in Seq(Actions)
      BY DEF TypeOK
    <2>1. \A j \in DOMAIN ran[s] : IsIn(ran[s][j], granted'[s])
      BY GrantedGrows DEF SetAside
    <2>2. CASE ran' = ran
      BY <1>2, <2>1, <2>2
    <2>3. ASSUME NEW c \in Calls, Runs(c)
          PROVE  IsIn(ran'[s][i], granted'[s])
      <3>1. /\ effective[c] \in Actions /\ ~ Unpriced(effective[c]) /\ Ran(effective[c])
            /\ IsIn(effective[c], granted[effective[c].session])
        BY <2>3 DEF Runs, SetAside, Stages, Pending
      <3>2. ran'[s] = IF s = effective[c].session THEN Append(ran[s], effective[c]) ELSE ran[s]
        BY <3>1, RanFacts
      <3>3. s = effective[c].session => IsIn(effective[c], granted'[s])
        BY <3>1, GrantedGrows
      <3> QED
        BY <1>2, <2>0, <2>1, <3>1, <3>2, <3>3, AppendedHistory
    <2> QED
      BY <2>2, <2>3, PendingShape DEF Elsewhere, GrantsTo, GivesUp, effects
  <1>3. ASSUME NEW s \in Sessions
        PROVE  Fits(Owed(s)', Len(granted'[s]) - Len(ran'[s]))
    <2>1. CASE Elsewhere
      <3>1. granted' = granted /\ ran' = ran
        BY <2>1 DEF Elsewhere, ledger, effects
      <3>2. Owed(s)' = Owed(s)
        BY <2>1 DEF Elsewhere, SameIn, Owed, PendingIn
      <3> QED
        BY <3>1, <3>2 DEF SetAside
    <2> QED
      BY <2>1, PendingShape, RoomKept
  <1>4. ASSUME NEW s \in Sessions, NEW k \in CostKeys
        PROVE  Fits(OwedCharge(s, k)', spent'[s][k] - charged'[s][k])
    <2>1. CASE Elsewhere
      <3>1. spent' = spent /\ charged' = charged
        BY <2>1 DEF Elsewhere, ledger, effects
      <3>2. ASSUME NEW d \in Calls
            PROVE  /\ PendingIn(s, d)' <=> PendingIn(s, d)
                   /\ PendingIn(s, d) => effective'[d] = effective[d]
        BY <2>1 DEF Elsewhere, SameIn, PendingIn
      <3>3. OwedCharge(s, k)' = [d \in Calls |-> IF PendingIn(s, d)' THEN Charge(effective'[d], k) ELSE 0]
        BY DEF OwedCharge, Charge
      <3>4. OwedCharge(s, k)' = OwedCharge(s, k)
        BY <3>2, <3>3 DEF OwedCharge
      <3> QED
        BY <3>1, <3>4 DEF SetAside
    <2> QED
      BY <2>1, PendingShape, ChargeRoomKept
  <1> QED
    BY <1>1, <1>2, <1>3, <1>4 DEF SetAside, Unpriced, IsIn

\* No tool has had the nonce, and no other call that waits for its tool has it.
Unused(c) ==
    /\ \A i \in DOMAIN ran[effective[c].session] :
         ran[effective[c].session][i].nonce # effective[c].nonce
    /\ \A d \in Calls \ {c} :
         Pending(d) /\ effective[d].session = effective[c].session =>
            effective[d].nonce # effective[c].nonce

\* The runtime grants a nonce once, so no other call that is owed its run has it.
LEMMA OneUseKept ==
    ASSUME TypeOK, Stages, SetAside, OneUse, Next
    PROVE  OneUse'
  <1> SUFFICES ASSUME NEW c \in Calls, Pending(c)', effective'[c].nonce # NoNonce
               PROVE  Unused(c)'
    BY DEF OneUse, Unused
  <1>1. CASE Elsewhere \/ \E e \in Calls : GivesUp(e)
    <2>1. Pending(c) /\ effective'[c] = effective[c] /\ ran' = ran
      BY <1>1 DEF Elsewhere, GivesUp, SameBut, SameIn, effects
    <2>2. \A d \in Calls : Pending(d)' => Pending(d) /\ effective'[d] = effective[d]
      BY <1>1 DEF Elsewhere, GivesUp, SameBut, SameIn
    <2> QED
      BY <2>1, <2>2 DEF OneUse, Unused
  <1>2. ASSUME NEW e \in Calls, Runs(e)
        PROVE  Unused(c)'
    <2>1. c # e /\ Pending(c) /\ effective'[c] = effective[c]
      BY <1>2 DEF Runs, SameBut, SameIn
    <2>2. \A d \in Calls : Pending(d)' => Pending(d) /\ effective'[d] = effective[d]
      BY <1>2 DEF Runs, SameBut, SameIn
    <2>3. effective[c].session \in Sessions
      BY <2>1, PacketFacts DEF Stages, Pending
    <2>4. effective[e] \in Actions /\ ~ Unpriced(effective[e]) /\ Ran(effective[e]) /\ Pending(e)
      BY <1>2 DEF Runs, SetAside, Stages, Pending
    <2>5. ran'[effective[c].session] =
            IF effective[c].session = effective[e].session
            THEN Append(ran[effective[c].session], effective[e]) ELSE ran[effective[c].session]
      BY <2>3, <2>4, RanFacts
    <2>6. effective[c].session = effective[e].session => effective[e].nonce # effective[c].nonce
      BY <2>1, <2>4 DEF OneUse
    <2>7. ran[effective[c].session] \in Seq(Actions)
      BY <2>3 DEF TypeOK
    <2>8. \A i \in DOMAIN ran[effective[c].session] :
             ran[effective[c].session][i].nonce # effective[c].nonce
      BY <2>1 DEF OneUse
    <2>9. \A i \in DOMAIN ran'[effective[c].session] :
             ran'[effective[c].session][i].nonce # effective[c].nonce
      BY <2>4, <2>5, <2>6, <2>7, <2>8, AppendedHistory
    <2> QED
      BY <2>1, <2>2, <2>9 DEF OneUse, Unused
  <1>3. ASSUME NEW e \in Calls, GrantsTo(e)
        PROVE  Unused(c)'
    <2>1. /\ effective[e] \in Actions /\ effective'[e] = effective[e] /\ ran' = ran
          /\ Runtime!Permitted(effective[e].session, effective[e]) /\ Runtime!Grant(effective[e])
      BY <1>3 DEF GrantsTo, effects
    <2>2. /\ effective[e].session \in Sessions
          /\ effective[e].nonce # NoNonce =>
               \A i \in DOMAIN granted[effective[e].session] :
                  granted[effective[e].session][i].nonce # effective[e].nonce
      BY <2>1, GrantFacts
    <2>3. effective[e].nonce # NoNonce =>
             \A a : IsIn(a, granted[effective[e].session]) => a.nonce # effective[e].nonce
      BY <2>2 DEF IsIn
    <2>4. ASSUME NEW d \in Calls, d # e, Pending(d)'
          PROVE  Pending(d) /\ effective'[d] = effective[d]
                 /\ IsIn(effective[d], granted[effective[d].session])
      BY <1>3, <2>4 DEF GrantsTo, SameBut, SameIn, SetAside
    <2>5. CASE c = e
      <3>1. \A i \in DOMAIN ran[effective[e].session] :
               ran[effective[e].session][i].nonce # effective[e].nonce
        BY <2>1, <2>2, <2>3, <2>5 DEF SetAside
      <3>2. ASSUME NEW d \in Calls \ {e}, Pending(d)', effective'[d].session = effective[e].session
            PROVE  effective'[d].nonce # effective[e].nonce
        <4>1. effective'[d] = effective[d] /\ IsIn(effective[d], granted[effective[d].session])
          BY <2>4, <3>2
        <4> QED
          BY <2>1, <2>3, <2>5, <3>2, <4>1
      <3> QED
        BY <2>1, <2>5, <3>1, <3>2 DEF Unused
    <2>6. CASE c # e
      <3>1. Pending(c) /\ effective'[c] = effective[c]
            /\ IsIn(effective[c], granted[effective[c].session])
        BY <2>4, <2>6
      <3>2. ASSUME NEW d \in Calls \ {c}, Pending(d)', effective'[d].session = effective[c].session
            PROVE  effective'[d].nonce # effective[c].nonce
        <4>1. CASE d = e
          BY <2>1, <2>3, <3>1, <3>2, <4>1
        <4>2. CASE d # e
          <5>1. Pending(d) /\ effective'[d] = effective[d]
            BY <2>4, <3>2, <4>2
          <5> QED
            BY <3>1, <3>2, <5>1 DEF OneUse
        <4> QED
          BY <4>1, <4>2
      <3>3. \A i \in DOMAIN ran[effective[c].session] :
               ran[effective[c].session][i].nonce # effective[c].nonce
        BY <3>1 DEF OneUse
      <3> QED
        BY <2>1, <3>1, <3>2, <3>3 DEF Unused
    <2> QED
      BY <2>5, <2>6
  <1> QED
    BY <1>1, <1>2, <1>3, PendingShape

-----------------------------------------------------------------------------

\* It holds as the gate starts.
LEMMA Start ==
    ASSUME Init
    PROVE  IInv
  <1>1. TypeOK
    <2>1. /\ granted \in [Sessions -> Seq(Actions)] /\ ran \in [Sessions -> Seq(Actions)]
          /\ spent \in [Sessions -> [CostKeys -> Nat]] /\ charged \in [Sessions -> [CostKeys -> Nat]]
      BY DEF Init, Runtime!Init
    <2>2. \A l \in {"new"} : pc = [c \in Calls |-> l]
      BY DEF Init
    <2> QED
      BY <2>1, <2>2 DEF Init, TypeOK
  <1>2. Stages /\ OneUse /\ Present /\ AuthorisedDuringCall /\ RunsAreLogged
    BY DEF Init, Stages, OneUse, Present, PresentIn, AuthorisedDuringCall, RunsAreLogged, Pending,
       CapabilityPassed
  <1>3. Logs
    BY DEF Init, Logs, AheadOf, CapabilityPassed, PolicyPassed
  <1>4. Consumption
    <2>1. Presenting = {}
      BY DEF Init, Presenting
    <2>2. \A s \in Sessions : Len(granted[s]) = 0 /\ Consumers(s) = {}
      BY <2>1 DEF Init, Runtime!Init, Presenting, Consumers, Cleared
    <2> QED
      BY <2>1, <2>2, FS_EmptySet DEF Consumption
  <1>5. SetAside
    <2>1. \A c \in Calls : ~ Pending(c)
      BY DEF Init, Pending
    <2>2. ASSUME NEW s \in Sessions
          PROVE  /\ DOMAIN ran[s] = {} /\ Len(granted[s]) - Len(ran[s]) = 0
                 /\ \A k \in CostKeys : spent[s][k] - charged[s][k] = 0
      BY DEF Init, Runtime!Init
    <2>3. ASSUME NEW s, NEW k
          PROVE  Owed(s) = [c \in Calls |-> 0] /\ OwedCharge(s, k) = [c \in Calls |-> 0]
      BY <2>1 DEF Owed, OwedCharge, PendingIn
    <2>4. Fits([c \in Calls |-> 0], 0)
      BY NothingFits
    <2> QED
      BY <2>1, <2>2, <2>3, <2>4 DEF SetAside
  <1> QED
    BY <1>1, <1>2, <1>3, <1>4, <1>5 DEF IInv

\* Each clause survives a step; a step that changes nothing, trivially.
THEOREM Invariant == Spec => []IInv
  <1>1. Init => IInv
    BY Start
  <1>2. IInv /\ [Next]_vars => IInv'
    <2>1. CASE Next
      BY <2>1, TypeKept, StagesKept, LogsKept, RunsAreLoggedKept, PresentKept, AuthorisedKept,
         ConsumptionKept, SetAsideKept, OneUseKept DEF IInv
    <2>2. CASE UNCHANGED vars
      <3>1. UNCHANGED <<grants, granted, spent, stopped, log, pc, presented, effective, verdict,
                        outcome, ran, charged, held>>
        BY <2>2 DEF vars, ledger, calls, effects
      <3>2. IInv => TypeOK' /\ Stages' /\ OneUse'
        BY <3>1 DEF IInv, TypeOK, Stages, OneUse, Pending
      <3>3. IInv => Logs' /\ RunsAreLogged'
        BY <3>1 DEF IInv, Logs, AheadOf, Logged, RunsAreLogged
      <3>4. IInv => Present' /\ AuthorisedDuringCall'
        BY <3>1 DEF IInv, Present, PresentIn, Holds, AuthorisedDuringCall
      <3>5. IInv => Consumption'
        BY <3>1 DEF IInv, Consumption, Presenting, Consumers, Cleared, Logged
      <3>6. IInv => SetAside'
        BY <3>1 DEF IInv, SetAside, Pending, PendingIn, Owed, OwedCharge, Charge, Unpriced, IsIn
      <3> QED
        BY <3>2, <3>3, <3>4, <3>5, <3>6 DEF IInv
    <2> QED
      BY <2>1, <2>2
  <1> QED
    BY <1>1, <1>2, PTL DEF Spec

\* Each variable keeps its type, whatever calls, tools and records do.
THEOREM TypeCorrect == Spec => []TypeOK
  <1>1. IInv => TypeOK
    BY DEF IInv
  <1> QED
    BY <1>1, Invariant, PTL

\* Nothing runs that the log does not account for, however the log fails
\* (controlled_gate.py:17, 23-24).
THEOREM RunsAreLoggedCorrect == Spec => []RunsAreLogged
  <1>1. IInv => RunsAreLogged
    BY DEF IInv
  <1> QED
    BY <1>1, Invariant, PTL

\* Who got to a tool held its capability at some moment of the call, however
\* grants came and went (controlled_gate.py:8-10).
THEOREM AuthorisedDuringCallCorrect == Spec => []AuthorisedDuringCall
  <1>1. IInv => AuthorisedDuringCall
    BY DEF IInv
  <1> QED
    BY <1>1, Invariant, PTL

\* What capability or purpose refused consumed nothing of its session
\* (controlled_gate.py:8-10, 88-89).
THEOREM OnlyClearedCallsConsumeCorrect == Spec => []OnlyClearedCallsConsume
  <1>1. IInv => OnlyClearedCallsConsume
    <2> SUFFICES ASSUME IInv, NEW s \in Sessions
                 PROVE  Len(granted[s]) <= Cardinality(Cleared(s))
      BY DEF OnlyClearedCallsConsume, Cleared
    <2>1. IsFiniteSet(Presenting) /\ Len(granted[s]) <= Cardinality(Consumers(s))
      BY DEF IInv, Consumption
    <2>2. Cleared(s) \subseteq Presenting /\ Consumers(s) \subseteq Cleared(s)
      BY DEF Cleared, Presenting, Consumers
    <2>3. IsFiniteSet(Cleared(s)) /\ IsFiniteSet(Consumers(s))
      BY <2>1, <2>2, FS_Subset
    <2>4. Cardinality(Consumers(s)) <= Cardinality(Cleared(s))
      BY <2>2, <2>3, FS_Subset
    <2>5. Cardinality(Consumers(s)) \in Nat /\ Cardinality(Cleared(s)) \in Nat
      BY <2>3, FS_CardinalityType
    <2>6. granted[s] \in Seq(Actions)
      BY DEF IInv, TypeOK
    <2> QED
      BY <2>1, <2>4, <2>5, <2>6
  <1> QED
    BY <1>1, Invariant, PTL

-----------------------------------------------------------------------------
(* What tools really did is a ledger too.                                  *)

Facts == INSTANCE SessionLedgerProofs

\* The gate's runtime layer is the ledger that the facts are about.
LEMMA ImplementsFacts == Spec => Facts!Spec
  <1>1. Init => Facts!Init
    BY DEF Init, Runtime!Init, Facts!Init
  <1>2. ASSUME NEW S
        PROVE  Runtime!Cardinality(S) = Facts!Cardinality(S)
    BY DEF Runtime!Cardinality, Facts!Cardinality
  <1>3. ASSUME NEW h
        PROVE  Runtime!RateLeft(h) <=> Facts!RateLeft(h)
    <2> DEFINE W == {i \in DOMAIN h : i > Len(h) + 1 - RateWindow}
    <2>1. Runtime!RateLimited <=> Facts!RateLimited
      BY DEF Runtime!RateLimited, Facts!RateLimited
    <2>2. Runtime!RateLeft(h) <=> (Runtime!RateLimited => Runtime!Cardinality(W) < RateLimit)
      BY Zenon DEF Runtime!RateLeft
    <2>3. Facts!RateLeft(h) <=> (Facts!RateLimited => Facts!Cardinality(W) < RateLimit)
      BY Zenon DEF Facts!RateLeft
    <2> QED
      BY <1>2, <2>1, <2>2, <2>3, Zenon
  <1>4. ASSUME NEW a \in Actions, Runtime!Permitted(a.session, a), Runtime!Grant(a)
        PROVE  Facts!Next
    <2>1. Facts!Permitted(a.session, a)
      BY <1>3, <1>4 DEF Runtime!Permitted, Facts!Permitted, Runtime!NeverReplayed,
         Facts!NeverReplayed, Runtime!StepsLeft, Facts!StepsLeft, Runtime!BudgetLeft,
         Facts!BudgetLeft, Runtime!SamePurpose, Facts!SamePurpose, Runtime!Unpriced,
         Facts!Unpriced, Runtime!BudgetedKeys, Facts!BudgetedKeys, Runtime!Charge,
         Facts!Charge, Runtime!Tainted, Facts!Tainted
    <2> QED
      BY <1>4, <2>1 DEF Facts!Next, Runtime!Grant, Facts!Grant, Runtime!Charge, Facts!Charge
  <1>5. IInv /\ [Next]_vars => [Facts!Next]_<<granted, spent>>
    <2> SUFFICES ASSUME IInv, Next
                 PROVE  Facts!Next \/ UNCHANGED <<granted, spent>>
      BY DEF vars, ledger
    <2> QED
      BY <1>4, PendingShape DEF IInv, Elsewhere, GrantsTo, GivesUp, Runs, ledger
  <1> QED
    BY <1>1, <1>5, Invariant, PTL DEF Spec, Facts!Spec

\* The gate's constants satisfy what the facts assume of the ledger's.
LEMMA SamePackets == Actions \subseteq Facts!Action
  BY PacketAssumption DEF Action, Facts!Action

Limits == Facts!StepCeiling /\ Facts!BudgetCeiling /\ Facts!OnePurposePerLabel /\ Facts!RateIsAStepCap

\* So the packets it granted stay within each limit.
LEMMA LimitsHold == Spec => []Limits
  <1>1. Facts!StepCeiling /\ Facts!BudgetCeiling /\ Facts!OnePurposePerLabel /\ Facts!RateIsAStepCap => Limits
    BY DEF Limits
  <1> QED
    BY <1>1, ImplementsFacts, Facts!StepCeilingCorrect, Facts!BudgetCeilingCorrect,
       Facts!OnePurposePerLabelCorrect, Facts!RateIsAStepCapCorrect, SamePackets, PacketAssumption,
       DistinctAssumption, ConfigAssumption, PTL

\* What the rate rule asks of a history depends on its length alone.
LEMMA RateRule ==
    ASSUME NEW h \in Seq(Actions), RateLimited => Len(h) < RateLimit \/ RateWindow <= RateLimit
    PROVE  Effects!RateLeft(h)
  <1> DEFINE W == {i \in DOMAIN h : i > Len(h) + 1 - RateWindow}
             n == Len(h)
  <1>0. n \in Nat /\ DOMAIN h = 1..n
    BY LenProperties
  <1>1. Effects!RateLeft(h) <=> (Effects!RateLimited => Effects!Cardinality(W) < RateLimit)
    BY Zenon DEF Effects!RateLeft
  <1>2. (Effects!RateLimited <=> RateLimited) /\ Effects!Cardinality(W) = Cardinality(W)
    BY DEF Effects!RateLimited, RateLimited, Effects!Cardinality, Cardinality
  <1>3. ASSUME RateLimited
        PROVE  Cardinality(W) < RateLimit
    <2>0. RateWindow \in Int /\ RateLimit \in Int /\ RateWindow > 0
      BY <1>3, ConfigAssumption DEF RateLimited
    <2>1. CASE n < RateLimit
      <3>1. W \subseteq 1..n /\ IsFiniteSet(1..n) /\ Cardinality(1..n) = n
        BY <1>0, FS_Interval
      <3>2. Cardinality(W) <= n /\ Cardinality(W) \in Nat
        BY <3>1, FS_Subset, FS_CardinalityType
      <3> HIDE DEF W
      <3> QED
        BY <1>0, <2>0, <2>1, <3>2
    <2>2. CASE RateWindow <= RateLimit
      <3> DEFINE I == (n + 2 - RateWindow)..n
      <3>1. W \subseteq I
        BY <1>0, <2>0
      <3>2. n + 2 - RateWindow \in Int /\ n \in Int
        BY <1>0, <2>0
      <3>3. /\ IsFiniteSet(I)
            /\ Cardinality(I) = IF n + 2 - RateWindow > n THEN 0 ELSE n - (n + 2 - RateWindow) + 1
        BY <3>2, FS_Interval
      <3>4. Cardinality(W) <= Cardinality(I) /\ Cardinality(W) \in Nat
        BY <3>1, <3>3, FS_Subset, FS_CardinalityType
      <3> HIDE DEF W, I
      <3> QED
        BY <1>0, <2>0, <2>2, <3>3, <3>4
    <2> QED
      BY <1>3, <2>1, <2>2
  <1> QED
    BY <1>1, <1>2, <1>3, Zenon

\* What is set aside for a call lets it run, whatever has run since it was granted.
LEMMA RunIsPermitted ==
    ASSUME IInv, Limits, NEW c \in Calls, Execute(c)
    PROVE  Effects!Permitted(effective[c].session, effective[c])
  <1> DEFINE a == effective[c]
             s == a.session
             g == granted[s]
             r == ran[s]
  <1>0. TypeOK /\ Stages /\ SetAside /\ OneUse
    BY DEF IInv
  <1>1. /\ a \in Actions /\ s \in Sessions /\ ~ Unpriced(a)
        /\ Pending(c) /\ PendingIn(s, c) /\ IsIn(a, g)
    BY <1>0, PacketFacts DEF Execute, Pending, PendingIn, Stages, SetAside
  <1>2. g \in Seq(Actions) /\ r \in Seq(Actions)
    BY <1>0, <1>1 DEF TypeOK
  <1>3. Len(g) \in Nat /\ Len(r) \in Nat
    BY <1>2
  <1>4. Len(r) + 1 <= Len(g)
    <2>1. Fits(Owed(s), Len(g) - Len(r))
      BY <1>0, <1>1 DEF SetAside
    <2>2. Owed(s) \in [Calls -> Nat] /\ Owed(s)[c] = 1
      BY <1>1 DEF Owed
    <2>3. Owed(s)[c] <= Len(g) - Len(r)
      <3>1. \A w \in [Calls -> Nat], m \in Int : Fits(w, m) => w[c] <= m
        BY FitsChanged
      <3>2. Len(g) - Len(r) \in Int
        BY <1>3
      <3> QED
        BY <2>1, <2>2, <3>1, <3>2
    <2> QED
      BY <1>3, <2>2, <2>3
  <1> HIDE DEF a, s, g, r
  <1>5. Effects!StepsLeft(r)
    <2>1. Len(g) <= MaxSteps
      BY <1>1, <1>3, <1>4 DEF Limits, Facts!StepCeiling, g
    <2> QED
      BY <1>3, <1>4, <2>1, ConfigAssumption DEF Effects!StepsLeft
  <1>6. Effects!RateLeft(r)
    <2>1. RateLimited /\ RateLimit < RateWindow => Len(g) <= RateLimit
      BY <1>1 DEF Limits, Facts!RateIsAStepCap, Facts!RateLimited, RateLimited, g
    <2> QED
      BY <1>2, <1>3, <1>4, <2>1, RateRule, ConfigAssumption
  <1>7. Effects!BudgetLeft(s, a)
    <2>1. ~ Effects!Unpriced(a)
      BY <1>1 DEF Unpriced, Effects!Unpriced, BudgetedKeys, Effects!BudgetedKeys
    <2>2. ASSUME NEW k \in BudgetedKeys
          PROVE  charged[s][k] + Charge(a, k) <= Budgets[k]
      <3>1. k \in CostKeys /\ Budgets[k] \in Int
        BY ConfigAssumption DEF BudgetedKeys
      <3>2. spent[s][k] \in Nat /\ charged[s][k] \in Nat /\ Charge(a, k) \in Nat
        <4>1. spent \in [Sessions -> [CostKeys -> Nat]] /\ charged \in [Sessions -> [CostKeys -> Nat]]
          BY <1>0 DEF TypeOK
        <4> QED
          BY <1>1, <3>1, <4>1, ChargeFacts
      <3>3. spent[s][k] <= Budgets[k]
        <4>1. g # <<>>
          BY <1>3, <1>4
        <4> QED
          BY <1>1, <4>1 DEF Limits, Facts!BudgetCeiling, Facts!BudgetedKeys, BudgetedKeys, g
      <3>4. Fits(OwedCharge(s, k), spent[s][k] - charged[s][k])
        BY <1>0, <1>1, <3>1 DEF SetAside
      <3>5. OwedCharge(s, k) \in [Calls -> Nat] /\ OwedCharge(s, k)[c] = Charge(a, k)
        BY <1>0, <1>1, <3>1, OwedType DEF OwedCharge, a
      <3>6. OwedCharge(s, k)[c] <= spent[s][k] - charged[s][k]
        <4>1. \A w \in [Calls -> Nat], m \in Int : Fits(w, m) => w[c] <= m
          BY FitsChanged
        <4>2. spent[s][k] - charged[s][k] \in Int
          BY <3>2
        <4> QED
          BY <3>4, <3>5, <4>1, <4>2
      <3> QED
        BY <3>1, <3>2, <3>3, <3>5, <3>6
    <2> QED
      BY <2>1, <2>2 DEF Effects!BudgetLeft, BudgetedKeys, Effects!BudgetedKeys, Charge, Effects!Charge
  <1>8. Effects!NeverReplayed(r, a)
    BY <1>0, <1>1 DEF OneUse, Effects!NeverReplayed, a, s, r
  <1>9. Effects!SamePurpose(r, a)
    <2>1. PICK j \in DOMAIN g : g[j] = a
      BY <1>1 DEF IsIn
    <2>2. \A i, n \in DOMAIN g : \A l \in Tainted(g[i]) \cap g[n].labels :
             /\ g[i].purpose = g[n].purpose
             /\ PurposeForLabel[l] \in {NoPurpose, g[i].purpose}
      BY <1>1 DEF Limits, Facts!OnePurposePerLabel, Facts!Tainted, Tainted, g
    <2>3. ASSUME NEW l \in Tainted(a)
          PROVE  /\ PurposeForLabel[l] \in {NoPurpose, a.purpose}
                 /\ \A i \in DOMAIN r : l \in r[i].labels => r[i].purpose = a.purpose
      <3>1. l \in Tainted(g[j]) \cap g[j].labels
        BY <2>1, <2>3 DEF Tainted
      <3>2. PurposeForLabel[l] \in {NoPurpose, a.purpose}
        BY <2>1, <2>2, <3>1
      <3>3. ASSUME NEW i \in DOMAIN r, l \in r[i].labels
            PROVE  r[i].purpose = a.purpose
        <4>1. PICK n \in DOMAIN g : g[n] = r[i]
          BY <1>0, <1>1, <3>3 DEF SetAside, IsIn, g, r
        <4> QED
          BY <2>1, <2>2, <3>1, <3>3, <4>1
      <3> QED
        BY <3>2, <3>3
    <2> QED
      BY <2>3 DEF Effects!SamePurpose, Effects!Tainted, Tainted
  <1> QED
    BY <1>5, <1>6, <1>7, <1>8, <1>9 DEF Effects!Permitted, a, s, r

\* What tools did is within every limit of its session, as if each run had been ruled
\* on alone and at the instant it ran: grants that were never run, calls between their
\* grant and their tool, and the order they overtake each other in make no difference
\* (controlled_gate.py:4, 19-21).
THEOREM EffectsWithinLimitsCorrect == Spec => EffectsWithinLimits
  <1>1. Init => Effects!Init
    BY DEF Init, Runtime!Init, Effects!Init
  <1>2. IInv /\ Limits /\ [Next]_vars => [Effects!Next]_<<ran, charged>>
    <2> SUFFICES ASSUME IInv, Limits, Next
                 PROVE  Effects!Next \/ UNCHANGED <<ran, charged>>
      BY DEF vars, effects
    <2>1. ASSUME NEW c \in Calls, Execute(c)
          PROVE  Effects!Next
      <3>1. effective[c] \in Actions /\ Ran(effective[c])
        BY <2>1 DEF IInv, Stages, Execute
      <3>2. Effects!Permitted(effective[c].session, effective[c])
        BY <2>1, RunIsPermitted
      <3>3. Effects!Grant(effective[c])
        BY <3>1, <3>2 DEF Ran, Effects!Grant, Charge, Effects!Charge
      <3> QED
        BY <3>1, <3>3 DEF Effects!Next
    <2>2. CASE ~ \E c \in Calls : Execute(c)
      BY <2>2 DEF Next, Dispatch, RefuseNonAction, CheckHeld, CheckWildcard, CheckCapability, Evaluate,
         EvaluateRaises, CheckStopped, CheckRuntime, Record, RecordRaises, ExecuteRaises,
         Grant, Revoke, SetGrants, Stop, effects
    <2> QED
      BY <2>1, <2>2
  <1> QED
    BY <1>1, <1>2, Invariant, LimitsHold, PTL DEF Spec, EffectsWithinLimits, Effects!Spec
=============================================================================
