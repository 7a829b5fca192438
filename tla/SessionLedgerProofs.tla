------------------------- MODULE SessionLedgerProofs -------------------------
(***************************************************************************)
(* What the contract implies for every history, for every value of the     *)
(* constants.  RuntimeMonitorProofs carries these facts over to the        *)
(* threaded monitor through the refinement.                                *)
(***************************************************************************)
EXTENDS SessionLedger, FiniteSetTheorems, SequenceTheorems, TLAPS

LedgerType ==
    /\ granted \in [Sessions -> Seq(Actions)]
    /\ spent \in [Sessions -> [CostKeys -> Nat]]

\* A charge is a natural number: neither a NaN nor a negative amount survives.
LEMMA ChargeType ==
    ASSUME NEW a \in Actions, NEW k \in CostKeys, ~ Unpriced(a)
    PROVE  Charge(a, k) \in Nat
  BY PacketAssumption, DistinctAssumption, SMT DEF Charge, Unpriced, Action

\* Appending to a session's history: what is at each position afterwards.
LEMMA AppendedHistory ==
    ASSUME NEW h \in Seq(Actions), NEW a \in Actions
    PROVE  /\ Append(h, a) \in Seq(Actions)
           /\ Len(Append(h, a)) = Len(h) + 1
           /\ DOMAIN Append(h, a) = DOMAIN h \cup {Len(h) + 1}
           /\ \A i \in DOMAIN h : Append(h, a)[i] = h[i]
           /\ Append(h, a)[Len(h) + 1] = a
           /\ Len(h) + 1 \notin DOMAIN h
  OBVIOUS

\* The shape of a step of the ledger: one session grows by one packet.
LEMMA GrantShape ==
    ASSUME LedgerType, NEW a \in Actions, Grant(a)
    PROVE  /\ a.session \in Sessions
           /\ granted' = [granted EXCEPT ![a.session] = Append(granted[a.session], a)]
           /\ \A s \in Sessions :
                granted'[s] = IF s = a.session THEN Append(granted[s], a) ELSE granted[s]
  BY PacketAssumption DEF LedgerType, Grant, Action

\* Types are kept: histories hold packets, totals stay natural numbers.
THEOREM LedgerTypeCorrect == Spec => []LedgerType
  <1>1. Init => LedgerType
    BY DEF Init, LedgerType
  <1>2. LedgerType /\ [Next]_<<granted, spent>> => LedgerType'
    <2> SUFFICES ASSUME LedgerType, [Next]_<<granted, spent>>
                 PROVE  LedgerType'
      OBVIOUS
    <2>1. ASSUME NEW a \in Actions, Grant(a)
          PROVE  LedgerType'
      <3>1. a.session \in Sessions
        BY PacketAssumption DEF Action
      <3>2. \A k \in CostKeys : Charge(a, k) \in Nat
        BY <2>1, ChargeType DEF Grant, Permitted, BudgetLeft
      <3>3. [k \in CostKeys |-> spent[a.session][k] + Charge(a, k)] \in [CostKeys -> Nat]
        BY <3>1, <3>2 DEF LedgerType
      <3> QED
        BY <2>1, <3>1, <3>3, AppendedHistory DEF LedgerType, Grant
    <2> QED
      BY <2>1 DEF Next, LedgerType
  <1> QED
    BY <1>1, <1>2, PTL DEF Spec

\* No non-empty nonce is ever granted twice in one session (runtime.py:266-275).
THEOREM NonceGrantedOnceCorrect == Spec => []NonceGrantedOnce
  <1>1. Init => NonceGrantedOnce
    BY DEF Init, NonceGrantedOnce
  <1>2. LedgerType /\ NonceGrantedOnce /\ [Next]_<<granted, spent>> => NonceGrantedOnce'
    <2> SUFFICES ASSUME LedgerType, NonceGrantedOnce, [Next]_<<granted, spent>>
                 PROVE  NonceGrantedOnce'
      OBVIOUS
    <2>1. ASSUME NEW a \in Actions, Grant(a)
          PROVE  NonceGrantedOnce'
      <3> SUFFICES ASSUME NEW s \in Sessions,
                          NEW i \in DOMAIN granted'[s], NEW j \in DOMAIN granted'[s],
                          granted'[s][i].nonce = granted'[s][j].nonce,
                          i # j
                   PROVE  granted'[s][i].nonce = NoNonce
        BY DEF NonceGrantedOnce
      <3>1. CASE s # a.session
        BY <2>1, <3>1, GrantShape DEF NonceGrantedOnce
      <3>2. CASE s = a.session
        <4>1. /\ granted'[s] = Append(granted[s], a)
              /\ granted[s] \in Seq(Actions)
          BY <2>1, <3>2, GrantShape DEF LedgerType
        <4>2. NeverReplayed(granted[s], a)
          BY <2>1, <3>2 DEF Grant, Permitted
        <4> QED
          BY <4>1, <4>2, AppendedHistory DEF NonceGrantedOnce, NeverReplayed
      <3> QED
        BY <3>1, <3>2
    <2> QED
      BY <2>1 DEF Next, NonceGrantedOnce
  <1> QED
    BY <1>1, <1>2, LedgerTypeCorrect, PTL DEF Spec

\* No session is granted more than max_steps packets (runtime.py:277-285).
THEOREM StepCeilingCorrect == Spec => []StepCeiling
  <1>1. Init => StepCeiling
    BY DEF Init, StepCeiling
  <1>2. LedgerType /\ StepCeiling /\ [Next]_<<granted, spent>> => StepCeiling'
    <2> SUFFICES ASSUME LedgerType, StepCeiling, [Next]_<<granted, spent>>
                 PROVE  StepCeiling'
      OBVIOUS
    <2>1. ASSUME NEW a \in Actions, Grant(a)
          PROVE  StepCeiling'
      <3> SUFFICES ASSUME NEW s \in Sessions, Len(granted'[s]) > 0
                   PROVE  Len(granted'[s]) <= MaxSteps
        BY DEF StepCeiling
      <3>1. CASE s # a.session
        BY <2>1, <3>1, GrantShape DEF StepCeiling
      <3>2. CASE s = a.session
        <4>1. /\ granted'[s] = Append(granted[s], a)
              /\ granted[s] \in Seq(Actions)
          BY <2>1, <3>2, GrantShape DEF LedgerType
        <4>2. Len(granted[s]) < MaxSteps
          BY <2>1, <3>2 DEF Grant, Permitted, StepsLeft
        <4> QED
          BY <4>1, <4>2, AppendedHistory, ConfigAssumption
      <3> QED
        BY <3>1, <3>2
    <2> QED
      BY <2>1 DEF Next, StepCeiling
  <1> QED
    BY <1>1, <1>2, LedgerTypeCorrect, PTL DEF Spec

\* What a session was really charged never exceeds a ceiling (runtime.py:300-331).
THEOREM BudgetCeilingCorrect == Spec => []BudgetCeiling
  <1>1. Init => BudgetCeiling
    BY DEF Init, BudgetCeiling
  <1>2. LedgerType /\ BudgetCeiling /\ [Next]_<<granted, spent>> => BudgetCeiling'
    <2> SUFFICES ASSUME LedgerType, BudgetCeiling, [Next]_<<granted, spent>>
                 PROVE  BudgetCeiling'
      OBVIOUS
    <2>1. ASSUME NEW a \in Actions, Grant(a)
          PROVE  BudgetCeiling'
      <3> SUFFICES ASSUME NEW s \in Sessions, granted'[s] # <<>>,
                          NEW k \in BudgetedKeys
                   PROVE  spent'[s][k] <= Budgets[k]
        BY DEF BudgetCeiling
      <3>0. k \in CostKeys
        BY ConfigAssumption DEF BudgetedKeys
      <3>1. CASE s # a.session
        BY <2>1, <3>1, GrantShape DEF BudgetCeiling, Grant, LedgerType
      <3>2. CASE s = a.session
        <4>1. spent'[s][k] = spent[s][k] + Charge(a, k)
          BY <2>1, <3>0, <3>2 DEF Grant, LedgerType
        <4>2. spent[s][k] + Charge(a, k) <= Budgets[k]
          BY <2>1, <3>2 DEF Grant, Permitted, BudgetLeft
        <4> QED
          BY <4>1, <4>2
      <3> QED
        BY <3>1, <3>2
    <2> QED
      BY <2>1 DEF Next, BudgetCeiling
  <1> QED
    BY <1>1, <1>2, LedgerTypeCorrect, PTL DEF Spec

\* A sensitive label is granted under one purpose per session, the pinned one
\* when there is a pin (runtime.py:333-351).
THEOREM OnePurposePerLabelCorrect == Spec => []OnePurposePerLabel
  <1>1. Init => OnePurposePerLabel
    BY DEF Init, OnePurposePerLabel
  <1>2. LedgerType /\ OnePurposePerLabel /\ [Next]_<<granted, spent>> => OnePurposePerLabel'
    <2> SUFFICES ASSUME LedgerType, OnePurposePerLabel, [Next]_<<granted, spent>>
                 PROVE  OnePurposePerLabel'
      OBVIOUS
    <2>1. ASSUME NEW a \in Actions, Grant(a)
          PROVE  OnePurposePerLabel'
      <3> SUFFICES ASSUME NEW s \in Sessions,
                          NEW i \in DOMAIN granted'[s], NEW j \in DOMAIN granted'[s],
                          NEW l \in Tainted(granted'[s][i]) \cap granted'[s][j].labels
                   PROVE  /\ granted'[s][i].purpose = granted'[s][j].purpose
                          /\ PurposeForLabel[l] \in {NoPurpose, granted'[s][i].purpose}
        BY DEF OnePurposePerLabel
      <3>1. CASE s # a.session
        BY <2>1, <3>1, GrantShape DEF OnePurposePerLabel
      <3>2. CASE s = a.session
        <4>1. /\ granted'[s] = Append(granted[s], a)
              /\ granted[s] \in Seq(Actions)
          BY <2>1, <3>2, GrantShape DEF LedgerType
        <4>2. SamePurpose(granted[s], a)
          BY <2>1, <3>2 DEF Grant, Permitted
        <4>3. ASSUME NEW n \in DOMAIN granted[s],
                     NEW m \in Tainted(a) \cap granted[s][n].labels
              PROVE  /\ granted[s][n].purpose = a.purpose
                     /\ PurposeForLabel[m] \in {NoPurpose, a.purpose}
          <5>1. m \in Tainted(granted[s][n]) \cap granted[s][n].labels
            BY <4>3 DEF Tainted
          <5>2. PurposeForLabel[m] \in {NoPurpose, granted[s][n].purpose}
            BY <4>3, <5>1 DEF OnePurposePerLabel
          <5> QED
            BY <4>2, <4>3, <5>2 DEF SamePurpose
        <4>4. PurposeForLabel[l] \in {NoPurpose, a.purpose} \/ l \notin Tainted(a)
          BY <4>2 DEF SamePurpose
        <4>5. /\ DOMAIN granted'[s] = DOMAIN granted[s] \cup {Len(granted[s]) + 1}
              /\ \A n \in DOMAIN granted[s] : granted'[s][n] = granted[s][n]
              /\ granted'[s][Len(granted[s]) + 1] = a
          BY <4>1, AppendedHistory
        <4> QED
          BY <4>3, <4>4, <4>5 DEF OnePurposePerLabel, Tainted
      <3> QED
        BY <3>1, <3>2
    <2> QED
      BY <2>1 DEF Next, OnePurposePerLabel
  <1> QED
    BY <1>1, <1>2, LedgerTypeCorrect, PTL DEF Spec

\* A rate limit below its window is a cap on the session's total number of
\* grants: ordinals advance on ALLOW only, so the window never moves past the
\* grants that fill it (runtime.py:287-298, 354-362).
THEOREM RateIsAStepCapCorrect == Spec => []RateIsAStepCap
  <1>1. Init => RateIsAStepCap
    BY ConfigAssumption DEF Init, RateIsAStepCap, RateLimited
  <1>2. LedgerType /\ RateIsAStepCap /\ [Next]_<<granted, spent>> => RateIsAStepCap'
    <2> SUFFICES ASSUME LedgerType, RateIsAStepCap, [Next]_<<granted, spent>>
                 PROVE  RateIsAStepCap'
      OBVIOUS
    <2>1. ASSUME NEW a \in Actions, Grant(a)
          PROVE  RateIsAStepCap'
      <3> SUFFICES ASSUME RateLimited, RateLimit < RateWindow, NEW s \in Sessions
                   PROVE  Len(granted'[s]) <= RateLimit
        BY DEF RateIsAStepCap
      <3>1. CASE s # a.session
        BY <2>1, <3>1, GrantShape DEF RateIsAStepCap
      <3>2. CASE s = a.session
        <4> DEFINE n == Len(granted[s])
                   W == {i \in DOMAIN granted[s] : i > n + 1 - RateWindow}
        <4>1. /\ granted'[s] = Append(granted[s], a)
              /\ granted[s] \in Seq(Actions)
          BY <2>1, <3>2, GrantShape DEF LedgerType
        <4>2. n \in Nat /\ n <= RateLimit /\ DOMAIN granted[s] = 1..n
          BY <4>1, LenProperties DEF RateIsAStepCap
        <4>3. W = 1..n
          BY <4>2, ConfigAssumption
        <4>4. Cardinality(1..n) = n
          BY <4>2, FS_Interval
        <4>5. Cardinality(W) < RateLimit
          BY <2>1, <3>2 DEF Grant, Permitted, RateLeft
        <4>6. n + 1 <= RateLimit
          <5> HIDE DEF W
          <5>1. Cardinality(W) = n
            BY <4>3, <4>4
          <5> QED
            BY <4>2, <4>5, <5>1, ConfigAssumption
        <4> QED
          BY <4>1, <4>6, AppendedHistory
      <3> QED
        BY <3>1, <3>2
    <2> QED
      BY <2>1 DEF Next, RateIsAStepCap
  <1> QED
    BY <1>1, <1>2, LedgerTypeCorrect, PTL DEF Spec
=============================================================================
