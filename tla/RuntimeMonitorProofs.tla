------------------------ MODULE RuntimeMonitorProofs ------------------------
(***************************************************************************)
(* RuntimeMonitor implements SessionLedger, for any number of callers,     *)
(* sessions and packets and any configuration of limits.                   *)
(*                                                                         *)
(* The argument: locks exclude (LockDiscipline), calls go to the object of *)
(* their session (SessionRouting), so nothing moves between a decision and *)
(* its commit (PlanIsFresh), so each commit takes the mirror of a history  *)
(* to the mirror of that history with one more packet                      *)
(* (StateMirrorsHistory); and on a mirrored state the code's rules decide  *)
(* exactly what the ledger permits.                                        *)
(***************************************************************************)
EXTENDS RuntimeMonitor, FiniteSetTheorems, SequenceTheorems, TLAPS

-----------------------------------------------------------------------------
(* The rules, as operators on one state object and one packet.             *)

\* Reading a packet's fields is safe: they have the types of Action.
LEMMA PacketType ==
    ASSUME NEW a \in Actions
    PROVE  /\ a.session \in Sessions
           /\ a.nonce \in Nonces \cup {NoNonce}
           /\ a.purpose \in Purposes
           /\ a.labels \in SUBSET Labels
           /\ a.purpose # NoPurpose
  BY PacketAssumption, DistinctAssumption DEF Action

\* A charge is a natural number: neither a NaN nor a negative amount survives.
LEMMA ChargeIsNat ==
    ASSUME NEW a \in Actions, NEW k \in CostKeys, ~ Unpriced(a)
    PROVE  Charge(a, k) \in Nat
  BY PacketAssumption, DistinctAssumption DEF Charge, Unpriced, Action

\* What a call computes before it commits has the types the commit relies on.
LEMMA PlanType ==
    ASSUME NEW h \in SessionState, NEW a \in Actions, ~ Denied(h, a)
    PROVE  PlanFor(h, a) \in Plan
  <1>1. ~ Unpriced(a)
    BY DEF Denied, BudgetExceeded
  <1>2. NewCosts(h, a) \in [CostKeys -> Nat]
    BY <1>1, ChargeIsNat DEF NewCosts, SessionState
  <1>3. NewBindings(h, a) \in [Labels -> Purposes \cup {NoPurpose}]
    BY PacketType DEF NewBindings
  <1>4. h.steps + 1 \in Nat
    BY DEF SessionState
  <1> QED
    BY <1>2, <1>3, <1>4 DEF PlanFor, Plan

\* A commit leaves a well-typed state behind.
LEMMA CommittedType ==
    ASSUME NEW h \in SessionState, NEW a \in Actions, NEW p \in Plan
    PROVE  Committed(h, a, p) \in SessionState
  <1>1. p.step \in Nat /\ p.costs \in [CostKeys -> Nat]
    BY DEF Plan
  <1>2. {n \in h.recent \cup {p.step} : RateWindow > 0 => n >= p.step - RateWindow + 1}
          \in SUBSET Nat
    BY <1>1 DEF SessionState
  <1>3. h.nonces \cup ({a.nonce} \ {NoNonce}) \in SUBSET Nonces
    BY PacketType DEF SessionState
  <1>4. [l \in Labels |-> IF p.bindings[l] # NoPurpose THEN p.bindings[l] ELSE h.bound[l]]
          \in [Labels -> Purposes \cup {NoPurpose}]
    BY DEF SessionState, Plan
  <1> QED
    BY <1>1, <1>2, <1>3, <1>4 DEF Committed, SessionState

\* Appending to a session's history: what is at each position afterwards.
LEMMA AppendedHistory ==
    ASSUME NEW g \in Seq(Actions), NEW a \in Actions
    PROVE  /\ Append(g, a) \in Seq(Actions)
           /\ Len(g) \in Nat
           /\ DOMAIN g = 1..Len(g)
           /\ Len(Append(g, a)) = Len(g) + 1
           /\ DOMAIN Append(g, a) = DOMAIN g \cup {Len(g) + 1}
           /\ \A i \in DOMAIN g : Append(g, a)[i] = g[i]
           /\ Append(g, a)[Len(g) + 1] = a
           /\ Len(g) + 1 \notin DOMAIN g
  OBVIOUS

\* A commit takes the mirror of a history to the mirror of the longer history.
LEMMA CommitMirrors ==
    ASSUME NEW h \in SessionState, NEW a \in Actions, NEW g \in Seq(Actions),
           NEW x \in [CostKeys -> Nat], Mirrors(h, g, x), ~ Denied(h, a)
    PROVE  Mirrors(Committed(h, a, PlanFor(h, a)), Append(g, a),
                   [k \in CostKeys |-> x[k] + Charge(a, k)])
  <1> DEFINE c == Committed(h, a, PlanFor(h, a))
             G == Append(g, a)
  <1>1. c.steps = Len(G)
    BY AppendedHistory DEF Committed, PlanFor, Mirrors
  <1>2. c.recent = {i \in 1..Len(G) : RateWindow > 0 => i > Len(G) - RateWindow}
    <2>1. h.recent = {i \in 1..Len(g) : RateWindow > 0 => i > Len(g) - RateWindow}
      BY DEF Mirrors
    <2>2. c.recent = {n \in h.recent \cup {Len(g) + 1} :
                        RateWindow > 0 => n >= (Len(g) + 1) - RateWindow + 1}
      <3>1. PlanFor(h, a).step = Len(g) + 1
        BY DEF PlanFor, Mirrors
      <3>2. c.recent = {n \in h.recent \cup {PlanFor(h, a).step} :
                          RateWindow > 0 => n >= PlanFor(h, a).step - RateWindow + 1}
        BY DEF Committed
      <3> QED
        BY <3>1, <3>2, Zenon
    <2> QED
      BY <2>1, <2>2, AppendedHistory, ConfigAssumption
  <1>3. c.costs = [k \in CostKeys |-> x[k] + Charge(a, k)]
    BY DEF Committed, PlanFor, NewCosts, Mirrors
  <1>4. c.nonces = {G[i].nonce : i \in DOMAIN G} \ {NoNonce}
    <2>1. h.nonces = {g[i].nonce : i \in DOMAIN g} \ {NoNonce}
      BY DEF Mirrors
    <2>2. c.nonces = h.nonces \cup ({a.nonce} \ {NoNonce})
      BY DEF Committed
    <2> QED
      BY <2>1, <2>2, AppendedHistory
  <1>5. ASSUME NEW l \in SensitiveLabels \cap Labels, PurposeForLabel[l] = NoPurpose
        PROVE  /\ \A i \in DOMAIN G : l \in G[i].labels => G[i].purpose = c.bound[l]
               /\ c.bound[l] # NoPurpose => \E i \in DOMAIN G : l \in G[i].labels
    <2>1. /\ \A i \in DOMAIN g : l \in g[i].labels => g[i].purpose = h.bound[l]
          /\ h.bound[l] # NoPurpose => \E i \in DOMAIN g : l \in g[i].labels
      BY <1>5 DEF Mirrors
    <2>2. BoundPurpose(h, l) = h.bound[l]
      BY <1>5 DEF BoundPurpose
    <2>3. c.bound[l] = IF l \in a.labels /\ h.bound[l] = NoPurpose
                       THEN a.purpose ELSE h.bound[l]
      BY <1>5, <2>2, PacketType DEF Committed, PlanFor, NewBindings, Tainted
    <2>4. l \in a.labels => h.bound[l] \in {NoPurpose, a.purpose}
      BY <1>5, <2>2 DEF Denied, Laundered, Tainted
    <2>5. \A i \in DOMAIN g : l \in g[i].labels => h.bound[l] # NoPurpose
      BY <2>1, PacketType, ElementOfSeq
    <2> QED
      BY <2>1, <2>3, <2>4, <2>5, AppendedHistory
  <1> QED
    BY <1>1, <1>2, <1>3, <1>4, <1>5 DEF Mirrors

\* The ledger is instantiated with its own copy of Cardinality.
LEMMA SameCardinality ==
    ASSUME NEW S
    PROVE  Ledger!Cardinality(S) = Cardinality(S)
  BY DEF Ledger!Cardinality, Cardinality

\* On a mirrored state the code's five rules decide exactly what the contract
\* permits: a denial is as justified as a grant.
LEMMA DecisionIsExact ==
    ASSUME NEW h \in SessionState, NEW a \in Actions,
           granted[a.session] \in Seq(Actions),
           Mirrors(h, granted[a.session], spent[a.session])
    PROVE  ~ Denied(h, a) <=> Ledger!Permitted(a.session, a)
  <1> DEFINE g == granted[a.session]
             n == Len(g)
  <1>0. n \in Nat /\ DOMAIN g = 1..n
    BY LenProperties
  <1>1. ~ Replayed(h, a) <=> Ledger!NeverReplayed(g, a)
    BY DEF Mirrors, Replayed, Ledger!NeverReplayed
  <1>2. ~ StepsExceeded(h) <=> Ledger!StepsLeft(g)
    BY <1>0, ConfigAssumption DEF Mirrors, StepsExceeded, Ledger!StepsLeft
  <1>3. ~ RateExceeded(h) <=> Ledger!RateLeft(g)
    <2> DEFINE W == {i \in DOMAIN g : i > Len(g) + 1 - RateWindow}
    <2>1. Ledger!RateLeft(g) <=> (RateLimited => Cardinality(W) < RateLimit)
      <3>1. Ledger!RateLimited <=> RateLimited
        BY DEF RateLimited, Ledger!RateLimited
      <3>2. Ledger!RateLeft(g) <=>
              (Ledger!RateLimited => Ledger!Cardinality(W) < RateLimit)
        BY Zenon DEF Ledger!RateLeft
      <3> QED
        BY <3>1, <3>2, SameCardinality, Zenon
    <2>2. RateLimited => InWindow(h) = W
      BY <1>0, ConfigAssumption DEF InWindow, Mirrors, RateLimited
    <2>3. Cardinality(W) \in Nat
      <3>1. IsFiniteSet(1..n)
        BY <1>0, FS_Interval
      <3> QED
        BY <1>0, <3>1, FS_Subset, FS_CardinalityType
    <2> HIDE DEF W
    <2>4. ~ (Cardinality(W) + 1 > RateLimit) <=> Cardinality(W) < RateLimit
      BY <2>3, ConfigAssumption
    <2> QED
      BY <2>1, <2>2, <2>4 DEF RateExceeded
  <1>4. ~ BudgetExceeded(h, a) <=> Ledger!BudgetLeft(a.session, a)
    <2> SUFFICES ASSUME ~ Unpriced(a), NEW k \in BudgetedKeys
                 PROVE  ~ (NewCosts(h, a)[k] > Budgets[k])
                          <=> spent[a.session][k] + Charge(a, k) <= Budgets[k]
      BY DEF BudgetExceeded, Ledger!BudgetLeft, Unpriced, Ledger!Unpriced,
             BudgetedKeys, Ledger!BudgetedKeys, Charge, Ledger!Charge
    <2>1. k \in CostKeys /\ Budgets[k] \in Int
      BY ConfigAssumption DEF BudgetedKeys
    <2>2. h.costs[k] \in Nat /\ Charge(a, k) \in Nat
      BY <2>1, ChargeIsNat DEF SessionState
    <2> QED
      BY <2>1, <2>2 DEF NewCosts, Mirrors
  <1>5. ~ Laundered(h, a) <=> Ledger!SamePurpose(g, a)
    <2> SUFFICES ASSUME NEW l \in Tainted(a)
                 PROVE  BoundPurpose(h, l) \in {NoPurpose, a.purpose} <=>
                          IF PurposeForLabel[l] # NoPurpose
                          THEN a.purpose = PurposeForLabel[l]
                          ELSE \A i \in DOMAIN g : l \in g[i].labels => g[i].purpose = a.purpose
      BY DEF Laundered, Ledger!SamePurpose, Tainted, Ledger!Tainted
    <2>1. CASE PurposeForLabel[l] # NoPurpose
      BY <2>1 DEF BoundPurpose
    <2>2. CASE PurposeForLabel[l] = NoPurpose
      <3>1. l \in SensitiveLabels \cap Labels
        BY PacketType DEF Tainted
      <3>2. /\ \A i \in DOMAIN g : l \in g[i].labels => g[i].purpose = h.bound[l]
            /\ h.bound[l] # NoPurpose => \E i \in DOMAIN g : l \in g[i].labels
        BY <2>2, <3>1 DEF Mirrors
      <3>3. \A i \in DOMAIN g : l \in g[i].labels => h.bound[l] # NoPurpose
        BY <3>2, PacketType, ElementOfSeq
      <3> QED
        BY <2>2, <3>2, <3>3 DEF BoundPurpose
    <2> QED
      BY <2>1, <2>2
  <1> QED
    BY <1>1, <1>2, <1>3, <1>4, <1>5 DEF Denied, Ledger!Permitted
-----------------------------------------------------------------------------
(* The inductive invariant, one lemma per action.                        *)

\* The initial states satisfy it.
LEMMA InitInvariant == Init => IInv
  <1> SUFFICES ASSUME Init
               PROVE  IInv
    OBVIOUS
  <1>0. FreshState \in SessionState
    BY DEF FreshState, SessionState
  <1>1. TypeOK
    <2>1. granted \in [Sessions -> Seq(Actions)]
      BY DEF Init
    <2> QED
      BY <1>0, <2>1 DEF Init, TypeOK
  <1>2. LockDiscipline
    BY NullAssumption DEF Init, LockDiscipline
  <1>3. SessionRouting
    BY NullAssumption DEF Init, SessionRouting
  <1>4. PlanIsFresh
    BY DEF Init, PlanIsFresh
  <1>5. StateMirrorsHistory
    BY DEF Init, StateMirrorsHistory
  <1> QED
    BY <1>1, <1>2, <1>3, <1>4, <1>5 DEF IInv

\* The kill-switch touches no session.
LEMMA StopKeeps ==
    ASSUME IInv, Stop
    PROVE  IInv'
  <1> USE NullAssumption DEF IInv, Stop, Goto, Return, monitorVars, stateVars, callVars, history
  <1>1. TypeOK'
    BY DEF TypeOK
  <1>2. LockDiscipline'
    BY DEF TypeOK, LockDiscipline, SessionRouting
  <1>3. SessionRouting'
    BY DEF TypeOK, SessionRouting
  <1>4. PlanIsFresh'
    BY DEF TypeOK, PlanIsFresh
  <1>5. StateMirrorsHistory'
    BY DEF StateMirrorsHistory
  <1> QED
    BY <1>1, <1>2, <1>3, <1>4, <1>5

\* A call the kill-switch turns away drops a packet and nothing else.
LEMMA DenyStoppedKeeps ==
    ASSUME IInv, NEW c \in Calls, DenyStopped(c)
    PROVE  IInv'
  <1> USE NullAssumption DEF IInv, DenyStopped, Goto, Return, monitorVars, stateVars, callVars, history
  <1>1. TypeOK'
    BY DEF TypeOK
  <1>2. LockDiscipline'
    BY DEF TypeOK, LockDiscipline, SessionRouting
  <1>3. SessionRouting'
    BY DEF TypeOK, SessionRouting
  <1>4. PlanIsFresh'
    BY DEF TypeOK, PlanIsFresh
  <1>5. StateMirrorsHistory'
    BY DEF StateMirrorsHistory
  <1> QED
    BY <1>1, <1>2, <1>3, <1>4, <1>5

\* A call past the kill-switch holds nothing yet.
LEMMA PassKillSwitchKeeps ==
    ASSUME IInv, NEW c \in Calls, PassKillSwitch(c)
    PROVE  IInv'
  <1> USE NullAssumption DEF IInv, PassKillSwitch, Goto, Return, monitorVars, stateVars, callVars, history
  <1>1. TypeOK'
    BY DEF TypeOK
  <1>2. LockDiscipline'
    BY DEF TypeOK, LockDiscipline, SessionRouting
  <1>3. SessionRouting'
    BY DEF TypeOK, SessionRouting
  <1>4. PlanIsFresh'
    BY DEF TypeOK, PlanIsFresh
  <1>5. StateMirrorsHistory'
    BY DEF StateMirrorsHistory
  <1> QED
    BY <1>1, <1>2, <1>3, <1>4, <1>5

\* The lock-free look finds its own session's object, or none.
LEMMA LookUpKeeps ==
    ASSUME IInv, NEW c \in Calls, LookUp(c)
    PROVE  IInv'
  <1> USE NullAssumption DEF IInv, LookUp, Goto, Return, monitorVars, stateVars, callVars, history
  <1>1. TypeOK'
    BY PacketType DEF TypeOK, SessionRouting
  <1>2. LockDiscipline'
    BY DEF TypeOK, LockDiscipline, SessionRouting
  <1>3. SessionRouting'
    BY DEF TypeOK, SessionRouting
  <1>4. PlanIsFresh'
    BY DEF TypeOK, PlanIsFresh
  <1>5. StateMirrorsHistory'
    BY DEF StateMirrorsHistory
  <1> QED
    BY <1>1, <1>2, <1>3, <1>4, <1>5

\* The monitor's lock goes to a call that waits for it.
LEMMA LockMonitorKeeps ==
    ASSUME IInv, NEW c \in Calls, LockMonitor(c)
    PROVE  IInv'
  <1> USE NullAssumption DEF IInv, LockMonitor, Goto, Return, monitorVars, stateVars, callVars, history
  <1>1. TypeOK'
    BY DEF TypeOK
  <1>2. LockDiscipline'
    BY DEF TypeOK, LockDiscipline, SessionRouting
  <1>3. SessionRouting'
    BY DEF TypeOK, SessionRouting
  <1>4. PlanIsFresh'
    BY DEF TypeOK, PlanIsFresh
  <1>5. StateMirrorsHistory'
    BY DEF StateMirrorsHistory
  <1> QED
    BY <1>1, <1>2, <1>3, <1>4, <1>5

\* The second look finds the object another call created.
LEMMA FindAgainKeeps ==
    ASSUME IInv, NEW c \in Calls, FindAgain(c)
    PROVE  IInv'
  <1> USE NullAssumption DEF IInv, FindAgain, Goto, Return, monitorVars, stateVars, callVars, history
  <1>1. TypeOK'
    BY PacketType DEF TypeOK, SessionRouting
  <1>2. LockDiscipline'
    BY DEF TypeOK, LockDiscipline, SessionRouting
  <1>3. SessionRouting'
    BY DEF TypeOK, SessionRouting
  <1>4. PlanIsFresh'
    BY DEF TypeOK, PlanIsFresh
  <1>5. StateMirrorsHistory'
    BY DEF StateMirrorsHistory
  <1> QED
    BY <1>1, <1>2, <1>3, <1>4, <1>5

\* A session's lock goes to a call routed to that session.
LEMMA LockSessionKeeps ==
    ASSUME IInv, NEW c \in Calls, LockSession(c)
    PROVE  IInv'
  <1> USE NullAssumption DEF IInv, LockSession, Goto, Return, monitorVars, stateVars, callVars, history
  <1>1. TypeOK'
    BY DEF TypeOK
  <1>2. LockDiscipline'
    BY DEF TypeOK, LockDiscipline, SessionRouting
  <1>3. SessionRouting'
    BY DEF TypeOK, SessionRouting
  <1>4. PlanIsFresh'
    BY DEF TypeOK, PlanIsFresh
  <1>5. StateMirrorsHistory'
    BY DEF StateMirrorsHistory
  <1> QED
    BY <1>1, <1>2, <1>3, <1>4, <1>5

\* A call that begins holds a packet and nothing else.
LEMMA CheckKeeps ==
    ASSUME IInv, NEW c \in Calls, NEW a \in Actions, Check(c, a)
    PROVE  IInv'
  <1> USE NullAssumption DEF IInv, Check, Goto, monitorVars, stateVars, callVars, history
  <1>1. TypeOK'
    BY DEF TypeOK
  <1>2. LockDiscipline'
    BY DEF TypeOK, LockDiscipline, SessionRouting
  <1>3. SessionRouting'
    BY DEF TypeOK, SessionRouting
  <1>4. PlanIsFresh'
    BY DEF TypeOK, PlanIsFresh
  <1>5. StateMirrorsHistory'
    BY DEF StateMirrorsHistory
  <1> QED
    BY <1>1, <1>2, <1>3, <1>4, <1>5

\* The empty history is mirrored by a fresh state object.
LEMMA FreshMirrors == Mirrors(FreshState, <<>>, [k \in CostKeys |-> 0])
  BY DEF Mirrors, FreshState

\* A session gets its object once, under the monitor's lock, and the object is
\* no other session's.
LEMMA CreateSessionKeeps ==
    ASSUME IInv, NEW c \in Calls, CreateSession(c)
    PROVE  IInv'
  <1> USE NullAssumption DEF IInv
  <1> DEFINE s == act[c].session
  <1>0. PICK o \in Objects \ created :
          /\ created' = created \cup {o}
          /\ heap' = [heap EXCEPT ![o] = FreshState]
          /\ sessions' = [sessions EXCEPT ![s] = o]
          /\ st' = [st EXCEPT ![c] = o]
    BY DEF CreateSession
  <1>a. /\ pc[c] = "recheck"
        /\ sessions[s] = NoObject
        /\ mutex' = NoCall
        /\ pc' = [pc EXCEPT ![c] = "want_session"]
        /\ UNCHANGED <<stopped, lock, act, plan, granted, spent>>
    BY DEF CreateSession, Goto, history
  <1>b. s \in Sessions
    BY <1>a, PacketType DEF TypeOK, SessionRouting
  <1>c. FreshState \in SessionState
    BY DEF FreshState, SessionState
  <1>1. TypeOK'
    BY <1>0, <1>a, <1>b, <1>c DEF TypeOK
  <1>2. LockDiscipline'
    BY <1>0, <1>a DEF TypeOK, LockDiscipline, SessionRouting
  <1>3. SessionRouting'
    BY <1>0, <1>a, <1>b DEF TypeOK, SessionRouting
  <1>4. PlanIsFresh'
    <2> SUFFICES ASSUME NEW d \in Calls, pc'[d] = "commit"
                 PROVE  /\ ~ Denied(heap'[st'[d]], act'[d])
                        /\ plan'[d] = PlanFor(heap'[st'[d]], act'[d])
      BY DEF PlanIsFresh
    <2>1. d # c /\ pc[d] = "commit" /\ st'[d] = st[d]
      BY <1>0, <1>a DEF TypeOK
    <2>2. act[d].session \in Sessions
      BY <2>1, PacketType DEF TypeOK, SessionRouting
    <2>3. st[d] \in created
      BY <2>1, <2>2 DEF SessionRouting
    <2>4. heap'[st'[d]] = heap[st[d]]
      BY <1>0, <2>1, <2>3 DEF TypeOK
    <2> QED
      BY <1>a, <2>1, <2>4 DEF PlanIsFresh
  <1>5. StateMirrorsHistory'
    <2> SUFFICES ASSUME NEW t \in Sessions
                 PROVE  IF sessions'[t] = NoObject
                        THEN granted'[t] = <<>> /\ spent'[t] = [k \in CostKeys |-> 0]
                        ELSE Mirrors(heap'[sessions'[t]], granted'[t], spent'[t])
      BY DEF StateMirrorsHistory
    <2>1. CASE t = s
      <3>1. sessions'[t] = o /\ heap'[o] = FreshState
        BY <1>0, <1>b, <2>1 DEF TypeOK
      <3>2. granted[t] = <<>> /\ spent[t] = [k \in CostKeys |-> 0]
        BY <1>a, <2>1 DEF StateMirrorsHistory
      <3> QED
        BY <1>0, <1>a, <3>1, <3>2, FreshMirrors
    <2>2. CASE t # s
      <3>1. sessions'[t] = sessions[t]
        BY <1>0, <2>2 DEF TypeOK
      <3>2. sessions[t] # NoObject => heap'[sessions[t]] = heap[sessions[t]]
        BY <1>0 DEF TypeOK, SessionRouting
      <3> QED
        BY <1>a, <3>1, <3>2 DEF StateMirrorsHistory
    <2> QED
      BY <2>1, <2>2
  <1> QED
    BY <1>1, <1>2, <1>3, <1>4, <1>5

\* A denial releases the lock and consumes nothing.
LEMMA DenyKeeps ==
    ASSUME IInv, NEW c \in Calls, Deny(c)
    PROVE  IInv'
  <1> USE NullAssumption DEF IInv, Deny, Goto, Return, monitorVars, history
  <1>1. TypeOK'
    BY DEF TypeOK
  <1>2. LockDiscipline'
    BY DEF TypeOK, LockDiscipline, SessionRouting
  <1>3. SessionRouting'
    BY DEF TypeOK, SessionRouting
  <1>4. PlanIsFresh'
    BY DEF TypeOK, PlanIsFresh
  <1>5. StateMirrorsHistory'
    BY DEF StateMirrorsHistory
  <1> QED
    BY <1>1, <1>2, <1>3, <1>4, <1>5

\* A decision to allow is about the state as it is.
LEMMA DecideKeeps ==
    ASSUME IInv, NEW c \in Calls, Decide(c)
    PROVE  IInv'
  <1> USE NullAssumption DEF IInv, Decide, Goto, monitorVars, stateVars, history
  <1>0. act[c] \in Actions /\ st[c] \in Objects
    BY DEF TypeOK, SessionRouting
  <1>1. TypeOK'
    <2>1. PlanFor(heap[st[c]], act[c]) \in Plan
      BY <1>0, PlanType DEF TypeOK
    <2> QED
      BY <2>1 DEF TypeOK
  <1>2. LockDiscipline'
    BY DEF TypeOK, LockDiscipline, SessionRouting
  <1>3. SessionRouting'
    BY DEF TypeOK, SessionRouting
  <1>4. PlanIsFresh'
    BY DEF TypeOK, PlanIsFresh
  <1>5. StateMirrorsHistory'
    BY DEF StateMirrorsHistory
  <1> QED
    BY <1>1, <1>2, <1>3, <1>4, <1>5

\* What a call about to commit knows: its lock, its object, its fresh plan, and
\* the history that object mirrors.
LEMMA AtCommit ==
    ASSUME IInv, NEW c \in Calls, pc[c] = "commit"
    PROVE  /\ act[c] \in Actions
           /\ act[c].session \in Sessions
           /\ st[c] \in Objects
           /\ st[c] = sessions[act[c].session]
           /\ lock[st[c]] = c
           /\ heap[st[c]] \in SessionState
           /\ ~ Denied(heap[st[c]], act[c])
           /\ ~ Unpriced(act[c])
           /\ plan[c] = PlanFor(heap[st[c]], act[c])
           /\ Mirrors(heap[st[c]], granted[act[c].session], spent[act[c].session])
  <1> USE DEF IInv
  <1>1. act[c] \in Actions /\ st[c] \in Objects /\ st[c] = sessions[act[c].session]
    BY NullAssumption DEF TypeOK, SessionRouting
  <1>2. act[c].session \in Sessions
    BY <1>1, PacketType
  <1>3. lock[st[c]] = c
    BY <1>1 DEF LockDiscipline
  <1>4. ~ Denied(heap[st[c]], act[c]) /\ plan[c] = PlanFor(heap[st[c]], act[c])
    BY DEF PlanIsFresh
  <1>5. Mirrors(heap[st[c]], granted[act[c].session], spent[act[c].session])
    BY <1>1, <1>2, NullAssumption DEF StateMirrorsHistory
  <1> QED
    BY <1>1, <1>2, <1>3, <1>4, <1>5 DEF TypeOK, Denied, BudgetExceeded

\* A commit is on a state no other call can be ruling on.
LEMMA CommitKeeps ==
    ASSUME IInv, NEW c \in Calls, Commit(c)
    PROVE  IInv'
  <1> DEFINE a == act[c]
             s == act[c].session
             o == st[c]
             h == Committed(heap[o], a, plan[c])
             x == [k \in CostKeys |-> spent[s][k] + Charge(a, k)]
  <1> USE NullAssumption DEF IInv
  <1>0. /\ pc[c] = "commit"
        /\ heap' = [heap EXCEPT ![o] = h]
        /\ lock' = [lock EXCEPT ![o] = NoCall]
        /\ granted' = [granted EXCEPT ![s] = Append(granted[s], a)]
        /\ spent' = [spent EXCEPT ![s] = x]
        /\ pc' = [pc EXCEPT ![c] = "idle"]
        /\ act' = [act EXCEPT ![c] = NoAction]
        /\ st' = [st EXCEPT ![c] = NoObject]
        /\ plan' = [plan EXCEPT ![c] = NoPlan]
        /\ UNCHANGED <<stopped, sessions, mutex, created>>
    BY DEF Commit, Return, Goto, monitorVars
  <1>a. /\ a \in Actions /\ s \in Sessions /\ o \in Objects /\ o = sessions[s]
        /\ lock[o] = c
        /\ heap[o] \in SessionState
        /\ ~ Denied(heap[o], a) /\ ~ Unpriced(a)
        /\ plan[c] = PlanFor(heap[o], a)
        /\ Mirrors(heap[o], granted[s], spent[s])
    BY <1>0, AtCommit
  <1>b. h \in SessionState
    BY <1>a, PlanType, CommittedType
  <1>c. x \in [CostKeys -> Nat]
    BY <1>a, ChargeIsNat DEF TypeOK
  <1>d. Append(granted[s], a) \in Seq(Actions)
    BY <1>a DEF TypeOK
  <1> HIDE DEF a, s, o, h, x
  <1>1. TypeOK'
    BY <1>0, <1>a, <1>b, <1>c, <1>d DEF TypeOK
  <1>2. LockDiscipline'
    BY <1>0, <1>a DEF TypeOK, LockDiscipline, o
  <1>3. SessionRouting'
    BY <1>0 DEF TypeOK, SessionRouting
  <1>4. PlanIsFresh'
    <2> SUFFICES ASSUME NEW d \in Calls, pc'[d] = "commit"
                 PROVE  /\ ~ Denied(heap'[st'[d]], act'[d])
                        /\ plan'[d] = PlanFor(heap'[st'[d]], act'[d])
      BY DEF PlanIsFresh
    <2>1. /\ d # c /\ pc[d] = "commit" /\ act'[d] = act[d]
          /\ st'[d] = st[d] /\ plan'[d] = plan[d]
      BY <1>0 DEF TypeOK
    <2>2. lock[st[d]] = d /\ st[d] \in Objects
      BY <2>1, AtCommit
    <2>3. heap'[st[d]] = heap[st[d]]
      BY <1>0, <1>a, <2>1, <2>2 DEF TypeOK
    <2> QED
      BY <2>1, <2>3 DEF PlanIsFresh
  <1>5. StateMirrorsHistory'
    <2> SUFFICES ASSUME NEW t \in Sessions
                 PROVE  IF sessions'[t] = NoObject
                        THEN granted'[t] = <<>> /\ spent'[t] = [k \in CostKeys |-> 0]
                        ELSE Mirrors(heap'[sessions'[t]], granted'[t], spent'[t])
      BY DEF StateMirrorsHistory
    <2>1. CASE t = s
      <3>1. Mirrors(h, Append(granted[s], a), x)
        <4>1. granted[s] \in Seq(Actions) /\ spent[s] \in [CostKeys -> Nat]
          BY <1>a DEF TypeOK
        <4>2. h = Committed(heap[o], a, PlanFor(heap[o], a))
          BY <1>a DEF h, a, o
        <4>3. x = [k \in CostKeys |-> spent[s][k] + Charge(a, k)]
          BY DEF x, s, a
        <4> QED
          BY <1>a, <4>1, <4>2, <4>3, CommitMirrors, Zenon
      <3>2. /\ sessions'[t] = o /\ heap'[o] = h
            /\ granted'[t] = Append(granted[s], a) /\ spent'[t] = x
        BY <1>0, <1>a, <2>1 DEF TypeOK
      <3> QED
        BY <1>a, <3>1, <3>2
    <2>2. CASE t # s
      <3>1. /\ sessions'[t] = sessions[t]
            /\ granted'[t] = granted[t] /\ spent'[t] = spent[t]
        BY <1>0, <2>2 DEF TypeOK
      <3>2. sessions[t] # NoObject => heap'[sessions[t]] = heap[sessions[t]]
        BY <1>0, <1>a, <2>2 DEF TypeOK, SessionRouting
      <3> QED
        BY <3>1, <3>2 DEF StateMirrorsHistory
    <2> QED
      BY <2>1, <2>2
  <1> QED
    BY <1>1, <1>2, <1>3, <1>4, <1>5

-----------------------------------------------------------------------------
(* The theorems.                                                           *)

\* Locks, routing and histories stay consistent in every reachable state.
THEOREM Invariance == Spec => []IInv
  <1>1. IInv /\ [Next]_vars => IInv'
    <2> SUFFICES ASSUME IInv, [Next]_vars
                 PROVE  IInv'
      OBVIOUS
    <2>1. CASE Stop
      BY <2>1, StopKeeps
    <2>2. ASSUME NEW c \in Calls, NEW a \in Actions, Check(c, a)
          PROVE  IInv'
      BY <2>2, CheckKeeps
    <2>3. ASSUME NEW c \in Calls, Step(c)
          PROVE  IInv'
      BY <2>3, DenyStoppedKeeps, PassKillSwitchKeeps, LookUpKeeps, LockMonitorKeeps,
         FindAgainKeeps, CreateSessionKeeps, LockSessionKeeps, DenyKeeps, DecideKeeps,
         CommitKeeps DEF Step
    <2>4. CASE UNCHANGED vars
      BY <2>4 DEF IInv, TypeOK, LockDiscipline, SessionRouting, PlanIsFresh,
         StateMirrorsHistory, vars, monitorVars, stateVars, callVars, history
    <2> QED
      BY <2>1, <2>2, <2>3, <2>4 DEF Next
  <1> QED
    BY InitInvariant, <1>1, PTL DEF Spec

\* Every variable keeps its type.
THEOREM TypeCorrect == Spec => []TypeOK
  <1>1. IInv => TypeOK
    BY DEF IInv
  <1> QED
    BY <1>1, Invariance, PTL

\* No commit is lost and no denial leaves a trace, for any interleaving
\* (runtime.py:29-32, 131-135).
THEOREM StateMirrorsHistoryCorrect == Spec => []StateMirrorsHistory
  <1>1. IInv => StateMirrorsHistory
    BY DEF IInv
  <1> QED
    BY <1>1, Invariance, PTL

\* A decision is never acted on after the state it was made on has moved
\* (runtime.py:253-259).
THEOREM PlanIsFreshCorrect == Spec => []PlanIsFresh
  <1>1. IInv => PlanIsFresh
    BY DEF IInv
  <1> QED
    BY <1>1, Invariance, PTL

\* Double-checked creation never splits a session in two (runtime.py:184-208).
THEOREM OneStatePerSessionCorrect == Spec => []OneStatePerSession
  <1>1. IInv => OneStatePerSession
    <2> SUFFICES ASSUME IInv, NEW c \in Calls, NEW d \in Calls,
                        st[c] # NoObject, st[d] # NoObject
                 PROVE  st[c] = st[d] <=> act[c].session = act[d].session
      BY DEF OneStatePerSession
    <2>1. /\ st[c] = sessions[act[c].session] /\ act[c] \in Actions
          /\ st[d] = sessions[act[d].session] /\ act[d] \in Actions
      BY DEF IInv, SessionRouting, TypeOK
    <2>2. act[c].session \in Sessions /\ act[d].session \in Sessions
      BY <2>1, PacketType
    <2> QED
      BY <2>1, <2>2 DEF IInv, SessionRouting
  <1> QED
    BY <1>1, Invariance, PTL

\* check() implements the ledger: each commit is a permitted grant, every other
\* step leaves the histories alone.
THEOREM Implementation == Spec => Contract
  <1>1. Init => Ledger!Init
    BY DEF Init, Ledger!Init
  <1>2. IInv /\ [Next]_vars => [Ledger!Next]_<<granted, spent>>
    <2> SUFFICES ASSUME IInv, Next
                 PROVE  Ledger!Next \/ UNCHANGED <<granted, spent>>
      BY DEF vars, history
    <2>1. ASSUME NEW c \in Calls, Commit(c)
          PROVE  Ledger!Next
      <3>1. /\ act[c] \in Actions /\ act[c].session \in Sessions
            /\ heap[st[c]] \in SessionState
            /\ ~ Denied(heap[st[c]], act[c])
            /\ Mirrors(heap[st[c]], granted[act[c].session], spent[act[c].session])
        BY <2>1, AtCommit DEF Commit
      <3>2. granted[act[c].session] \in Seq(Actions)
        BY <3>1 DEF IInv, TypeOK
      <3>3. Ledger!Permitted(act[c].session, act[c])
        BY <3>1, <3>2, DecisionIsExact
      <3>4. Ledger!Grant(act[c])
        BY <2>1, <3>3 DEF Commit, Ledger!Grant, Charge, Ledger!Charge
      <3> QED
        BY <3>1, <3>4 DEF Ledger!Next
    <2>2. CASE \E c \in Calls : Commit(c)
      BY <2>1, <2>2
    <2>3. CASE ~ \E c \in Calls : Commit(c)
      BY <2>3 DEF Next, Step, Stop, Check, DenyStopped, PassKillSwitch, LookUp,
         LockMonitor, FindAgain, CreateSession, LockSession, Deny, Decide, history
    <2> QED
      BY <2>2, <2>3
  <1> QED
    BY <1>1, <1>2, Invariance, PTL DEF Spec, Contract, Ledger!Spec

\* No call is refused by a limit its session's history leaves room under.
THEOREM DenialsAreJustifiedCorrect == Spec => DenialsAreJustified
  <1>1. IInv /\ [Next]_vars =>
          [\A c \in Calls : pc[c] = "decide" /\ pc'[c] = "idle" =>
              ~ Ledger!Permitted(act[c].session, act[c])]_vars
    <2> SUFFICES ASSUME IInv, Next, NEW c \in Calls, pc[c] = "decide", pc'[c] = "idle"
                 PROVE  ~ Ledger!Permitted(act[c].session, act[c])
      OBVIOUS
    <2>1. Deny(c)
      BY DEF IInv, TypeOK, Next, Step, Goto, Return, Stop, Check, DenyStopped,
         PassKillSwitch, LookUp, LockMonitor, FindAgain, CreateSession, LockSession,
         Deny, Decide, Commit, callVars
    <2>2. /\ act[c] \in Actions /\ st[c] \in Objects
          /\ st[c] = sessions[act[c].session]
      BY NullAssumption DEF IInv, TypeOK, SessionRouting
    <2>3. act[c].session \in Sessions
      BY <2>2, PacketType
    <2>4. /\ heap[st[c]] \in SessionState
          /\ granted[act[c].session] \in Seq(Actions)
          /\ Mirrors(heap[st[c]], granted[act[c].session], spent[act[c].session])
      BY <2>2, <2>3, NullAssumption DEF IInv, TypeOK, StateMirrorsHistory
    <2>5. Denied(heap[st[c]], act[c])
      BY <2>1 DEF Deny
    <2> QED
      BY <2>2, <2>4, <2>5, DecisionIsExact
  <1> QED
    BY <1>1, Invariance, PTL DEF Spec, DenialsAreJustified

-----------------------------------------------------------------------------
(* What the ledger guarantees, the monitor guarantees.                     *)

Facts == INSTANCE SessionLedgerProofs

\* The two instances of the ledger are one specification.
LEMMA SameLedger ==
    /\ Ledger!Init <=> Facts!Init
    /\ Ledger!Next <=> Facts!Next
  <1>1. ASSUME NEW S
        PROVE  Ledger!Cardinality(S) = Facts!Cardinality(S)
    BY DEF Ledger!Cardinality, Facts!Cardinality
  <1>2. Ledger!Init <=> Facts!Init
    BY DEF Ledger!Init, Facts!Init
  <1>3. ASSUME NEW h
        PROVE  Ledger!RateLeft(h) <=> Facts!RateLeft(h)
    <2> DEFINE W == {i \in DOMAIN h : i > Len(h) + 1 - RateWindow}
    <2>1. Ledger!RateLimited <=> Facts!RateLimited
      BY DEF Ledger!RateLimited, Facts!RateLimited
    <2>2. Ledger!RateLeft(h) <=> (Ledger!RateLimited => Ledger!Cardinality(W) < RateLimit)
      BY Zenon DEF Ledger!RateLeft
    <2>3. Facts!RateLeft(h) <=> (Facts!RateLimited => Facts!Cardinality(W) < RateLimit)
      BY Zenon DEF Facts!RateLeft
    <2> QED
      BY <1>1, <2>1, <2>2, <2>3, Zenon
  <1>4. ASSUME NEW a, NEW s
        PROVE  Ledger!Permitted(s, a) <=> Facts!Permitted(s, a)
    BY <1>3 DEF Ledger!Permitted, Facts!Permitted, Ledger!NeverReplayed,
       Facts!NeverReplayed, Ledger!StepsLeft, Facts!StepsLeft, Ledger!BudgetLeft,
       Facts!BudgetLeft, Ledger!SamePurpose, Facts!SamePurpose, Ledger!Unpriced,
       Facts!Unpriced, Ledger!BudgetedKeys, Facts!BudgetedKeys, Ledger!Charge,
       Facts!Charge, Ledger!Tainted, Facts!Tainted
  <1>5. Ledger!Next <=> Facts!Next
    BY <1>4 DEF Ledger!Next, Facts!Next, Ledger!Grant, Facts!Grant,
       Ledger!Charge, Facts!Charge
  <1> QED
    BY <1>2, <1>5

\* The monitor's constants satisfy what the facts assume of the ledger's.
LEMMA SamePackets == Actions \subseteq Facts!Action
  BY PacketAssumption DEF Action, Facts!Action

\* Every behaviour of the monitor is one of the ledger the facts are about.
LEMMA ImplementsFacts == Spec => Facts!Spec
  <1>1. [Ledger!Next]_<<granted, spent>> => [Facts!Next]_<<granted, spent>>
    BY SameLedger
  <1> QED
    BY <1>1, SameLedger, Implementation, PTL DEF Contract, Ledger!Spec, Facts!Spec

\* No non-empty nonce is ALLOWED twice in a session, however calls race
\* (runtime.py:266-275).
THEOREM NonceGrantedOnceCorrect == Spec => []NonceGrantedOnce
  <1>1. Facts!NonceGrantedOnce => NonceGrantedOnce
    BY DEF NonceGrantedOnce, Ledger!NonceGrantedOnce, Facts!NonceGrantedOnce
  <1> QED
    BY <1>1, ImplementsFacts, Facts!NonceGrantedOnceCorrect, SamePackets, PacketAssumption,
       DistinctAssumption, ConfigAssumption, PTL

\* No session is ALLOWED more than max_steps packets
\* (runtime.py:277-285).
THEOREM StepCeilingCorrect == Spec => []StepCeiling
  <1>1. Facts!StepCeiling => StepCeiling
    BY DEF StepCeiling, Ledger!StepCeiling, Facts!StepCeiling
  <1> QED
    BY <1>1, ImplementsFacts, Facts!StepCeilingCorrect, SamePackets, PacketAssumption,
       DistinctAssumption, ConfigAssumption, PTL

\* The true total charged to a session never passes a ceiling
\* (runtime.py:300-331).
THEOREM BudgetCeilingCorrect == Spec => []BudgetCeiling
  <1>1. Facts!BudgetCeiling => BudgetCeiling
    BY DEF BudgetCeiling, Ledger!BudgetCeiling, Facts!BudgetCeiling,
       Ledger!BudgetedKeys, Facts!BudgetedKeys
  <1> QED
    BY <1>1, ImplementsFacts, Facts!BudgetCeilingCorrect, SamePackets, PacketAssumption,
       DistinctAssumption, ConfigAssumption, PTL

\* A sensitive label is ALLOWED under one purpose per session
\* (runtime.py:333-351).
THEOREM OnePurposePerLabelCorrect == Spec => []OnePurposePerLabel
  <1>1. Facts!OnePurposePerLabel => OnePurposePerLabel
    BY DEF OnePurposePerLabel, Ledger!OnePurposePerLabel, Facts!OnePurposePerLabel,
       Ledger!Tainted, Facts!Tainted
  <1> QED
    BY <1>1, ImplementsFacts, Facts!OnePurposePerLabelCorrect, SamePackets, PacketAssumption,
       DistinctAssumption, ConfigAssumption, PTL

\* With rate_limit < rate_window a session is ALLOWED rate_limit packets in all
\* (runtime.py:287-298).
THEOREM RateIsAStepCapCorrect == Spec => []RateIsAStepCap
  <1>1. Facts!RateIsAStepCap => RateIsAStepCap
    BY DEF RateIsAStepCap, Ledger!RateIsAStepCap, Facts!RateIsAStepCap,
       Ledger!RateLimited, Facts!RateLimited
  <1> QED
    BY <1>1, ImplementsFacts, Facts!RateIsAStepCapCorrect, SamePackets, PacketAssumption,
       DistinctAssumption, ConfigAssumption, PTL
=============================================================================
