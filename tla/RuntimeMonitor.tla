--------------------------- MODULE RuntimeMonitor ---------------------------
(***************************************************************************)
(* RuntimeLayer.check over a shared RuntimeMonitor, run by concurrent      *)
(* callers (runtime.py).  A call reads the kill-switch without a lock,     *)
(* finds or creates its session's state object under double-checked        *)
(* locking, and decides and commits under that object's own lock.          *)
(*                                                                         *)
(* granted and spent are history variables: the packets each session was   *)
(* ALLOWED and their true total cost.  No guard reads them.                *)
(***************************************************************************)
EXTENDS RuntimePolicy

CONSTANTS
    Calls,      \* caller threads, each with at most one check in flight
    Objects,    \* identities for _SessionState objects
    NoCall, NoObject, NoAction, NoPlan

ASSUME NullAssumption ==
    /\ NoCall \notin Calls
    /\ NoObject \notin Objects
    /\ NoAction \notin Actions

VARIABLES
    stopped,    \* RuntimeMonitor._stopped
    sessions,   \* RuntimeMonitor._sessions: session -> object
    mutex,      \* RuntimeMonitor._lock: its holder
    created,    \* the objects constructed so far
    heap,       \* object -> contents of the _SessionState
    lock,       \* object -> holder of _SessionState.lock
    pc, act,    \* call -> where it is, and the packet it rules on
    st,         \* call -> the state object it looked up
    plan,       \* call -> what it computed and has not yet written back
    granted, spent

monitorVars == <<stopped, sessions, mutex, created>>
stateVars == <<heap, lock>>
callVars == <<pc, act, st, plan>>
history == <<granted, spent>>
vars == <<monitorVars, stateVars, callVars, history>>

-----------------------------------------------------------------------------
(* The contents of a _SessionState and the rules read off it.  The deque   *)
(* recent_steps only ever holds distinct, increasing ordinals: a set.      *)

SessionState ==
    [steps : Nat, recent : SUBSET Nat, costs : [CostKeys -> Nat],
     nonces : SUBSET Nonces, bound : [Labels -> Purposes \cup {NoPurpose}]]

Plan ==
    [step : Nat, costs : [CostKeys -> Nat],
     bindings : [Labels -> Purposes \cup {NoPurpose}]]

FreshState ==
    [steps |-> 0, recent |-> {}, costs |-> [k \in CostKeys |-> 0],
     nonces |-> {}, bound |-> [l \in Labels |-> NoPurpose]]

Replayed(h, a) == a.nonce # NoNonce /\ a.nonce \in h.nonces

\* slip: the ceiling is tested before this step is counted
StepsAlreadyExceeded(h) == h.steps > MaxSteps
\* slip: the last step of the budget is refused
LastStepRefused(h) == h.steps + 1 >= MaxSteps
StepsExceeded(h) == h.steps + 1 > MaxSteps

\* slip: the window is one ordinal short
ShortWindow(h) == {n \in h.recent : n > h.steps + 1 - RateWindow + 1}
InWindow(h) == {n \in h.recent : n >= h.steps + 1 - RateWindow + 1}

RateExceeded(h) == RateLimited /\ Cardinality(InWindow(h)) + 1 > RateLimit

NewCosts(h, a) == [k \in CostKeys |-> h.costs[k] + Charge(a, k)]

\* slip: the total so far is compared, without this packet's cost
BudgetAlreadyExceeded(h, a) ==
    ~ Unpriced(a) => \E k \in BudgetedKeys : h.costs[k] > Budgets[k]

BudgetExceeded(h, a) ==
    ~ Unpriced(a) => \E k \in BudgetedKeys : NewCosts(h, a)[k] > Budgets[k]

BoundPurpose(h, l) ==
    IF PurposeForLabel[l] # NoPurpose THEN PurposeForLabel[l] ELSE h.bound[l]

\* slip: the purpose a label was first used under is not consulted
LaunderedPinsOnly(h, a) ==
    \E l \in Tainted(a) : PurposeForLabel[l] \notin {NoPurpose, a.purpose}

Laundered(h, a) ==
    \E l \in Tainted(a) : BoundPurpose(h, l) \notin {NoPurpose, a.purpose}

NewBindings(h, a) ==
    [l \in Labels |-> IF l \in Tainted(a) /\ BoundPurpose(h, l) = NoPurpose
                      THEN a.purpose ELSE NoPurpose]

Denied(h, a) ==
    \/ Replayed(h, a)
    \/ StepsExceeded(h)
    \/ RateExceeded(h)
    \/ BudgetExceeded(h, a)
    \/ Laundered(h, a)

PlanFor(h, a) ==
    [step |-> h.steps + 1, costs |-> NewCosts(h, a), bindings |-> NewBindings(h, a)]

\* slip: the nonce of a granted packet is not remembered
CommittedWithoutNonce(h, a, p) ==
    [h EXCEPT !.steps = p.step, !.costs = p.costs,
              !.recent = {n \in @ \cup {p.step} :
                             RateWindow > 0 => n >= p.step - RateWindow + 1},
              !.bound = [l \in Labels |-> IF p.bindings[l] # NoPurpose
                                          THEN p.bindings[l] ELSE @[l]]]
\* slip: one ordinal too many falls out of the window
CommittedTrimmingEarly(h, a, p) ==
    [steps  |-> p.step,
     recent |-> {n \in h.recent \cup {p.step} :
                    RateWindow > 0 => n > p.step - RateWindow + 1},
     costs  |-> p.costs,
     nonces |-> h.nonces \cup ({a.nonce} \ {NoNonce}),
     bound  |-> [l \in Labels |-> IF p.bindings[l] # NoPurpose
                                  THEN p.bindings[l] ELSE h.bound[l]]]

(* steps and costs are overwritten with what was computed before; the      *)
(* nonce, the ordinal and the bindings are added to what is there now.     *)
Committed(h, a, p) ==
    [steps  |-> p.step,
     recent |-> {n \in h.recent \cup {p.step} :
                    RateWindow > 0 => n >= p.step - RateWindow + 1},
     costs  |-> p.costs,
     nonces |-> h.nonces \cup ({a.nonce} \ {NoNonce}),
     bound  |-> [l \in Labels |-> IF p.bindings[l] # NoPurpose
                                  THEN p.bindings[l] ELSE h.bound[l]]]

-----------------------------------------------------------------------------

Init ==
    /\ stopped = FALSE
    /\ sessions = [s \in Sessions |-> NoObject]
    /\ mutex = NoCall
    /\ created = {}
    /\ heap = [o \in Objects |-> FreshState]
    /\ lock = [o \in Objects |-> NoCall]
    /\ pc = [c \in Calls |-> "idle"]
    /\ act = [c \in Calls |-> NoAction]
    /\ st = [c \in Calls |-> NoObject]
    /\ plan = [c \in Calls |-> NoPlan]
    /\ granted = [s \in Sessions |-> <<>>]
    /\ spent = [s \in Sessions |-> [k \in CostKeys |-> 0]]

Goto(c, l) == pc' = [pc EXCEPT ![c] = l]

\* The call answers, with either verdict, and drops its locals.
Return(c) ==
    /\ Goto(c, "idle")
    /\ act' = [act EXCEPT ![c] = NoAction]
    /\ st' = [st EXCEPT ![c] = NoObject]
    /\ plan' = [plan EXCEPT ![c] = NoPlan]

Stop ==
    /\ stopped' = TRUE
    /\ UNCHANGED <<sessions, mutex, created, stateVars, callVars, history>>

Check(c, a) ==
    /\ pc[c] = "idle"
    /\ Goto(c, "entered")
    /\ act' = [act EXCEPT ![c] = a]
    /\ UNCHANGED <<monitorVars, stateVars, st, plan, history>>

DenyStopped(c) ==
    /\ pc[c] = "entered"
    /\ stopped
    /\ Return(c)
    /\ UNCHANGED <<monitorVars, stateVars, history>>

\* slip: the flag is not consulted
IgnoreKillSwitch(c) ==
    /\ pc[c] = "entered"
    /\ Goto(c, "lookup")
    /\ UNCHANGED <<monitorVars, stateVars, act, st, plan, history>>

PassKillSwitch(c) ==
    /\ pc[c] = "entered"
    /\ ~ stopped
    /\ Goto(c, "lookup")
    /\ UNCHANGED <<monitorVars, stateVars, act, st, plan, history>>

\* The lock-free first look of RuntimeMonitor.state.
LookUp(c) ==
    /\ pc[c] = "lookup"
    /\ LET o == sessions[act[c].session] IN
         /\ st' = [st EXCEPT ![c] = o]
         /\ Goto(c, IF o = NoObject THEN "want_monitor" ELSE "want_session")
    /\ UNCHANGED <<monitorVars, stateVars, act, plan, history>>

LockMonitor(c) ==
    /\ pc[c] = "want_monitor"
    /\ mutex = NoCall
    /\ mutex' = c
    /\ Goto(c, "recheck")
    /\ UNCHANGED <<stopped, sessions, created, stateVars, act, st, plan, history>>

\* The second look, under the monitor's lock: another call was first.
FindAgain(c) ==
    /\ pc[c] = "recheck"
    /\ sessions[act[c].session] # NoObject
    /\ st' = [st EXCEPT ![c] = sessions[act[c].session]]
    /\ mutex' = NoCall
    /\ Goto(c, "want_session")
    /\ UNCHANGED <<stopped, sessions, created, stateVars, act, plan, history>>

\* slip: no second look once the monitor's lock is held
CreateUnseen(c) ==
    /\ pc[c] = "recheck"
    /\ \E o \in Objects \ created :
         /\ created' = created \cup {o}
         /\ heap' = [heap EXCEPT ![o] = FreshState]
         /\ sessions' = [sessions EXCEPT ![act[c].session] = o]
         /\ st' = [st EXCEPT ![c] = o]
    /\ mutex' = NoCall
    /\ Goto(c, "want_session")
    /\ UNCHANGED <<stopped, lock, act, plan, history>>

CreateSession(c) ==
    /\ pc[c] = "recheck"
    /\ sessions[act[c].session] = NoObject
    /\ \E o \in Objects \ created :
         /\ created' = created \cup {o}
         /\ heap' = [heap EXCEPT ![o] = FreshState]
         /\ sessions' = [sessions EXCEPT ![act[c].session] = o]
         /\ st' = [st EXCEPT ![c] = o]
    /\ mutex' = NoCall
    /\ Goto(c, "want_session")
    /\ UNCHANGED <<stopped, lock, act, plan, history>>

\* slip: the session's lock is not taken
EnterUnlocked(c) ==
    /\ pc[c] = "want_session"
    /\ lock' = [lock EXCEPT ![st[c]] = c]
    /\ Goto(c, "decide")
    /\ UNCHANGED <<monitorVars, heap, act, st, plan, history>>

LockSession(c) ==
    /\ pc[c] = "want_session"
    /\ lock[st[c]] = NoCall
    /\ lock' = [lock EXCEPT ![st[c]] = c]
    /\ Goto(c, "decide")
    /\ UNCHANGED <<monitorVars, heap, act, st, plan, history>>

\* slip: a refusal leaves without the lock being released
DenyHoldingLock(c) ==
    /\ pc[c] = "decide"
    /\ Denied(heap[st[c]], act[c])
    /\ Return(c)
    /\ UNCHANGED <<monitorVars, stateVars, history>>

\* A limit refuses the packet, or the cost_fn raises and check() fails closed.
Deny(c) ==
    /\ pc[c] = "decide"
    /\ Denied(heap[st[c]], act[c])
    /\ lock' = [lock EXCEPT ![st[c]] = NoCall]
    /\ Return(c)
    /\ UNCHANGED <<monitorVars, heap, history>>

Decide(c) ==
    /\ pc[c] = "decide"
    /\ ~ Denied(heap[st[c]], act[c])
    /\ plan' = [plan EXCEPT ![c] = PlanFor(heap[st[c]], act[c])]
    /\ Goto(c, "commit")
    /\ UNCHANGED <<monitorVars, stateVars, act, st, history>>

Commit(c) ==
    /\ pc[c] = "commit"
    /\ heap' = [heap EXCEPT ![st[c]] = Committed(@, act[c], plan[c])]
    /\ lock' = [lock EXCEPT ![st[c]] = NoCall]
    /\ granted' = [granted EXCEPT ![act[c].session] = Append(@, act[c])]
    /\ spent' = [spent EXCEPT ![act[c].session] =
                    [k \in CostKeys |-> @[k] + Charge(act[c], k)]]
    /\ Return(c)
    /\ UNCHANGED monitorVars

\* What a call still owes once it has begun.
Step(c) ==
    \/ DenyStopped(c)
    \/ PassKillSwitch(c)
    \/ LookUp(c)
    \/ LockMonitor(c)
    \/ FindAgain(c)
    \/ CreateSession(c)
    \/ LockSession(c)
    \/ Deny(c)
    \/ Decide(c)
    \/ Commit(c)

Next ==
    \/ Stop
    \/ \E c \in Calls :
         \/ \E a \in Actions : Check(c, a)
         \/ Step(c)

Spec == Init /\ [][Next]_vars

\* The scheduler runs every thread that can run; a lock makes no promise about
\* who gets it next, and nobody owes the monitor another call.
FairSpec == Spec /\ \A c \in Calls : WF_vars(Step(c))

-----------------------------------------------------------------------------

TypeOK ==
    /\ stopped \in BOOLEAN
    /\ sessions \in [Sessions -> Objects \cup {NoObject}]
    /\ mutex \in Calls \cup {NoCall}
    /\ created \in SUBSET Objects
    /\ heap \in [Objects -> SessionState]
    /\ lock \in [Objects -> Calls \cup {NoCall}]
    /\ pc \in [Calls -> {"idle", "entered", "lookup", "want_monitor", "recheck",
                         "want_session", "decide", "commit"}]
    /\ act \in [Calls -> Actions \cup {NoAction}]
    /\ st \in [Calls -> Objects \cup {NoObject}]
    /\ plan \in [Calls -> Plan \cup {NoPlan}]
    /\ granted \in [Sessions -> Seq(Actions)]
    /\ spent \in [Sessions -> [CostKeys -> Nat]]

Ledger == INSTANCE SessionLedger

\* The state object of a session mirrors its history: nothing a grant consumed
\* is lost to a concurrent commit, and nothing a denial touched is kept
\* ("commit-on-allow only", runtime.py:29-32 and 131-135).
Mirrors(h, g, x) ==
    /\ h.steps = Len(g)
    /\ h.recent = {i \in 1..Len(g) : RateWindow > 0 => i > Len(g) - RateWindow}
    /\ h.costs = x
    /\ h.nonces = {g[i].nonce : i \in DOMAIN g} \ {NoNonce}
    /\ \A l \in SensitiveLabels \cap Labels : PurposeForLabel[l] = NoPurpose =>
         /\ \A i \in DOMAIN g : l \in g[i].labels => g[i].purpose = h.bound[l]
         /\ h.bound[l] # NoPurpose => \E i \in DOMAIN g : l \in g[i].labels

StateMirrorsHistory ==
    \A s \in Sessions :
        IF sessions[s] = NoObject
        THEN granted[s] = <<>> /\ spent[s] = [k \in CostKeys |-> 0]
        ELSE Mirrors(heap[sessions[s]], granted[s], spent[s])

\* The monitor's lock and the sessions' locks exclude, and are held exactly in
\* the sections they guard.
LockDiscipline ==
    /\ \A c \in Calls : mutex = c <=> pc[c] = "recheck"
    /\ \A c \in Calls, o \in Objects :
         lock[o] = c <=> st[c] = o /\ pc[c] \in {"decide", "commit"}

\* A call that holds or wants a state object has the one its session maps to;
\* no two sessions map to one object.
SessionRouting ==
    /\ \A c \in Calls : act[c] = NoAction <=> pc[c] = "idle"
    /\ \A c \in Calls :
         IF pc[c] \in {"want_session", "decide", "commit"}
         THEN st[c] # NoObject /\ st[c] = sessions[act[c].session]
         ELSE st[c] = NoObject
    /\ \A s \in Sessions : sessions[s] \in created \cup {NoObject}
    /\ \A s, t \in Sessions :
         sessions[s] = sessions[t] => s = t \/ sessions[s] = NoObject

\* What a call decided is still true when it commits: the state it read has not
\* moved between the check and the write (runtime.py:131-135, 253-259).
PlanIsFresh ==
    \A c \in Calls : pc[c] = "commit" =>
        /\ ~ Denied(heap[st[c]], act[c])
        /\ plan[c] = PlanFor(heap[st[c]], act[c])

\* The inductive invariant behind the refinement.
IInv == TypeOK /\ LockDiscipline /\ SessionRouting /\ PlanIsFresh /\ StateMirrorsHistory

\* Two calls rule on one state object exactly when they name one session: a
\* racing first touch never splits a session in two (runtime.py:187-191), and
\* no call ever waits on another session's lock (runtime.py:136).
OneStatePerSession ==
    \A c, d \in Calls : st[c] # NoObject /\ st[d] # NoObject =>
        (st[c] = st[d] <=> act[c].session = act[d].session)

\* The limits of RuntimeConfig, of what was really granted.  Replay: two racing
\* calls never spend one nonce of a session (runtime.py:17-19, 266-275).
NonceGrantedOnce == Ledger!NonceGrantedOnce

\* Runaway: a session's grants stop at max_steps (runtime.py:77-81, 277-285).
StepCeiling == Ledger!StepCeiling

\* Budget: the true sum of charges, not the counter that two commits may
\* overwrite, stays under the ceiling (runtime.py:89-93, 300-331).
BudgetCeiling == Ledger!BudgetCeiling

\* Laundering: a sensitive label has one purpose per session (runtime.py:333-351).
OnePurposePerLabel == Ledger!OnePurposePerLabel

\* Rate: ordinals count grants, so a limit below its window caps the session for
\* good (runtime.py:287-298, 353-357).
RateIsAStepCap == Ledger!RateIsAStepCap

\* check() implements the ledger of grants: every ALLOW, at the instant it
\* commits, was permitted by the whole history of its session.
Contract == Ledger!Spec

\* The converse: a packet that reached the limits is refused only when its
\* session's history really rules it out, however many calls race with it.
DenialsAreJustified ==
    [][\A c \in Calls : pc[c] = "decide" /\ pc'[c] = "idle" =>
            ~ Ledger!Permitted(act[c].session, act[c])]_vars

\* The kill-switch, as the code keeps it (runtime.py:247-249): calls that were
\* past the check when stop() ran finish, and then no call is past it again.
StopDrains == stopped ~> [](\A c \in Calls : pc[c] \in {"idle", "entered"})

\* Every critical section is left, on the paths that deny or raise as well.
CriticalSectionsEnd ==
    /\ mutex # NoCall ~> mutex = NoCall
    /\ \A o \in Objects : lock[o] # NoCall ~> lock[o] = NoCall

\* What runtime.py:172 says of stop(): "Once stopped, no path through `check`
\* can ALLOW."
NoGrantOnceStopped == [][stopped => granted' = granted]_vars

\* What tests/test_runtime.py:62-63 says of the rate window: "the window slides
\* and capacity is recovered as old ordinals fall out the left".
RateRefuses(s) == sessions[s] # NoObject /\ RateExceeded(heap[sessions[s]])
RateCapacityRecovers == \A s \in Sessions : RateRefuses(s) ~> ~ RateRefuses(s)
=============================================================================
