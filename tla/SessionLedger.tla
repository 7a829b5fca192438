--------------------------- MODULE SessionLedger ---------------------------
(***************************************************************************)
(* What the runtime layer promises, stated over history alone: per session *)
(* an append-only list of the packets that were ALLOWED, each of which was *)
(* permitted by everything granted before it.  There are no threads, no    *)
(* locks and no counters here; RuntimeMonitor is shown to implement it.    *)
(***************************************************************************)
EXTENDS RuntimePolicy

VARIABLES
    granted,   \* session -> the packets ALLOWED so far, in order
    spent      \* session -> key -> the charges of those packets, added up

(***************************************************************************)
(* The five temporal limits, each as a condition on the session's history. *)
(***************************************************************************)
NeverReplayed(h, a) ==
    a.nonce # NoNonce => \A i \in DOMAIN h : h[i].nonce # a.nonce

StepsLeft(h) == Len(h) < MaxSteps

RateLeft(h) ==
    RateLimited =>
        Cardinality({i \in DOMAIN h : i > Len(h) + 1 - RateWindow}) < RateLimit

BudgetLeft(s, a) ==
    /\ ~ Unpriced(a)
    /\ \A k \in BudgetedKeys : spent[s][k] + Charge(a, k) <= Budgets[k]

SamePurpose(h, a) ==
    \A l \in Tainted(a) :
        IF PurposeForLabel[l] # NoPurpose
        THEN a.purpose = PurposeForLabel[l]
        ELSE \A i \in DOMAIN h : l \in h[i].labels => h[i].purpose = a.purpose

Permitted(s, a) ==
    /\ NeverReplayed(granted[s], a)
    /\ StepsLeft(granted[s])
    /\ RateLeft(granted[s])
    /\ BudgetLeft(s, a)
    /\ SamePurpose(granted[s], a)

Init ==
    /\ granted = [s \in Sessions |-> <<>>]
    /\ spent = [s \in Sessions |-> [k \in CostKeys |-> 0]]

Grant(a) ==
    /\ Permitted(a.session, a)
    /\ granted' = [granted EXCEPT ![a.session] = Append(@, a)]
    /\ spent' = [spent EXCEPT ![a.session] = [k \in CostKeys |-> @[k] + Charge(a, k)]]

Next == \E a \in Actions : Grant(a)

Spec == Init /\ [][Next]_<<granted, spent>>

-----------------------------------------------------------------------------

(***************************************************************************)
(* What follows from the contract for a whole history.                     *)
(***************************************************************************)

\* Replay (runtime.py:17-19): no non-empty nonce is granted twice in a session.
NonceGrantedOnce ==
    \A s \in Sessions : \A i, j \in DOMAIN granted[s] :
        granted[s][i].nonce = granted[s][j].nonce =>
            i = j \/ granted[s][i].nonce = NoNonce

\* Runaway (runtime.py:77-81): a session is granted at most max_steps packets.
StepCeiling == \A s \in Sessions : Len(granted[s]) > 0 => Len(granted[s]) <= MaxSteps

\* Cumulative budget (runtime.py:89-93): what was really charged to a session
\* never exceeds a ceiling, whatever the interleaving of its calls.
BudgetCeiling ==
    \A s \in Sessions : granted[s] # <<>> =>
        \A k \in BudgetedKeys : spent[s][k] <= Budgets[k]

\* Laundering (runtime.py:95-105): all the grants of a session that carry one
\* sensitive label share one purpose, the pinned one when there is a pin.
OnePurposePerLabel ==
    \A s \in Sessions : \A i, j \in DOMAIN granted[s] :
        \A l \in Tainted(granted[s][i]) \cap granted[s][j].labels :
            /\ granted[s][i].purpose = granted[s][j].purpose
            /\ PurposeForLabel[l] \in {NoPurpose, granted[s][i].purpose}

\* What the rate limit amounts to: ordinals advance only on a grant, so a limit
\* smaller than the window caps the whole session, not a window of it.
RateIsAStepCap ==
    RateLimited /\ RateLimit < RateWindow =>
        \A s \in Sessions : Len(granted[s]) <= RateLimit
=============================================================================
