--------------------------- MODULE RuntimePolicy ---------------------------
(***************************************************************************)
(* The limits of RuntimeConfig and the vocabulary of packets they rule on. *)
(* Shared by the abstract ledger of grants (SessionLedger) and by the      *)
(* threaded monitor that implements it (RuntimeMonitor).                   *)
(***************************************************************************)
EXTENDS Integers, Sequences, FiniteSets

CONSTANTS
    Sessions,          \* normalised session ids
    Nonces, NoNonce,   \* NoNonce is the empty nonce "", which opts out of replay
    Purposes, NoPurpose,
    Labels,            \* data labels
    CostKeys,          \* keys a cost_fn may charge
    NonFinite,         \* a NaN or infinite charge
    Raises,            \* the cost_fn raises, or answers something float() refuses
    Actions,           \* the packets callers present
    MaxSteps, RateLimit, RateWindow,
    Budgets,           \* budgeted key -> ceiling
    SensitiveLabels,
    PurposeForLabel    \* label -> pinned purpose, or NoPurpose

(***************************************************************************)
(* A packet, reduced to what the runtime layer reads of it. `cost` is what *)
(* cost_fn answers for the packet; a key the answer leaves out is a zero.  *)
(***************************************************************************)
Action ==
    [session : Sessions,
     nonce   : Nonces \cup {NoNonce},
     purpose : Purposes,
     labels  : SUBSET Labels,
     cost    : [CostKeys -> Int \cup {NonFinite}] \cup {Raises}]

ASSUME PacketAssumption == Actions \subseteq Action

ASSUME DistinctAssumption ==
    /\ NoNonce \notin Nonces
    /\ NoPurpose \notin Purposes
    /\ NonFinite \notin Int
    /\ Raises \notin [CostKeys -> Int \cup {NonFinite}]

ASSUME ConfigAssumption ==
    /\ MaxSteps \in Int
    /\ RateLimit \in Int
    /\ RateWindow \in Int
    /\ DOMAIN Budgets \subseteq CostKeys
    /\ \A k \in DOMAIN Budgets : Budgets[k] \in Int
    /\ PurposeForLabel \in [Labels -> Purposes \cup {NoPurpose}]

BudgetedKeys == DOMAIN Budgets

Tainted(a) == a.labels \cap SensitiveLabels

Unpriced(a) == a.cost = Raises \/ \E k \in BudgetedKeys : a.cost[k] = NonFinite

\* slip: a negative charge banks headroom
BanksNegativeCharge(a, k) ==
    IF a.cost[k] = NonFinite THEN 0 ELSE a.cost[k]

(***************************************************************************)
(* What one key of a packet's cost adds to a running total: a non-finite   *)
(* charge on an unbudgeted key and a negative charge both count as zero.   *)
(***************************************************************************)
Charge(a, k) ==
    IF a.cost[k] = NonFinite \/ a.cost[k] < 0 THEN 0 ELSE a.cost[k]

(***************************************************************************)
(* The rate limit is switched off by a window or a limit out of range.     *)
(***************************************************************************)
RateLimited == RateWindow > 0 /\ RateLimit >= 0
=============================================================================
