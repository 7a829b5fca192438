----------------------------- MODULE MCRuntime -----------------------------
(***************************************************************************)
(* Small instances of RuntimeMonitor for TLC.                              *)
(***************************************************************************)
EXTENDS RuntimeMonitor, TLC

CONSTANTS s1, s2, n1, n2, p1, p2, pii, keys, spend, tokens

Packet(s, n, p, ls, x) ==
    [session |-> s, nonce |-> n, purpose |-> p, labels |-> ls, cost |-> x]

Cost(x, y) == (spend :> x) @@ (tokens :> y)

MCBudgets == [k \in {spend} |-> 3]

\* `keys` is pinned to p2, `pii` is bound to the first purpose it is used under.
MCPins == (pii :> NoPurpose) @@ (keys :> p2)

\* Every rule is reachable: two packets that exhaust the budget together, one
\* nonce in two sessions, a label under two purposes, a pinned label, charges
\* that are negative, non-finite (budgeted or not) and unanswerable.
MCActions ==
    {Packet(s1, n1, p1, {pii}, Cost(2, 0)),
     Packet(s1, n2, p2, {keys}, Cost(2, NonFinite)),
     Packet(s1, n2, p1, {pii}, Cost(0, 0)),
     Packet(s1, NoNonce, p2, {pii}, Cost(-1, 1)),
     Packet(s1, NoNonce, p1, {}, Raises),
     Packet(s2, n1, p2, {pii}, Cost(3, 0)),
     Packet(s2, n2, p1, {keys}, Cost(0, 0)),
     Packet(s2, n2, p2, {}, Cost(NonFinite, 0))}

\* One session whose packets no other limit refuses: only the rate binds.
MCRateActions ==
    {Packet(s1, NoNonce, p1, {}, Cost(0, 0)), Packet(s1, NoNonce, p2, {pii}, Cost(0, 1))}

\* Callers that never give up: each presents another packet whenever it is idle.
Retry(c) == \E a \in Actions : Check(c, a)
BusySpec == FairSpec /\ \A c \in Calls : WF_vars(Retry(c))

Symmetry == Permutations(Calls) \cup Permutations(Objects)
=============================================================================
