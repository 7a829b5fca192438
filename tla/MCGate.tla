------------------------------- MODULE MCGate -------------------------------
(***************************************************************************)
(* A small instance of ControlledGate for TLC.                             *)
(***************************************************************************)
EXTENDS ControlledGate, TLC

CONSTANTS s1, n1, n2, p1, p2, pii, keys, spend, admin, mail, pay

Packet(n, p, ls, x) ==
    [session |-> s1, nonce |-> n, purpose |-> p, labels |-> ls, cost |-> (spend :> x)]

MCBudgets == spend :> 3
MCPins == (pii :> NoPurpose) @@ (keys :> NoPurpose)

\* Under p1 `pii` is redacted, the amount with it; `keys` may not flow into p2.
Invoice  == Packet(n1, p1, {pii}, 2)
Minimal  == Packet(n1, p1, {pii}, 0)
Payment  == Packet(NoNonce, p1, {}, 2)
Launder  == Packet(NoNonce, p2, {pii}, -1)
Misuse   == Packet(n2, p2, {keys}, 1)

MCActions == {Invoice, Minimal, Payment, Launder, Misuse}
MCRedacted == [a \in MCActions |-> IF a = Invoice THEN Minimal ELSE a]
MCBindings == (pii :> {p1, p2}) @@ (keys :> {p1})
MCCapabilityOf == [a \in MCActions |-> IF a = Payment THEN pay ELSE mail]

\* No executor is registered for the tool of Launder.
MCRegistered == MCActions \ {Launder}

Symmetry == Permutations(Calls)
=============================================================================
