------------------------------- MODULE Witness ------------------------------
(***************************************************************************)
(* What a notary of audit heads promises (notary.py:11-20, 101-107): a     *)
(* book that only grows, one chain's heads in strictly increasing order.   *)
(* How NotaryLedger keeps the promise through locks, fsyncs and restarts   *)
(* is not said here.                                                       *)
(***************************************************************************)
EXTENDS Integers

CONSTANTS Chains, Seqs, Hashes

Heads == [chain : Chains, seq : Seqs, hash : Hashes]

VARIABLE book     \* the heads the witness holds

Init == book = {}

\* A head is taken when it is ahead of every head held of its chain.
Accept(r) ==
    /\ \A q \in book : q.chain = r.chain => q.seq < r.seq
    /\ book' = book \cup {r}

Next == \E r \in Heads : Accept(r)

Spec == Init /\ [][Next]_book

\* A witness never holds two different hashes at one (chain, seq)
\* (notary.py:137-139).
NeverTwoHashes ==
    \A q, r \in book : q.chain = r.chain /\ q.seq = r.seq => q.hash = r.hash
=============================================================================
