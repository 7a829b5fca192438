------------------------------ MODULE MCAudit -------------------------------
(***************************************************************************)
(* Small instances of the audited log, the notary's service and its        *)
(* signing key, side by side: one of them runs, the others rest as they    *)
(* start.                                                                  *)
(***************************************************************************)
EXTENDS AuditChain, NotaryService, SigningKey, TLC

VARIABLE machine   \* the one that runs

recordVars == <<vars, serviceVars, keyVars>>

\* Lines of the log: more where they tell more.
MCMaxLog == ({"auditor"} :> 2) @@ ({"stranger"} :> 1)

MCInit ==
    /\ machine \in {"log", "service", "key"}
    /\ Init /\ (machine # "log" => faults = {"crash", "anchor", "torn"})
    /\ ServiceInit /\ (machine # "service" => visitors = {"auditor"})
    /\ KeyInit

MCNext ==
    /\ \/ machine = "log" /\ Next /\ UNCHANGED <<serviceVars, keyVars>>
       \/ machine = "service" /\ ServiceNext /\ UNCHANGED <<vars, keyVars>>
       \/ machine = "key" /\ KeyNext /\ UNCHANGED <<vars, serviceVars>>
    /\ UNCHANGED machine

MCSpec == MCInit /\ [][MCNext]_<<machine, recordVars>>

\* Connections are alike, and so are lines and processes.
Symmetry ==
    {p @@ q @@ r : p \in Permutations(Conns), q \in Permutations(LineBodies),
                   r \in Permutations(Processes)}
=============================================================================
