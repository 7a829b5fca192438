--------------------------- MODULE ControlledGate ---------------------------
(***************************************************************************)
(* ControlledGate (controlled_gate.py): dispatch() takes a packet through  *)
(* the capability registry, the purpose policy and the runtime layer, logs *)
(* each ruling, and runs the tool when all three permit.  Calls run at the *)
(* same time and grants change under them.                                 *)
(*                                                                         *)
(* The runtime layer is the ledger RuntimeMonitor implements; record() is  *)
(* one step that may raise, before or after its line is in the log         *)
(* (AuditChain has its steps).  A packet stands for its payload too, so    *)
(* redaction answers another packet.                                       *)
(***************************************************************************)
EXTENDS RuntimePolicy

CONSTANTS
    Calls,           \* dispatch() calls, each made once
    NoAction,        \* of a call that presented, or ran, nothing
    Capabilities, Wildcard,
    CapabilityOf,    \* packet -> the capability it requests
    Bindings,        \* the purposes each known label may flow into
    DefaultDeny,     \* the policy's "default" is "deny"
    Redacted,        \* packet -> what the redaction rules leave of it
    Registered,      \* the packets whose tool has an executor
    Faults           \* what may raise: a subset of FaultKinds

FaultKinds == {"policy", "audit", "tool"}

ASSUME FaultAssumption == Faults \subseteq FaultKinds
ASSUME CallAssumption == NoAction \notin Actions

\* Of a redacted packet nothing is assumed but that it is one: dataclasses.replace()
\* normalises its tokens once more, which may rename even its session (Tokens).
ASSUME GateAssumption ==
    /\ Wildcard \in Capabilities
    /\ CapabilityOf \in [Actions -> Capabilities]
    /\ DOMAIN Bindings \subseteq Labels
    /\ Redacted \in [Actions -> Actions]

VARIABLES
    grants,          \* capability registry: what the acting agent holds
    granted, spent,  \* runtime: see SessionLedger
    stopped,         \* runtime: the kill-switch
    log,             \* audit: the lines [call, layer, verdict, packet]
    pc, presented, effective, verdict,   \* per call
    outcome,         \* per call, history: what dispatch() answered
    ran, charged,    \* history: the packets tools ran, as a ledger of their own
    held             \* history: calls during which the agent held the capability

ledger == <<granted, spent>>
calls == <<pc, presented, effective, verdict, outcome>>
effects == <<ran, charged>>
vars == <<grants, ledger, stopped, log, calls, effects, held>>

Runtime == INSTANCE SessionLedger

-----------------------------------------------------------------------------

Init ==
    /\ grants \in SUBSET Capabilities
    /\ Runtime!Init
    /\ stopped = FALSE
    /\ log = {}
    /\ pc = [c \in Calls |-> "new"]
    /\ presented = [c \in Calls |-> NoAction]
    /\ effective = [c \in Calls |-> NoAction]
    /\ verdict = [c \in Calls |-> "deny"]
    /\ outcome = [c \in Calls |-> "none"]
    /\ ran = granted /\ charged = spent
    /\ held = {}

Holds(g, a) == Wildcard \in g \/ CapabilityOf[a] \in g

Goto(c, l) == pc' = [pc EXCEPT ![c] = l]

Answer(c, o) ==
    /\ Goto(c, "done")
    /\ outcome' = [outcome EXCEPT ![c] = o]

\* A layer has ruled: its ruling is recorded next.
Rule(c, v, l) ==
    /\ verdict' = [verdict EXCEPT ![c] = v]
    /\ Goto(c, l)
    /\ UNCHANGED outcome

Dispatch(c, a) ==
    /\ pc[c] = "new"
    /\ presented' = [presented EXCEPT ![c] = a]
    /\ effective' = [effective EXCEPT ![c] = a]
    /\ held' = IF Holds(grants, a) THEN held \cup {c} ELSE held
    /\ Goto(c, "grants")
    /\ UNCHANGED <<grants, ledger, stopped, log, verdict, outcome, effects>>

\* Anything that is not an Action is refused before any layer or the log.
RefuseNonAction(c) ==
    /\ pc[c] = "new"
    /\ Answer(c, "deny")
    /\ UNCHANGED <<grants, ledger, stopped, log, presented, effective, verdict, effects, held>>

\* allows() looks for any grant, the wildcard and the capability one after the
\* other.
CheckHeld(c) ==
    /\ pc[c] = "grants"
    /\ IF grants = {}
       THEN Rule(c, "deny", "record capability")
       ELSE Goto(c, "wildcard") /\ UNCHANGED <<verdict, outcome>>
    /\ UNCHANGED <<grants, ledger, stopped, log, presented, effective, effects, held>>

CheckWildcard(c) ==
    /\ pc[c] = "wildcard"
    /\ IF Wildcard \in grants
       THEN Rule(c, "allow", "record capability")
       ELSE Goto(c, "capability") /\ UNCHANGED <<verdict, outcome>>
    /\ UNCHANGED <<grants, ledger, stopped, log, presented, effective, effects, held>>

\* slip: any capability will do
CheckAnyCapability(c) ==
    /\ pc[c] = "capability"
    /\ Rule(c, IF grants # {} THEN "allow" ELSE "deny", "record capability")
    /\ UNCHANGED <<grants, ledger, stopped, log, presented, effective, effects, held>>

CheckCapability(c) ==
    /\ pc[c] = "capability"
    /\ Rule(c, IF CapabilityOf[presented[c]] \in grants THEN "allow" ELSE "deny", "record capability")
    /\ UNCHANGED <<grants, ledger, stopped, log, presented, effective, effects, held>>

Mismatched(a) ==
    \E l \in a.labels : IF l \in DOMAIN Bindings THEN a.purpose \notin Bindings[l] ELSE DefaultDeny

Evaluate(c) ==
    LET a == presented[c] IN
    /\ pc[c] = "policy"
    /\ IF Mismatched(a)
       THEN Rule(c, "deny", "record policy") /\ UNCHANGED effective
       ELSE /\ Rule(c, IF Redacted[a] = a THEN "allow" ELSE "transform", "record policy")
            /\ effective' = [effective EXCEPT ![c] = Redacted[a]]
    /\ UNCHANGED <<grants, ledger, stopped, log, presented, effects, held>>

\* Redaction of a payload nobody foresaw raises: enforce() denies.
EvaluateRaises(c) ==
    /\ "policy" \in Faults
    /\ pc[c] = "policy"
    /\ ~ Mismatched(presented[c])
    /\ Answer(c, "deny")
    /\ UNCHANGED <<grants, ledger, stopped, log, presented, effective, verdict, effects, held>>

\* The runtime layer reads the kill-switch before it takes the session's lock.
CheckStopped(c) ==
    /\ pc[c] = "stop flag"
    /\ IF stopped
       THEN Rule(c, "deny", "record runtime")
       ELSE Goto(c, "runtime") /\ UNCHANGED <<verdict, outcome>>
    /\ UNCHANGED <<grants, ledger, stopped, log, presented, effective, effects, held>>

CheckRuntime(c) ==
    LET a == effective[c] IN
    /\ pc[c] = "runtime"
    /\ IF Runtime!Permitted(a.session, a)
       THEN Runtime!Grant(a) /\ Rule(c, "allow", "record runtime")
       ELSE UNCHANGED ledger /\ Rule(c, "deny", "record runtime")
    /\ UNCHANGED <<grants, stopped, log, presented, effective, effects, held>>

(***************************************************************************)
(* After a layer's record: on to the next layer, or out with its denial.   *)
(***************************************************************************)
Recording ==
    [l \in {"record capability", "record policy", "record runtime"} |->
        CASE l = "record capability" -> "capability"
          [] l = "record policy"     -> "policy"
          [] l = "record runtime"    -> "runtime"]

\* slip: the runtime is asked first, the policy after it
RuntimeBeforePolicy ==
    [l \in DOMAIN Recording |->
        CASE l = "record capability" -> "stop flag"
          [] l = "record policy"     -> "execute"
          [] l = "record runtime"    -> "policy"]

AfterRecord ==
    [l \in DOMAIN Recording |->
        CASE l = "record capability" -> "policy"
          [] l = "record policy"     -> "stop flag"
          [] l = "record runtime"    -> "execute"]

Line(c) ==
    [call    |-> c,
     layer   |-> Recording[pc[c]],
     verdict |-> verdict[c],
     packet  |-> IF pc[c] = "record runtime" THEN effective[c] ELSE presented[c]]

Record(c) ==
    /\ pc[c] \in DOMAIN Recording
    /\ log' = log \cup {Line(c)}
    /\ IF verdict[c] = "deny" THEN Answer(c, "deny")
                              ELSE Goto(c, AfterRecord[pc[c]]) /\ UNCHANGED outcome
    /\ UNCHANGED <<grants, ledger, stopped, presented, effective, verdict, effects, held>>

\* slip: a failed record is forgiven
RecordForgiven(c) ==
    /\ "audit" \in Faults
    /\ pc[c] \in DOMAIN Recording
    /\ IF verdict[c] = "deny" THEN Answer(c, "deny")
                              ELSE Goto(c, AfterRecord[pc[c]]) /\ UNCHANGED outcome
    /\ UNCHANGED <<grants, ledger, stopped, log, presented, effective, verdict, effects, held>>

\* record() raises, its line written or not: enforce() denies.
RecordRaises(c) ==
    /\ "audit" \in Faults
    /\ pc[c] \in DOMAIN Recording
    /\ log' \in {log, log \cup {Line(c)}}
    /\ Answer(c, "deny")
    /\ UNCHANGED <<grants, ledger, stopped, presented, effective, verdict, effects, held>>

\* What the tool did is counted as the runtime counts what it granted.
Ran(a) ==
    /\ ran' = [ran EXCEPT ![a.session] = Append(@, a)]
    /\ charged' = [charged EXCEPT ![a.session] = [k \in CostKeys |-> @[k] + Charge(a, k)]]

\* slip: the tool is handed the packet as it came
ExecutePresented(c) ==
    /\ pc[c] = "execute"
    /\ presented[c] \in Registered
    /\ Ran(presented[c])
    /\ Answer(c, "ran")
    /\ UNCHANGED <<grants, ledger, stopped, log, presented, effective, verdict, held>>

Execute(c) ==
    /\ pc[c] = "execute"
    /\ effective[c] \in Registered
    /\ Ran(effective[c])
    /\ Answer(c, "ran")
    /\ UNCHANGED <<grants, ledger, stopped, log, presented, effective, verdict, held>>

\* No executor (KeyError), or a tool that raises before it did anything: neither
\* is caught.
ExecuteRaises(c) ==
    /\ pc[c] = "execute"
    /\ effective[c] \notin Registered \/ "tool" \in Faults
    /\ Answer(c, "raised")
    /\ UNCHANGED <<grants, ledger, stopped, log, presented, effective, verdict, effects, held>>

SetGrants(g) ==
    /\ grants' = g
    /\ held' = held \cup {c \in Calls : pc[c] \notin {"new", "done"} /\ Holds(g, presented[c])}
    /\ UNCHANGED <<ledger, stopped, log, calls, effects>>

Grant(k) == k \notin grants /\ SetGrants(grants \cup {k})

Revoke(k) == k \in grants /\ SetGrants(grants \ {k})

Stop ==
    /\ ~ stopped
    /\ stopped' = TRUE
    /\ UNCHANGED <<grants, ledger, log, calls, effects, held>>

Next ==
    \/ \E c \in Calls :
         \/ \E a \in Actions : Dispatch(c, a)
         \/ RefuseNonAction(c)
         \/ CheckHeld(c) \/ CheckWildcard(c) \/ CheckCapability(c)
         \/ Evaluate(c) \/ EvaluateRaises(c)
         \/ CheckStopped(c) \/ CheckRuntime(c)
         \/ Record(c) \/ RecordRaises(c)
         \/ Execute(c) \/ ExecuteRaises(c)
    \/ \E k \in Capabilities : Grant(k) \/ Revoke(k)
    \/ Stop

Spec == Init /\ [][Next]_vars

-----------------------------------------------------------------------------

TypeOK ==
    /\ grants \subseteq Capabilities
    /\ stopped \in BOOLEAN
    /\ granted \in [Sessions -> Seq(Actions)] /\ ran \in [Sessions -> Seq(Actions)]
    /\ spent \in [Sessions -> [CostKeys -> Nat]] /\ charged \in [Sessions -> [CostKeys -> Nat]]
    /\ log \subseteq [call : Calls, layer : {"capability", "policy", "runtime"},
                      verdict : {"allow", "deny", "transform"}, packet : Actions]
    /\ pc \in [Calls -> {"new", "grants", "wildcard", "capability", "policy", "stop flag", "runtime",
                         "execute", "done"} \cup DOMAIN Recording]
    /\ presented \in [Calls -> Actions \cup {NoAction}]
    /\ effective \in [Calls -> Actions \cup {NoAction}]
    /\ verdict \in [Calls -> {"allow", "deny", "transform"}]
    /\ outcome \in [Calls -> {"none", "deny", "ran", "raised"}]
    /\ held \subseteq Calls

Logged(c, l, v) == \E e \in log : e.call = c /\ e.layer = l /\ e.verdict \in v

\* Nothing runs that the log does not account for: three permits, and the runtime's
\* one for the very packet that ran, however the log failed on the way
\* (controlled_gate.py:17, 23-24).
RunsAreLogged ==
    \A c \in Calls : outcome[c] = "ran" =>
        /\ Logged(c, "capability", {"allow"})
        /\ Logged(c, "policy", {"allow", "transform"})
        /\ \E e \in log :
             /\ e.call = c /\ e.layer = "runtime" /\ e.verdict = "allow"
             /\ \E i \in DOMAIN ran[e.packet.session] : ran[e.packet.session][i] = e.packet

\* A packet refused by capability or purpose consumes nothing of a session: each
\* grant is of a call both layers cleared, to the session the policy's answer names
\* (controlled_gate.py:8-10, 88-89).
OnlyClearedCallsConsume ==
    \A s \in Sessions :
        Len(granted[s]) <= Cardinality({c \in Calls :
                              /\ effective[c] # NoAction /\ effective[c].session = s
                              /\ Logged(c, "capability", {"allow"})
                              /\ Logged(c, "policy", {"allow", "transform"})})

\* A call that got to its tool held the capability at some moment of the call,
\* though allows() reads the registry twice while grants come and go
\* (controlled_gate.py:8-10).
AuthorisedDuringCall == \A c \in Calls : outcome[c] = "ran" => c \in held

Effects == INSTANCE SessionLedger WITH granted <- ran, spent <- charged

\* What tools really did stays within every limit of the session, as if each had
\* been ruled on alone (controlled_gate.py:4, 19-21).
EffectsWithinLimits == Effects!Spec

\* What runtime.py:29-31 says of a denial: "A DENIED action consumes nothing."
\* Every grant of a session is of a call that was not denied.
DeniedConsumesNothing ==
    \A s \in Sessions :
        Len(granted[s]) <= Cardinality({c \in Calls :
                              /\ effective[c] # NoAction /\ effective[c].session = s
                              /\ outcome[c] # "deny"})
=============================================================================
