------------------------------ MODULE AgentGate -----------------------------
(***************************************************************************)
(* AuthGate (gate.py), the first, single-layer gate: agents work through   *)
(* their plans (agent/agent.py), dispatch() has the purpose policy rule,   *)
(* records the ruling (audit.py) and hands the payload to the tool.        *)
(*                                                                         *)
(* A payload stays in its caller's hands while it is ruled on: an Intent   *)
(* holds the caller's own dict, an Action a copy of its top level          *)
(* (action.py:74).  Redaction builds a new one.                            *)
(***************************************************************************)
EXTENDS Redaction, TLC

CONSTANTS
    Agents,
    ActionAgents,     \* those that send Actions, not Intents
    Plan,             \* the intents agents have
    Days,             \* who may have to do what of it: agent -> indices, in order
    PurposeBindings,  \* label -> the purposes it may flow into
    DenyUnknown,      \* the policy's "default" is "deny"
    Rules,            \* the redaction rules, in the policy's order
    Executors,        \* the tools dispatch() is given
    Tampered,         \* what an agent may write into a payload it handed in
    GateFaults        \* what may raise: a subset of {"log", "executor"}

ASSUME GateFaultAssumption == GateFaults \subseteq {"log", "executor"}
ASSUME PayloadAssumption ==
    /\ \A i \in DOMAIN Plan : IsPayload(Plan[i].payload)
    /\ Tampered \subseteq Scalars
    /\ Rules \in Seq(Range(Rules)) /\ \A r \in Range(Rules) : IsRule(r)
ASSUME AgentAssumption == ActionAgents \subseteq Agents /\ Days \subseteq [Agents -> Seq(DOMAIN Plan)]

VARIABLES
    todo,             \* per agent: what it still has to do
    stage,            \* per agent: "plan", "evaluate", "record", "execute"
    in_hand,          \* per agent: the payload, as its caller has it now
    ruling,           \* per agent: [verdict, transformed, ruled_on]
    decisions,        \* audit.py: the lines <<agent, intent, verdict>>
    delivered         \* history: what tools were handed

gateVars == <<todo, stage, in_hand, ruling, decisions, delivered>>

Unruled == [verdict |-> "deny", transformed |-> <<>>, ruled_on |-> <<>>]

-----------------------------------------------------------------------------

Intent(tool, purpose, labels, pay) ==
    [tool |-> tool, action_purpose |-> purpose, data_labels |-> labels, payload |-> pay]

\* agent.py: a support agent's day, one of its intents the work of an injection.
PlannedIntents ==
    LET Mail(purpose, label, pay) == Intent("send_email", purpose, {label}, pay)
        Plain == (<<"to">> :> Text(<<"t">>)) @@ (<<"body">> :> Text(<<"b">>))
        Ssn == <<"ssn">> :> Text(<<"1", "2">>)
    IN <<Mail("support_reply", "customer_support", Plain),
         Mail("marketing", "customer_support", Plain),
         Mail("support_reply", "customer_support", Ssn @@ Plain),
         Mail("marketing", "marketing_optin", Plain),
         Mail("marketing", "scraped_pii", Plain)>>

Current(g) == Plan[Head(todo[g])]

Bound(i) ==
    \A l \in i.data_labels : IF l \in DOMAIN PurposeBindings
                             THEN i.action_purpose \in PurposeBindings[l]
                             ELSE ~ DenyUnknown

GateInit ==
    /\ todo \in Days
    /\ stage = [g \in Agents |-> "plan"]
    /\ in_hand = [g \in Agents |-> <<>>]
    /\ ruling = [g \in Agents |-> Unruled]
    /\ decisions = {} /\ delivered = {}

\* dispatch() is over, by its answer or by an exception; the agent goes on.
Over(g) ==
    /\ todo' = [todo EXCEPT ![g] = Tail(@)]
    /\ stage' = [stage EXCEPT ![g] = "plan"]
    /\ in_hand' = [in_hand EXCEPT ![g] = <<>>]
    /\ ruling' = [ruling EXCEPT ![g] = Unruled]

Propose(g) ==
    /\ stage[g] = "plan" /\ todo[g] # <<>>
    /\ in_hand' = [in_hand EXCEPT ![g] = Current(g).payload]
    /\ stage' = [stage EXCEPT ![g] = "evaluate"]
    /\ UNCHANGED <<todo, ruling, decisions, delivered>>

PolicyEvaluate(g) ==
    LET i == Current(g)
        Ruled(v, pay) == ruling' = [ruling EXCEPT ![g] =
                             [verdict |-> v, transformed |-> pay, ruled_on |-> in_hand[g]]]
    IN /\ stage[g] = "evaluate"
       /\ IF ~ Bound(i) THEN Ruled("deny", <<>>)
          ELSE IF Applicable(Rules, i.action_purpose, in_hand[g]) = {} THEN Ruled("allow", <<>>)
          ELSE \E pay \in Minimised(Rules, i.action_purpose, in_hand[g]) : Ruled("transform", pay)
       /\ stage' = [stage EXCEPT ![g] = "record"]
       /\ UNCHANGED <<todo, in_hand, decisions, delivered>>

Decided(g) == <<g, Head(todo[g]), ruling[g].verdict>>

RecordDecision(g) ==
    /\ stage[g] = "record"
    /\ decisions' = decisions \cup {Decided(g)}
    /\ IF ruling[g].verdict = "deny" THEN Over(g)
       ELSE stage' = [stage EXCEPT ![g] = "execute"] /\ UNCHANGED <<todo, in_hand, ruling>>
    /\ UNCHANGED delivered

\* The log raises, its line written or not, and dispatch() with it.
RecordDecisionRaises(g) ==
    /\ "log" \in GateFaults
    /\ stage[g] = "record"
    /\ decisions' \in {decisions, decisions \cup {Decided(g)}}
    /\ Over(g)
    /\ UNCHANGED delivered

Effective(g) == IF ruling[g].verdict = "transform" THEN ruling[g].transformed ELSE in_hand[g]

RunTool(g) ==
    /\ stage[g] = "execute"
    /\ Current(g).tool \in Executors
    /\ delivered' = delivered \cup {[agent |-> g, intent |-> Head(todo[g]), got |-> Effective(g),
                                 verdict |-> ruling[g].verdict, ruled_on |-> ruling[g].ruled_on]}
    /\ Over(g)
    /\ UNCHANGED decisions

\* No executor, or one that raises before it did anything.
RunToolRaises(g) ==
    /\ stage[g] = "execute"
    /\ Current(g).tool \notin Executors \/ "executor" \in GateFaults
    /\ Over(g)
    /\ UNCHANGED <<decisions, delivered>>

\* An Action has a top level of its own.
Shared(g, p) == g \in ActionAgents => Len(p) > 1

\* The agent writes into the payload it handed in.
Tamper(g, p, v) ==
    /\ stage[g] # "plan"
    /\ Shared(g, p)
    /\ in_hand' = [in_hand EXCEPT ![g][p] = v]
    /\ UNCHANGED <<todo, stage, ruling, decisions, delivered>>

GateNext ==
    \E g \in Agents :
        \/ Propose(g) \/ PolicyEvaluate(g)
        \/ RecordDecision(g) \/ RecordDecisionRaises(g)
        \/ RunTool(g) \/ RunToolRaises(g)
        \/ \E p \in DOMAIN in_hand[g], v \in Tampered : Tamper(g, p, v)

-----------------------------------------------------------------------------

\* What ran has a permit on record, though the log may fail and agents share it
\* (gate.py:26-27; controlled_gate.py:17 asks the same of its successor).
PermitOnRecord ==
    \A x \in delivered : <<x.agent, x.intent, x.verdict>> \in decisions /\ x.verdict # "deny"

\* No field the rule names has anything in it, at any depth.
NoNamedField(pay, rule) ==
    \A p \in DOMAIN pay : \A i \in DOMAIN p :
        p[i] \in rule.fields => i = Len(p) /\ (pay[p] = Blanked \/ Empty(pay[p]))

\* None of the rule's patterns matches anywhere in a text.
NoMatch(pay, rule) ==
    \A pat \in rule.patterns, t \in Texts(pay) : \A i \in DOMAIN t : MatchesAt(pat, t, i) = {}

Screened(pay, rule) == NoNamedField(pay, rule) /\ NoMatch(pay, rule)

SameTop(load, now) == \A p \in DOMAIN load : Len(p) = 1 => p \in DOMAIN now /\ now[p] = load[p]

\* What was taken out of a payload stays out.  A payload is run as it came only if no
\* rule of its purpose had anything to take out of what was ruled on, and of an Action
\* that holds of the top level that runs, whatever its sender wrote meanwhile.  What
\* the first rule that had something to take out made of a payload has none of the
\* named fields, at any depth, and in no text a value of one or a word a pattern found,
\* under whatever name and in whatever order the secrets were scrubbed.  Not promised:
\* that no pattern matches the result (a neighbour scrubbed away may leave a match
\* that was none before), what runs of an Intent or below an Action's top level when
\* its sender writes into it, and what is no text (policy.py:27-31, 59-63, 79-82,
\* action.py:73-75).
MinimisedStaysMinimised ==
    \A x \in delivered :
        LET mine == {i \in DOMAIN Rules : Rules[i].purpose = Plan[x.intent].action_purpose}
        IN /\ x.verdict = "allow" =>
                /\ \A i \in mine : Screened(x.ruled_on, Rules[i])
                /\ x.agent \in ActionAgents => SameTop(x.ruled_on, x.got)
           /\ x.verdict = "transform" =>
                \E i \in mine :
                    /\ \A j \in mine : j < i => Screened(x.ruled_on, Rules[j])
                    /\ RuleHits(x.ruled_on, Rules[i])
                    /\ NoNamedField(x.got, Rules[i])
                    /\ \A w \in RuleSecrets(x.ruled_on, Rules[i]) : \A t \in Texts(x.got) : ~ Occurs(w, t)
=============================================================================
