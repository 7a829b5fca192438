----------------------------- MODULE MCGateway ------------------------------
(***************************************************************************)
(* The gates and what stands around them, side by side: ControlledGate,    *)
(* the first gate, the adapters, the tokens, the gates of the build and    *)
(* the connections of the notary.  One machine runs, the others rest as    *)
(* they start.                                                             *)
(***************************************************************************)
EXTENDS MCGate, AgentGate, Adapters, MCTokens, BuildGates, NotaryService

CONSTANTS bot, growth

VARIABLE machine   \* the one that runs

tokenVars == <<spelled, token, passes>>

-----------------------------------------------------------------------------

\* Beyond agent.py's: a secret nested, copied as a number and echoed; one that
\* contains another; one that only a pattern knows, and that is part of a longer word
\* too; one whose scrubbing leaves a match; a tool nobody registered.
Support(tool, data) == Intent(tool, "support_reply", {"customer_support"}, data)
Secret == Text(<<"1", "2">>)
Body(w) == <<"body">> :> Text(w)

MCIntents == PlannedIntents \o
    <<Support("send_email", (<<"meta", "ssn">> :> Secret) @@ Body(<<"b", "1", "2">>)
                                @@ (<<"meta", "copy">> :> Number(<<"1", "2">>))),
      Support("send_email", (<<"ssn">> :> Secret) @@ (<<"card_number">> :> Number(<<"1", "2", "3">>))
                                @@ Body(<<"0", "1", "2", "3">>)),
      Support("send_email", Body(<<"3", "3", "-", "3", "3", "3">>)),
      Support("send_email", (<<"ssn">> :> Secret) @@ Body(<<"1", "2", "3", "3">>)),
      Support("refund", Body(<<"b">>))>>

OneAgent(g, day) == [h \in Agents |-> IF h = g THEN day ELSE <<>>]

MCDays == {OneAgent(g, <<i>>) : g \in Agents, i \in DOMAIN MCIntents}
              \cup {OneAgent(bot, <<2, 6>>), OneAgent(growth, <<7, 4>>), [g \in Agents |-> <<3>>]}

\* policies/purpose_policy.json
MCPurposes == ("customer_support" :> {"support_reply", "account_recovery"})
                  @@ ("marketing_optin" :> {"marketing", "support_reply"})
MCRules == <<[purpose |-> "support_reply", fields |-> {"ssn", "card_number"},
              patterns |-> {[words |-> {<<"3", "3">>}, edges |-> TRUE]}]>>

MCTampered == {Secret, Text(<<"t">>)}

-----------------------------------------------------------------------------

MCPrefixes == ("read_rows" :> {"read_"}) @@ ("fetch_page" :> {"fetch_"}) @@ ("delete_rows" :> {"delete_"})
                  @@ ("send_mail" :> {"send_"}) @@ ("reset" :> {"reset"}) @@ ("transfer" :> {})

Raw(name, tool) == ("actor" :> "bot") @@ (name :> tool)
Worth(type, x) == "amount" :> [type |-> type, value |-> x]

\* Requests of each tool, labelled, of amounts of every type, and such as are refused.
MCRaws(d) ==
    CASE d = "ai" ->
           {("data_labels" :> ls) @@ ("session_id" :> "") @@ Raw("tool", t) :
                t \in DOMAIN MCPrefixes, ls \in {{}, {"card_number"}, {"orders"}, Unusable}}
           \cup {("arguments" :> x) @@ Raw("tool", "transfer") :
                     x \in {Unusable, Worth("number", 50), Worth("other", 50), Worth("number", MaxFloat + 1)}}
      [] d = "finance" ->
           {Worth("number", x) @@ ("nonce" :> "n") @@ Raw("operation", "transfer") :
                x \in {-5000, 0, 50, 5000, 2000000, MaxFloat + 1, NaN, Infinite}}
           \cup {Worth("other", x) @@ Raw("operation", "transfer") : x \in {5000, Infinite, NotANumber, Overflow}}
           \cup {Worth("bool", 1) @@ Raw("operation", "transfer"),
                 ("data_labels" :> {"card_number"}) @@ Raw("operation", "transfer"),
                 ("data_labels" :> Unusable) @@ Raw("operation", "transfer"), "operation" :> "transfer"}
      [] d = "quantum" ->
           {Raw("job", "reset"), Raw("job", "transfer"), Worth("number", 50) @@ Raw("job", "reset"), "actor" :> "bot"}

MCRequests == UNION {[domain : {d}, raw : MCRaws(d)] : d \in Domains}

-----------------------------------------------------------------------------

MCMaxLog == [v \in Visitors |-> 1]

-----------------------------------------------------------------------------

Machines == {"gate", "agents", "adapters", "tokens", "build", "notary"}

Rests(m) == machine # m

GatewayInit ==
    /\ machine \in Machines
    /\ ServiceInit
    /\ GateInit /\ (Rests("agents") => todo = OneAgent(bot, <<1>>))
    /\ AdapterInit /\ (Rests("adapters") => request = [domain |-> "quantum", raw |-> Raw("job", "reset")])
    /\ Init /\ (Rests("gate") => grants = {})
    /\ IF Rests("tokens") THEN spelled = <<lower>> /\ TokenStart ELSE TokenInit
    /\ IF Rests("build") THEN roots = {} /\ imports = {} /\ unparsable = {} /\ job = <<>> /\ BuildStart ELSE BuildInit

GatewayNext ==
    /\ \/ machine = "gate" /\ Next
          /\ UNCHANGED <<gateVars, adapterVars, tokenVars, buildVars, serviceVars>>
       \/ machine = "agents" /\ GateNext
          /\ UNCHANGED <<vars, adapterVars, tokenVars, buildVars, serviceVars>>
       \/ machine = "adapters" /\ AdapterNext
          /\ UNCHANGED <<vars, gateVars, tokenVars, buildVars, serviceVars>>
       \/ machine = "tokens" /\ Normalize
          /\ UNCHANGED <<vars, gateVars, adapterVars, buildVars, serviceVars>>
       \/ machine = "build" /\ BuildNext
          /\ UNCHANGED <<vars, gateVars, adapterVars, tokenVars, serviceVars>>
       \/ machine = "notary" /\ ServiceNext
          /\ UNCHANGED <<vars, gateVars, adapterVars, tokenVars, buildVars>>
    /\ UNCHANGED machine

\* A machine at rest has no step that fairness could ask of it.
GatewaySpec ==
    /\ GatewayInit
    /\ [][GatewayNext]_<<machine, vars, gateVars, adapterVars, tokenVars, buildVars, serviceVars>>
    /\ ServiceFairness

-----------------------------------------------------------------------------

\* Whichever gate it went through, what ran has its permit on record.
NothingRunsUnlogged == RunsAreLogged /\ PermitOnRecord
=============================================================================
