------------------------------ MODULE Adapters ------------------------------
(***************************************************************************)
(* adapter.py: requests of three domains, the Action each adapter makes of *)
(* its domain's (action.py), the capabilities and the risk it reads off    *)
(* that Action, the reply it makes of a tool's result; and what the        *)
(* runtime's default_cost_fn charges the same Action with (runtime.py).    *)
(*                                                                         *)
(* Tokens are normalised already (see Tokens).  Risks are in percent.  An  *)
(* amount has the type it was given in (other: a text, a Decimal, a list)  *)
(* and the whole number, or what else, float() reads.                      *)
(***************************************************************************)
EXTENDS Integers, FiniteSets, TLC

CONSTANTS
    Requests,       \* [domain, raw]; raw is a function from what it says to values
    MaxFloat,       \* the largest integer float() takes
    NaN, Infinite,  \* what else it may return
    NotANumber,     \* stands for what it refuses: such an amount counts 0
    Overflow,       \* stands for its OverflowError, which nobody catches
    Unusable,       \* labels or arguments that tuple() or dict() refuse
    PrefixesOf,     \* tool -> the prefixes below that it starts with
    Regulated       \* the labels that contain ssn, card, medical or pii

Domains == {"ai", "finance", "quantum"}

IsAmount(x) ==
    \/ x \in [type : {"number"}, value : Int \cup {NaN, Infinite}]
    \/ x \in [type : {"bool"}, value : {0, 1}]
    \/ /\ x \in [type : {"other"}, value : Int \cup {NaN, Infinite, NotANumber, Overflow}]
       /\ x.value \in Int => x.value \in (-MaxFloat)..MaxFloat

ASSUME AmountAssumption ==
    /\ MaxFloat \in Nat \ {0}
    /\ {NaN, Infinite, NotANumber, Overflow} \cap Int = {}
    /\ NotANumber \notin {NaN, Infinite, Overflow} /\ Overflow \notin {NaN, Infinite}
    /\ \A q \in Requests :
         /\ q.domain \in Domains
         /\ "amount" \in DOMAIN q.raw => IsAmount(q.raw["amount"])
         /\ "arguments" \in DOMAIN q.raw =>
               \/ q.raw["arguments"] = Unusable
               \/ "amount" \in DOMAIN q.raw["arguments"] =>
                      IsAmount(q.raw["arguments"]["amount"])

VARIABLES
    request,
    packet,         \* what normalize() answered
    profile,        \* the capabilities and the risk asked for
    charge,         \* what default_cost_fn answered
    reply           \* what denormalize() made of the tool's result

Nothing == [none |-> TRUE]
Failed == [failed |-> TRUE]   \* it raised

adapterVars == <<request, packet, profile, charge, reply>>

-----------------------------------------------------------------------------

\* raw.get(key, default)
Get(raw, k, default) == IF k \in DOMAIN raw THEN raw[k] ELSE default

\* Action.__post_init__: no adapter gives a capability, so the Action names its tool.
ActionOf(actor, tool, purpose, labels, payload, session, nonce) ==
    [actor |-> actor, tool |-> tool, action_purpose |-> purpose, data_labels |-> labels,
     payload |-> payload, session_id |-> IF session = "" THEN "default" ELSE session,
     nonce |-> nonce, capability |-> <<"tool", tool>>]

Zero == [type |-> "number", value |-> 0]

\* The arguments of an AI tool call are whatever it has; the others name theirs.
ToolAction(raw) ==
    LET labels == Get(raw, "data_labels", {})
        arguments == Get(raw, "arguments", <<>>)
    IN IF {"actor", "tool"} \subseteq DOMAIN raw /\ Unusable \notin {labels, arguments}
       THEN ActionOf(raw["actor"], raw["tool"], Get(raw, "purpose", ""), labels, arguments,
                     Get(raw, "session_id", "default"), Get(raw, "nonce", ""))
       ELSE Failed

\* slip: the amount becomes a string, as everything else a request says does
MoneyActionQuoted(raw) ==
    LET labels == Get(raw, "data_labels", {})
        amount == Get(raw, "amount", Zero)
        payload == [amount |-> [type |-> "other", value |-> amount.value],
                    currency |-> Get(raw, "currency", ""),
                    account_from |-> Get(raw, "account_from", ""),
                    account_to |-> Get(raw, "account_to", "")]
    IN IF {"actor", "operation"} \subseteq DOMAIN raw /\ labels # Unusable
       THEN ActionOf(raw["actor"], raw["operation"], Get(raw, "purpose", ""), labels, payload,
                     Get(raw, "session_id", "default"), Get(raw, "nonce", ""))
       ELSE Failed

MoneyAction(raw) ==
    LET labels == Get(raw, "data_labels", {})
        payload == [amount |-> Get(raw, "amount", Zero),
                    currency |-> Get(raw, "currency", ""),
                    account_from |-> Get(raw, "account_from", ""),
                    account_to |-> Get(raw, "account_to", "")]
    IN IF {"actor", "operation"} \subseteq DOMAIN raw /\ labels # Unusable
       THEN ActionOf(raw["actor"], raw["operation"], Get(raw, "purpose", ""), labels, payload,
                     Get(raw, "session_id", "default"), Get(raw, "nonce", ""))
       ELSE Failed

JobAction(raw) ==
    LET labels == Get(raw, "data_labels", {})
        payload == [backend |-> Get(raw, "backend", ""),
                    shots |-> Get(raw, "shots", 0),
                    circuit_id |-> Get(raw, "circuit_id", "")]
    IN IF {"actor", "job"} \subseteq DOMAIN raw /\ labels # Unusable
       THEN ActionOf(raw["actor"], raw["job"], Get(raw, "purpose", ""), labels, payload,
                     Get(raw, "session_id", "default"), Get(raw, "nonce", ""))
       ELSE Failed

ToAction(d, raw) ==
    CASE d = "ai" -> ToolAction(raw)
      [] d = "finance" -> MoneyAction(raw)
      [] d = "quantum" -> JobAction(raw)

-----------------------------------------------------------------------------

EffectOf ==
    [p \in {"delete_", "drop_", "remove_"} |-> <<"effect", "destructive">>]
        @@ [p \in {"send_", "post_", "fetch_", "http_"} |-> <<"effect", "network">>]
        @@ [p \in {"write_", "update_", "create_"} |-> <<"effect", "write">>]

ReadOnly == {"read_", "get_", "list_", "search_", "fetch_", "describe_"}

ToolCapabilities(a) ==
    {a.capability} \cup {EffectOf[p] : p \in PrefixesOf[a.tool] \cap DOMAIN EffectOf}
MoneyCapabilities(a) == {a.capability, <<"effect", "financial">>}
JobCapabilities(a) == {a.capability, <<"effect", "quantum_job">>}

MapCapabilities(d, a) ==
    CASE d = "ai" -> ToolCapabilities(a)
      [] d = "finance" -> MoneyCapabilities(a)
      [] d = "quantum" -> JobCapabilities(a)

\* float(): a text too large reads as infinite, an integer too large raises.
ToFloat(x) ==
    IF x.type = "number" /\ x.value \in Int /\ x.value \notin (-MaxFloat)..MaxFloat
    THEN Overflow ELSE x.value

\* _AMOUNT_BUCKETS
Bucket(x) ==
    IF x < 100 THEN 10 ELSE IF x < 1000 THEN 25 ELSE IF x < 10000 THEN 50
    ELSE IF x < 100000 THEN 75 ELSE IF x < 1000000 THEN 90 ELSE 100

\* slip: a refund is rated as the smallest transfer
SignedBlast(x) == IF x \in {NaN, Infinite} THEN 100 ELSE Bucket(x)

\* Every comparison with NaN is false.
AmountBlast(x) == IF x \in {NaN, Infinite} THEN 100 ELSE Bucket(IF x < 0 THEN -x ELSE x)

\* What float() refuses counts 0, what it raises of an overflow goes through.
AmountOf(a) ==
    LET x == Get(a.payload, "amount", Zero)
    IN IF x.value = NotANumber THEN 0 ELSE ToFloat(x)

Risk(rev, blast, sens) == [reversibility |-> rev, blast_radius |-> blast, sensitivity |-> sens]

Starts(a, prefixes) == PrefixesOf[a.tool] \cap prefixes # {}

\* _has_sensitive_label, and what is rated without one
Sensitivity(a, least) == IF a.data_labels \cap Regulated # {} THEN 90 ELSE least

ToolRisk(a) ==
    IF Starts(a, ReadOnly) THEN Risk(95, 5, Sensitivity(a, 20))
    ELSE IF Starts(a, {"delete_", "drop_", "remove_"}) THEN Risk(10, 80, Sensitivity(a, 20))
    ELSE IF Starts(a, {"send_", "post_"}) THEN Risk(30, 50, Sensitivity(a, 20))
    ELSE Risk(60, 30, Sensitivity(a, 20))

MoneyRisk(a) ==
    IF AmountOf(a) = Overflow THEN Failed
    ELSE Risk(10, AmountBlast(AmountOf(a)), Sensitivity(a, 70))

JobRisk(a) ==
    Risk(IF Starts(a, {"calibrate", "reset"}) THEN 20 ELSE 90, 40, Sensitivity(a, 30))

RiskProfile(d, a) ==
    CASE d = "ai" -> ToolRisk(a) [] d = "finance" -> MoneyRisk(a) [] d = "quantum" -> JobRisk(a)

\* default_cost_fn: what is no number, and what is a bool, costs nothing.
DefaultCost(a) ==
    IF "amount" \in DOMAIN a.payload /\ a.payload["amount"].type = "number"
    THEN ToFloat(a.payload["amount"]) ELSE 0

Denormalize(raised) == [ok |-> ~ raised]

-----------------------------------------------------------------------------

AdapterInit ==
    /\ request \in Requests
    /\ packet = Nothing /\ profile = Nothing /\ charge = Nothing /\ reply = Nothing

NormalizeRaw ==
    /\ packet = Nothing
    /\ packet' = ToAction(request.domain, request.raw)
    /\ UNCHANGED <<request, profile, charge, reply>>

HasPacket == packet \notin {Nothing, Failed}

\* map_capabilities and risk_profile
Profile ==
    /\ HasPacket /\ profile = Nothing
    /\ profile' = LET risk == RiskProfile(request.domain, packet)
                  IN IF risk = Failed THEN Failed
                     ELSE [caps |-> MapCapabilities(request.domain, packet), risk |-> risk]
    /\ UNCHANGED <<request, packet, charge, reply>>

ChargePacket ==
    /\ HasPacket /\ charge = Nothing
    /\ charge' = [spend |-> DefaultCost(packet)]
    /\ UNCHANGED <<request, packet, profile, reply>>

Reply(raised) ==
    /\ HasPacket /\ reply = Nothing
    /\ reply' = Denormalize(raised)
    /\ UNCHANGED <<request, packet, profile, charge>>

AdapterNext == NormalizeRaw \/ Profile \/ ChargePacket \/ \E raised \in BOOLEAN : Reply(raised)

-----------------------------------------------------------------------------

\* The amount a request gives, where its domain has it.
Given(q) ==
    CASE q.domain = "ai" -> Get(Get(q.raw, "arguments", <<>>), "amount", Zero)
      [] q.domain = "finance" -> Get(q.raw, "amount", Zero)
      [] q.domain = "quantum" -> Zero

\* What a packet is charged is what its request gave as a number, whatever adapter it
\* came through: unchanged for the monitor to refuse, clamp or sum, or an error if it
\* is too large.  And the budget is charged what the risk is rated by: a transfer of
\* a number is rated exactly where it can be charged, and for what it is charged.  An
\* amount that is no number, or a bool, is charged nothing, whatever it is rated
\* (adapter.py:211-213, 284-288, runtime.py:53-65).
ChargedAsRated ==
    charge # Nothing =>
        /\ Given(request).type = "number" => charge.spend = ToFloat(Given(request))
        /\ Given(request).type # "number" => charge.spend = 0
        /\ request.domain = "finance" /\ profile # Nothing =>
             /\ Given(request).type = "number" => (charge.spend = Overflow <=> profile = Failed)
             /\ charge.spend \notin {0, Overflow} =>
                  profile.risk.blast_radius = AmountBlast(charge.spend)

\* A transfer that is rated is never rated safer than a smaller one, whichever way the
\* money goes, nor does the rating of a smaller one raise; one of NaN or without bound
\* is rated as the largest.  One too large for float() gets no rating, where
\* adapter.py:224-230 promises the largest.
LargerIsNotSafer ==
    request.domain = "finance" /\ profile \notin {Nothing, Failed} =>
        \A q \in Requests :
            LET a == MoneyAction(q.raw)
                x == AmountOf(packet)
                y == Given(q).value
                smaller == y \in Int /\ x \in Int /\ (y \in -x..x \/ y \in x..-x)
            IN q.domain = "finance" /\ a # Failed =>
                 /\ smaller => MoneyRisk(a) # Failed
                 /\ (smaller \/ x \in {NaN, Infinite}) /\ MoneyRisk(a) # Failed =>
                        MoneyRisk(a).blast_radius <= profile.risk.blast_radius
=============================================================================
