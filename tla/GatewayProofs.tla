---------------------------- MODULE GatewayProofs ----------------------------
(***************************************************************************)
(* What stands beside the controlled gate, for any agents, plans and       *)
(* rules, any requests and amounts, any tree and any number of attacks:    *)
(* whatever ran, through either gate, has its permit on record; what the   *)
(* first gate handed over stays minimised; a packet is charged what it was *)
(* rated by; a larger transfer is not rated safer; what the zeros of a     *)
(* build show.                                                             *)
(*                                                                         *)
(* The machines do not touch each other's variables, so an invariant of    *)
(* each is an invariant of all, and what is proved of the controlled gate  *)
(* and of the notary alone holds here (MachinesAlone).                     *)
(***************************************************************************)
EXTENDS MCGateway, ControlledGateProofs, AgentGateProofs

-----------------------------------------------------------------------------
(* The adapters. *)

\* A profile has the risk of the packet, a charge its cost.
AdapterIInv ==
    /\ request \in Requests
    /\ packet \in {Nothing, ToAction(request.domain, request.raw)}
    /\ profile # Nothing \/ charge # Nothing => HasPacket
    /\ profile \notin {Nothing, Failed} =>
         /\ RiskProfile(request.domain, packet) # Failed
         /\ profile.risk = RiskProfile(request.domain, packet)
    /\ profile = Failed => RiskProfile(request.domain, packet) = Failed
    /\ charge # Nothing => charge.spend = DefaultCost(packet)

\* No adapter has answered.
LEMMA AdapterStarts ==
    ASSUME AdapterInit
    PROVE  AdapterIInv
  BY DEF AdapterInit, AdapterIInv, Nothing, Failed

\* An adapter answers by the request.
LEMMA AdapterKept ==
    ASSUME AdapterIInv, AdapterNext
    PROVE  AdapterIInv'
  <1>1. CASE NormalizeRaw
    BY <1>1 DEF NormalizeRaw, AdapterIInv, HasPacket, Nothing, Failed
  <1>2. CASE Profile
    <2> DEFINE risk == RiskProfile(request.domain, packet)
               p == [caps |-> MapCapabilities(request.domain, packet), risk |-> risk]
    <2>1. /\ HasPacket /\ profile' = IF risk = Failed THEN Failed ELSE p
          /\ UNCHANGED <<request, packet, charge>>
      BY <1>2 DEF Profile
    <2>2. p.risk = risk /\ "caps" \in DOMAIN p
      OBVIOUS
    <2> HIDE DEF p
    <2>3. p # Failed
      BY <2>2 DEF Failed
    <2> QED
      BY <2>1, <2>2, <2>3 DEF AdapterIInv, HasPacket, Nothing, Failed
  <1>3. CASE ChargePacket
    <2>1. HasPacket /\ charge' = [spend |-> DefaultCost(packet)] /\ UNCHANGED <<request, packet, profile>>
      BY <1>3 DEF ChargePacket
    <2>2. charge'.spend = DefaultCost(packet)
      BY <2>1
    <2> QED
      BY <2>1, <2>2 DEF AdapterIInv, HasPacket
  <1>4. ASSUME NEW raised, Reply(raised)
        PROVE  AdapterIInv'
    BY <1>4 DEF Reply, AdapterIInv, HasPacket
  <1> QED
    BY <1>1, <1>2, <1>3, <1>4 DEF AdapterNext

\* The amount in a transfer's packet is the one its request gives, or none for 0.
LEMMA TransferAmount ==
    ASSUME NEW q \in Requests, q.domain = "finance", MoneyAction(q.raw) # Failed
    PROVE  LET a == MoneyAction(q.raw)
           IN /\ "amount" \in DOMAIN a.payload /\ a.payload["amount"] = Given(q)
              /\ IsAmount(Given(q))
  <1> DEFINE payload == [amount |-> Get(q.raw, "amount", Zero),
                         currency |-> Get(q.raw, "currency", ""),
                         account_from |-> Get(q.raw, "account_from", ""),
                         account_to |-> Get(q.raw, "account_to", "")]
  <1>1. MoneyAction(q.raw).payload = payload
    BY DEF MoneyAction, ActionOf
  <1>2. "amount" \in DOMAIN payload /\ payload["amount"] = Get(q.raw, "amount", Zero)
    OBVIOUS
  <1> HIDE DEF payload
  <1>3. Given(q) = Get(q.raw, "amount", Zero)
    BY DEF Given
  <1>4. IsAmount(Zero)
    BY DEF IsAmount, Zero
  <1>5. IsAmount(Given(q))
    BY <1>3, <1>4, AmountAssumption DEF Get
  <1> QED
    BY <1>1, <1>2, <1>3, <1>5

\* What the Action of any domain has for an amount.
LEMMA PacketAmount ==
    ASSUME NEW q \in Requests, ToAction(q.domain, q.raw) # Failed
    PROVE  LET a == ToAction(q.domain, q.raw)
           IN IF "amount" \in DOMAIN a.payload THEN a.payload["amount"] = Given(q)
              ELSE Given(q) = Zero
  <1>1. CASE q.domain = "ai"
    <2>1. ToAction(q.domain, q.raw).payload = Get(q.raw, "arguments", <<>>)
      BY <1>1 DEF ToAction, ToolAction, ActionOf
    <2> QED
      BY <1>1, <2>1 DEF Given, Get
  <1>2. CASE q.domain = "finance"
    BY <1>2, TransferAmount DEF ToAction
  <1>3. CASE q.domain = "quantum"
    <2>1. ToAction(q.domain, q.raw).payload =
              [backend |-> Get(q.raw, "backend", ""), shots |-> Get(q.raw, "shots", 0),
               circuit_id |-> Get(q.raw, "circuit_id", "")]
      BY <1>3 DEF ToAction, JobAction, ActionOf
    <2>2. "amount" \notin DOMAIN ToAction(q.domain, q.raw).payload
      BY <2>1
    <2> QED
      BY <1>3, <2>2 DEF Given
  <1> QED
    BY <1>1, <1>2, <1>3, AmountAssumption DEF Domains

\* Every adapter's packet is charged the number its request gave.
LEMMA ChargedTheGiven ==
    ASSUME AdapterIInv, charge # Nothing
    PROVE  /\ Given(request).type = "number" => charge.spend = ToFloat(Given(request))
           /\ Given(request).type # "number" => charge.spend = 0
  <1>1. /\ request \in Requests /\ packet = ToAction(request.domain, request.raw)
        /\ packet # Failed /\ charge.spend = DefaultCost(packet)
    BY DEF AdapterIInv, HasPacket
  <1>2. IF "amount" \in DOMAIN packet.payload THEN packet.payload["amount"] = Given(request)
        ELSE Given(request) = Zero
    BY <1>1, PacketAmount
  <1>3. Zero.type = "number" /\ ToFloat(Zero) = 0
    BY AmountAssumption DEF Zero, ToFloat
  <1> QED
    BY <1>1, <1>2, <1>3 DEF DefaultCost

\* A transfer is rated by its amount, where that can be read.
LEMMA TransferRisk ==
    ASSUME NEW q \in Requests, q.domain = "finance", MoneyAction(q.raw) # Failed
    PROVE  LET a == MoneyAction(q.raw)
               x == IF Given(q).value = NotANumber THEN 0 ELSE ToFloat(Given(q))
           IN /\ AmountOf(a) = x
              /\ MoneyRisk(a) = Failed <=> x = Overflow
              /\ x # Overflow => MoneyRisk(a).blast_radius = AmountBlast(x)
  <1> DEFINE a == MoneyAction(q.raw)
             x == IF Given(q).value = NotANumber THEN 0 ELSE ToFloat(Given(q))
  <1>1. AmountOf(a) = x
    BY TransferAmount DEF AmountOf, Get
  <1> HIDE DEF a, x
  <1>2. ASSUME NEW rev, NEW blast, NEW sens
        PROVE  Risk(rev, blast, sens) # Failed /\ Risk(rev, blast, sens).blast_radius = blast
    <2>1. "blast_radius" \in DOMAIN Risk(rev, blast, sens) /\ Risk(rev, blast, sens).blast_radius = blast
      BY DEF Risk
    <2> QED
      BY <2>1 DEF Failed
  <1>3. MoneyRisk(a) = IF x = Overflow THEN Failed
                       ELSE Risk(10, AmountBlast(x), Sensitivity(a, 70))
    BY <1>1 DEF MoneyRisk
  <1> QED
    BY <1>1, <1>2, <1>3 DEF a, x

\* The budget and the risk read one amount.
LEMMA AdaptersCharge ==
    ASSUME AdapterIInv
    PROVE  ChargedAsRated
  <1> SUFFICES ASSUME charge # Nothing
               PROVE  /\ Given(request).type = "number" => charge.spend = ToFloat(Given(request))
                      /\ Given(request).type # "number" => charge.spend = 0
                      /\ request.domain = "finance" /\ profile # Nothing =>
                           /\ Given(request).type = "number" => (charge.spend = Overflow <=> profile = Failed)
                           /\ charge.spend \notin {0, Overflow} =>
                                profile.risk.blast_radius = AmountBlast(charge.spend)
    BY DEF ChargedAsRated
  <1>1. /\ Given(request).type = "number" => charge.spend = ToFloat(Given(request))
        /\ Given(request).type # "number" => charge.spend = 0
    BY ChargedTheGiven
  <1>2. ASSUME request.domain = "finance", profile # Nothing
        PROVE  /\ Given(request).type = "number" => (charge.spend = Overflow <=> profile = Failed)
               /\ charge.spend \notin {0, Overflow} =>
                    profile.risk.blast_radius = AmountBlast(charge.spend)
    <2>1. /\ request \in Requests /\ packet = MoneyAction(request.raw) /\ packet # Failed
          /\ profile = Failed <=> MoneyRisk(packet) = Failed
          /\ profile # Failed => profile.risk = MoneyRisk(packet)
      BY <1>2 DEF AdapterIInv, HasPacket, ToAction, RiskProfile
    <2> DEFINE x == IF Given(request).value = NotANumber THEN 0 ELSE ToFloat(Given(request))
    <2>2. /\ MoneyRisk(packet) = Failed <=> x = Overflow
          /\ x # Overflow => MoneyRisk(packet).blast_radius = AmountBlast(x)
      BY <1>2, <2>1, TransferRisk
    <2>3. Given(request).type = "number" => Given(request).value # NotANumber
      BY <1>2, <2>1, TransferAmount, AmountAssumption DEF IsAmount
    <2>4. Overflow # 0
      BY AmountAssumption
    <2> HIDE DEF x
    <2> QED
      BY <1>1, <2>1, <2>2, <2>3, <2>4 DEF x
  <1> QED
    BY <1>1, <1>2

\* What is blasted, up to the sign.
LEMMA BucketsGrow ==
    ASSUME NEW x \in Int, NEW y \in Int, x <= y
    PROVE  Bucket(x) <= Bucket(y)
  BY DEF Bucket

\* A larger amount, of either sign, or one with no bound, is rated no lower.
LEMMA BlastGrows ==
    ASSUME NEW x \in Int \cup {NaN, Infinite}, NEW y \in Int \cup {NaN, Infinite},
           x \in {NaN, Infinite} \/ (x \in Int /\ y \in Int /\ (y \in -x..x \/ y \in x..-x))
    PROVE  AmountBlast(y) <= AmountBlast(x)
  <1>1. AmountBlast(y) <= 100
    BY DEF AmountBlast, Bucket
  <1>2. CASE x \in {NaN, Infinite}
    BY <1>1, <1>2 DEF AmountBlast
  <1>3. CASE x \notin {NaN, Infinite}
    <2> DEFINE mx == IF x < 0 THEN -x ELSE x
               my == IF y < 0 THEN -y ELSE y
    <2>1. mx \in Int /\ my \in Int /\ my <= mx
      BY <1>3
    <2>2. y \notin {NaN, Infinite}
      BY <1>3, AmountAssumption
    <2>3. AmountBlast(x) = Bucket(mx) /\ AmountBlast(y) = Bucket(my)
      BY <1>3, <2>2 DEF AmountBlast
    <2> HIDE DEF mx, my
    <2> QED
      BY <2>1, <2>3, BucketsGrow
  <1> QED
    BY <1>2, <1>3

\* What a transfer is rated by, when it is rated.
LEMMA AmountRead ==
    ASSUME NEW q \in Requests, q.domain = "finance", MoneyAction(q.raw) # Failed,
           AmountOf(MoneyAction(q.raw)) # Overflow
    PROVE  /\ AmountOf(MoneyAction(q.raw)) \in Int \cup {NaN, Infinite}
           /\ Given(q).value \in Int => AmountOf(MoneyAction(q.raw)) = Given(q).value
  <1> DEFINE g == Given(q)
  <1>1. AmountOf(MoneyAction(q.raw)) = IF g.value = NotANumber THEN 0 ELSE ToFloat(g)
    BY TransferRisk
  <1>2. IsAmount(g)
    BY TransferAmount
  <1> HIDE DEF g
  <1>3. g.value \in Int \cup {NaN, Infinite, NotANumber, Overflow}
    BY <1>2 DEF IsAmount
  <1>4. ToFloat(g) \in {Overflow, g.value}
    BY DEF ToFloat
  <1> QED
    BY <1>1, <1>3, <1>4, AmountAssumption DEF g

\* An amount no larger than one that float() takes is taken too.
LEMMA SmallerIsRead ==
    ASSUME NEW q \in Requests, q.domain = "finance", MoneyAction(q.raw) # Failed,
           NEW r \in Requests, r.domain = "finance", MoneyAction(r.raw) # Failed,
           AmountOf(MoneyAction(q.raw)) \in Int, Given(r).value \in Int,
           LET x == AmountOf(MoneyAction(q.raw)) y == Given(r).value IN y \in -x..x \/ y \in x..-x
    PROVE  AmountOf(MoneyAction(r.raw)) # Overflow
  <1> DEFINE x == AmountOf(MoneyAction(q.raw))
             g == Given(q)
             h == Given(r)
  <1>1. /\ x = IF g.value = NotANumber THEN 0 ELSE ToFloat(g)
        /\ AmountOf(MoneyAction(r.raw)) = IF h.value = NotANumber THEN 0 ELSE ToFloat(h)
        /\ IsAmount(g) /\ x \in Int /\ h.value \in Int /\ (h.value \in -x..x \/ h.value \in x..-x)
    BY TransferRisk, TransferAmount
  <1> HIDE DEF x, g, h
  <1>2. x \in (-MaxFloat)..MaxFloat
    <2>1. CASE g.value = NotANumber
      BY <1>1, <2>1, AmountAssumption
    <2>2. CASE g.value # NotANumber /\ g.type = "number"
      BY <1>1, <2>2, AmountAssumption DEF ToFloat
    <2>3. CASE g.value # NotANumber /\ g.type # "number"
      <3>1. x = g.value
        BY <1>1, <2>3 DEF ToFloat
      <3>2. g.type = "bool" \/ g.type = "other"
        BY <1>1, <2>3 DEF IsAmount
      <3> QED
        BY <1>1, <3>1, <3>2, AmountAssumption DEF IsAmount
    <2> QED
      BY <2>1, <2>2, <2>3
  <1>3. h.value \in (-MaxFloat)..MaxFloat
    BY <1>1, <1>2, AmountAssumption
  <1>4. ToFloat(h) = h.value
    BY <1>3 DEF ToFloat
  <1> QED
    BY <1>1, <1>3, <1>4, AmountAssumption

\* The finance adapter rates by the amount it took.
LEMMA AdaptersRateUp ==
    ASSUME AdapterIInv
    PROVE  LargerIsNotSafer
  <1> DEFINE x == AmountOf(packet)
             a(q) == MoneyAction(q.raw)
             y(q) == Given(q).value
             smaller(q) == y(q) \in Int /\ x \in Int /\ (y(q) \in -x..x \/ y(q) \in x..-x)
  <1> SUFFICES ASSUME request.domain = "finance", profile \notin {Nothing, Failed},
                      NEW q \in Requests, q.domain = "finance", a(q) # Failed
               PROVE  /\ smaller(q) => MoneyRisk(a(q)) # Failed
                      /\ (smaller(q) \/ x \in {NaN, Infinite}) /\ MoneyRisk(a(q)) # Failed =>
                             MoneyRisk(a(q)).blast_radius <= profile.risk.blast_radius
    BY DEF LargerIsNotSafer
  <1>1. /\ request \in Requests /\ packet = MoneyAction(request.raw) /\ packet # Failed
        /\ MoneyRisk(packet) # Failed /\ profile.risk = MoneyRisk(packet)
    BY DEF AdapterIInv, HasPacket, ToAction, RiskProfile
  <1>2. x # Overflow /\ MoneyRisk(packet).blast_radius = AmountBlast(x)
    BY <1>1, TransferRisk
  <1>3. x \in Int \cup {NaN, Infinite}
    BY <1>1, <1>2, AmountRead
  <1>4. /\ MoneyRisk(a(q)) = Failed <=> AmountOf(a(q)) = Overflow
        /\ AmountOf(a(q)) # Overflow => MoneyRisk(a(q)).blast_radius = AmountBlast(AmountOf(a(q)))
    BY TransferRisk
  <1>5. AmountOf(a(q)) # Overflow =>
            /\ AmountOf(a(q)) \in Int \cup {NaN, Infinite}
            /\ y(q) \in Int => AmountOf(a(q)) = y(q)
    BY AmountRead
  <1>6. smaller(q) => AmountOf(a(q)) # Overflow
    BY <1>1, SmallerIsRead
  <1> DEFINE z == AmountOf(a(q))
             t == y(q)
  <1>7. ASSUME smaller(q) \/ x \in {NaN, Infinite}, z # Overflow
        PROVE  AmountBlast(z) <= AmountBlast(x)
    <2>1. z \in Int \cup {NaN, Infinite} /\ (t \in Int => z = t)
      BY <1>5, <1>7
    <2>2. x \in {NaN, Infinite} \/ (x \in Int /\ t \in Int /\ (t \in -x..x \/ t \in x..-x))
      BY <1>7
    <2> HIDE DEF z, t, x
    <2>3. x \in {NaN, Infinite} \/ (x \in Int /\ z \in Int /\ (z \in -x..x \/ z \in x..-x))
      BY <2>1, <2>2
    <2> QED
      BY <1>3, <2>1, <2>3, BlastGrows
  <1> QED
    BY <1>1, <1>2, <1>4, <1>6, <1>7

-----------------------------------------------------------------------------
(* The gates of the build. *)

\* No attack of the suite that runs has ended it, and none is booked that does not count.
Counted ==
    \A i \in DOMAIN attacks :
        /\ ~ Kills(Head(job), attacks[i])
        /\ escapes = 0 => ~ Booked(Head(job), attacks[i])

BuildIInv ==
    /\ job \in Seq(Suites \cup {"boundaries"})
    /\ attacks \in Seq(Ends) /\ escapes \in Nat
    /\ imports \subseteq Packages \X Packages
    /\ Counted
    /\ (\E run \in passed : run[1] = "boundaries") => Violations = {}
    /\ CrashesAreNoPass

\* No step has run.
LEMMA BuildStarts ==
    ASSUME BuildInit
    PROVE  BuildIInv
  <1>1. job \in Seq(Suites \cup {"boundaries"})
    <2>1. /\ <<"boundaries">> \in Seq(Suites \cup {"boundaries"})
          /\ <<"boundaries", "components", "red_team">> \in Seq(Suites \cup {"boundaries"})
          /\ \A s \in Suites : <<s>> \in Seq(Suites \cup {"boundaries"})
      BY DEF Suites
    <2> QED
      BY <2>1 DEF BuildInit
  <1>2. imports \subseteq Packages \X Packages
    <2>1. CASE imports \in Trees
      <3> DEFINE edges == {e \in Packages \X Packages : e[1] # e[2]}
      <3>1. ASSUME NEW t \in [1..MaxImports -> edges], imports = Range(t)
            PROVE  imports \subseteq edges
        BY <3>1 DEF Range
      <3>2. edges \subseteq Packages \X Packages
        OBVIOUS
      <3>3. imports = {} \/ \E t \in [1..MaxImports -> edges] : imports = Range(t)
        BY <2>1 DEF Trees
      <3> HIDE DEF edges
      <3> QED
        BY <3>1, <3>2, <3>3
    <2>2. CASE imports = {}
      BY <2>2
    <2> QED
      BY <2>1, <2>2 DEF BuildInit
  <1>3. attacks = <<>> /\ escapes = 0 /\ passed = {}
    BY DEF BuildInit, BuildStart
  <1> QED
    BY <1>1, <1>2, <1>3 DEF BuildIInv, Counted, CrashesAreNoPass

\* A step exits; what is on record of it holds.
LEMMA ExitKept ==
    ASSUME BuildIInv, job # <<>>, NEW code, Exits(code),
           code = 0 /\ Head(job) = "boundaries" => Violations = {},
           code = 0 /\ Head(job) \in Suites =>
               /\ Len(attacks) = MaxAttacks
               /\ Range(attacks) \subseteq
                     IF Head(job) \in {"notary", "repro"} THEN Ends \ {"escaped"} ELSE {"contained"}
    PROVE  BuildIInv'
  <1>1. job' \in Seq(Suites \cup {"boundaries"})
    BY DEF Exits, BuildIInv
  <1>2. attacks' = <<>> /\ escapes' = 0 /\ UNCHANGED tree
    BY DEF Exits
  <1>3. Violations' = Violations /\ imports' \subseteq Packages \X Packages
    BY <1>2 DEF Violations, tree, BuildIInv
  <1>4. passed' \in {passed, passed \cup {<<Head(job), attacks>>}}
        /\ (code # 0 => passed' = passed)
    BY DEF Exits
  <1>5. (\E run \in passed' : run[1] = "boundaries") => Violations = {}
    BY <1>4 DEF BuildIInv
  <1>6. CrashesAreNoPass'
    <2> SUFFICES ASSUME NEW run \in passed', run[1] \in Suites
                 PROVE  /\ Len(run[2]) = MaxAttacks
                        /\ Range(run[2]) \subseteq
                              IF run[1] \in {"notary", "repro"} THEN Ends \ {"escaped"} ELSE {"contained"}
      BY DEF CrashesAreNoPass
    <2>1. CASE run \in passed
      BY <2>1 DEF BuildIInv, CrashesAreNoPass
    <2>2. CASE run \notin passed
      <3>1. code = 0 /\ run = <<Head(job), attacks>>
        BY <1>4, <2>2
      <3>2. run[1] = Head(job) /\ run[2] = attacks
        BY <3>1
      <3> QED
        BY <3>1, <3>2
    <2> QED
      BY <2>1, <2>2
  <1> QED
    BY <1>1, <1>2, <1>3, <1>5, <1>6 DEF BuildIInv, Counted

\* What a step of the build does.
LEMMA BuildKept ==
    ASSUME BuildIInv, BuildNext
    PROVE  BuildIInv'
  <1>1. CASE CheckBoundaries
    <2>1. "boundaries" \notin Suites
      BY DEF Suites
    <2> QED
      BY <1>1, <2>1, ExitKept DEF CheckBoundaries
  <1>2. CASE Finish
    <2>1. job # <<>> /\ Head(job) \in Suites /\ Len(attacks) = MaxAttacks /\ Head(job) # "boundaries"
      BY <1>2 DEF Finish, Suites
    <2>2. ASSUME escapes = 0, NEW i \in DOMAIN attacks
          PROVE  attacks[i] \in IF Head(job) \in {"notary", "repro"} THEN Ends \ {"escaped"} ELSE {"contained"}
      <3>1. /\ attacks[i] \in Ends /\ ~ Kills(Head(job), attacks[i]) /\ ~ Booked(Head(job), attacks[i])
        BY <2>2 DEF BuildIInv, Counted
      <3> QED
        BY <2>1, <3>1 DEF Kills, Booked, Ends, Suites
    <2>3. escapes = 0 =>
              Range(attacks) \subseteq
                  IF Head(job) \in {"notary", "repro"} THEN Ends \ {"escaped"} ELSE {"contained"}
      BY <2>2 DEF Range
    <2>4. CASE escapes = 0
      BY <1>2, <2>1, <2>3, <2>4, ExitKept DEF Finish
    <2>5. CASE escapes # 0
      BY <1>2, <2>1, <2>5, 1 # 0, ExitKept DEF Finish
    <2> QED
      BY <2>4, <2>5
  <1>3. ASSUME NEW end \in Ends, Attack(end)
        PROVE  BuildIInv'
    <2>1. CASE Kills(Head(job), end)
      BY <1>3, <2>1, 1 # 0, ExitKept DEF Attack
    <2>2. CASE ~ Kills(Head(job), end)
      <3>1. /\ attacks' = Append(attacks, end)
            /\ escapes' = escapes + (IF Booked(Head(job), end) THEN 1 ELSE 0)
            /\ UNCHANGED <<tree, job, passed>>
        BY <1>3, <2>2 DEF Attack
      <3>2. /\ attacks' \in Seq(Ends) /\ escapes' \in Nat
            /\ escapes' = 0 => escapes = 0 /\ ~ Booked(Head(job), end)
        BY <3>1 DEF BuildIInv
      <3>3. \A i \in DOMAIN attacks' : attacks'[i] = end \/ (i \in DOMAIN attacks /\ attacks'[i] = attacks[i])
        BY <3>1 DEF BuildIInv
      <3>4. Counted'
        BY <2>2, <3>1, <3>2, <3>3 DEF BuildIInv, Counted
      <3>5. Violations' = Violations
        BY <3>1 DEF Violations, tree
      <3> QED
        BY <3>1, <3>2, <3>4, <3>5 DEF BuildIInv, tree, CrashesAreNoPass
    <2> QED
      BY <2>1, <2>2
  <1> QED
    BY <1>1, <1>2, <1>3 DEF BuildNext

\* A tree with no violation: what the kernel reaches by links that were looked at is the
\* kernel, the theory and this package, and what the theory reaches the theory and it.
LEMMA CleanIsIsolated ==
    ASSUME BuildIInv
    PROVE  ChainsPassUnread
  <1> SUFFICES ASSUME \E run \in passed : run[1] = "boundaries"
               PROVE  ChainsPassUnread
    BY DEF ChainsPassUnread
  <1> DEFINE Looked(e) == e[1] \in (roots \cap Layers) \ unparsable
             Kernel == {"authgate", "fdk", "robotics", "philosophy", "authgate_gate"}
             Theory == {"philosophy", "authgate_gate"}
  <1>1. Violations = {} /\ imports \subseteq Packages \X Packages
    BY DEF BuildIInv
  <1>2. \A e \in imports : Looked(e) => e[2] \notin Layers \ {e[1]} \/ ~ ForbiddenEdge(e[1], e[2])
    BY <1>1 DEF Violations
  <1>3. \A e \in imports : e[2] \in Packages
    BY <1>1
  <1>4. ASSUME NEW e \in imports, e[1] \in Kernel, e[2] \notin Kernel
        PROVE  ~ Looked(e)
    BY <1>2, <1>3, <1>4 DEF ForbiddenEdge, Forbidden, Packages, Layers
  <1>5. ASSUME NEW e \in imports, e[1] \in Theory, e[2] \notin Theory
        PROVE  ~ Looked(e)
    BY <1>2, <1>3, <1>5 DEF ForbiddenEdge, Forbidden, Packages, Layers
  <1>6. Kernel \in SUBSET Packages /\ Theory \in SUBSET Packages
    BY DEF Packages, Layers
  <1>7. /\ {"authgate", "fdk", "robotics"} \subseteq Kernel
        /\ Kernel \cap {"quantum_research", "observability"} = {}
        /\ {"philosophy"} \subseteq Theory /\ Theory \cap (Layers \ {"philosophy"}) = {}
    BY DEF Layers
  <1> HIDE DEF Kernel, Theory
  <1> QED
    BY <1>4, <1>5, <1>6, <1>7 DEF ChainsPassUnread

-----------------------------------------------------------------------------
(* All of them. *)

GatewayIInv == AgentIInv /\ AdapterIInv /\ BuildIInv

\* A machine that rests keeps its invariant.
LEMMA AdapterRests ==
    ASSUME AdapterIInv, UNCHANGED adapterVars
    PROVE  AdapterIInv'
  BY DEF adapterVars, AdapterIInv, HasPacket

\* The same.
LEMMA BuildRests ==
    ASSUME BuildIInv, UNCHANGED buildVars
    PROVE  BuildIInv'
  BY DEF buildVars, tree, BuildIInv, Counted, Violations, CrashesAreNoPass

allVars == <<machine, vars, gateVars, adapterVars, tokenVars, buildVars, serviceVars>>

\* One machine runs and keeps its own invariant, the others rest.
THEOREM GatewayInvariant == GatewaySpec => []GatewayIInv
  <1>1. GatewayInit => GatewayIInv
    <2> SUFFICES ASSUME GatewayInit
                 PROVE  GatewayIInv
      OBVIOUS
    <2>1. AgentIInv /\ AdapterIInv
      BY AgentStarts, AdapterStarts DEF GatewayInit
    <2>2. BuildIInv
      <3>1. CASE Rests("build")
        <4>1. roots = {} /\ imports = {} /\ job = <<>> /\ attacks = <<>> /\ escapes = 0 /\ passed = {}
          BY <3>1 DEF GatewayInit, BuildStart
        <4> QED
          BY <4>1 DEF BuildIInv, Counted, CrashesAreNoPass
      <3>2. CASE ~ Rests("build")
        BY <3>2, BuildStarts DEF GatewayInit
      <3> QED
        BY <3>1, <3>2
    <2> QED
      BY <2>1, <2>2 DEF GatewayIInv
  <1>2. GatewayIInv /\ [GatewayNext]_allVars => GatewayIInv'
    <2> SUFFICES ASSUME GatewayIInv, [GatewayNext]_allVars
                 PROVE  GatewayIInv'
      OBVIOUS
    <2>1. GateNext \/ UNCHANGED gateVars
      BY DEF GatewayNext, allVars
    <2>2. AdapterNext \/ UNCHANGED adapterVars
      BY DEF GatewayNext, allVars
    <2>3. BuildNext \/ UNCHANGED buildVars
      BY DEF GatewayNext, allVars
    <2>4. AgentIInv'
      BY <2>1, AgentKept, AgentRests DEF GatewayIInv
    <2>5. AdapterIInv'
      BY <2>2, AdapterKept, AdapterRests DEF GatewayIInv
    <2>6. BuildIInv'
      BY <2>3, BuildKept, BuildRests DEF GatewayIInv
    <2> QED
      BY <2>4, <2>5, <2>6 DEF GatewayIInv
  <1>3. GatewaySpec => GatewayInit /\ [][GatewayNext]_allVars
    BY DEF GatewaySpec, allVars
  <1> QED
    BY <1>1, <1>2, <1>3, PTL

\* The controlled gate and the notary behave, among the others, as they do alone: what
\* is proved of them alone holds here.
THEOREM MachinesAlone ==
    /\ GatewaySpec => Spec
    /\ GatewaySpec => ServiceInit /\ [][ServiceNext]_serviceVars
  <1>1. GatewayInit => Init /\ ServiceInit
    BY DEF GatewayInit
  <1>2. [GatewayNext]_allVars => [Next]_vars
    BY DEF GatewayNext, allVars
  <1>3. [GatewayNext]_allVars => [ServiceNext]_serviceVars
    BY DEF GatewayNext, allVars
  <1>4. GatewaySpec => GatewayInit /\ [][GatewayNext]_allVars
    BY DEF GatewaySpec, allVars
  <1> QED
    BY <1>1, <1>2, <1>3, <1>4, PTL DEF Spec

\* Whichever gate it went through, what ran has its permit on record, though logs fail,
\* tools raise and agents share them (gate.py:26-27, controlled_gate.py:17).
THEOREM NothingRunsUnloggedCorrect == GatewaySpec => []NothingRunsUnlogged
  <1>1. GatewayIInv => PermitOnRecord
    BY DEF GatewayIInv, AgentIInv
  <1> QED
    BY <1>1, GatewayInvariant, MachinesAlone, RunsAreLoggedCorrect, PTL DEF NothingRunsUnlogged

AllowedIsMinimal ==
    \A x \in delivered :
        x.verdict = "allow" =>
            /\ \A i \in Mine(x) : Screened(x.ruled_on, Rules[i])
            /\ x.agent \in ActionAgents => SameTop(x.ruled_on, x.got)

\* What the first gate let through as it came had nothing any rule would take out, and
\* an Action's top level is run as it was ruled on: the half of MinimisedStaysMinimised
\* that asks nothing of the texts (policy.py:59-63, action.py:73-75).
THEOREM AllowedIsMinimalCorrect == GatewaySpec => []AllowedIsMinimal
  <1>1. GatewayIInv => AllowedIsMinimal
    BY AllowedWasMinimal DEF GatewayIInv, AgentIInv, AllowedIsMinimal
  <1> QED
    BY <1>1, GatewayInvariant, PTL

\* What was taken out of a payload stays out, for any payloads of any depth, any rules
\* and any patterns, in whatever order the secrets are scrubbed, whatever agents write
\* into a payload they handed in, if none of them writes [REDACTED] itself
\* (policy.py:27-31, 59-63, 79-82).
THEOREM MinimisedStaysMinimisedCorrect ==
    ASSUME MarkIsFresh
    PROVE  GatewaySpec => []MinimisedStaysMinimised
  <1>1. GatewayIInv => MinimisedStaysMinimised
    BY IsMinimised DEF GatewayIInv, AgentIInv
  <1> QED
    BY <1>1, GatewayInvariant, PTL

\* What a packet of any domain is charged is the number its request gave, and what a
\* transfer is rated by, for all numbers, NaN, the infinities and what is too large
\* (adapter.py:211-213, runtime.py:53-65).
THEOREM ChargedAsRatedCorrect == GatewaySpec => []ChargedAsRated
  <1>1. GatewayIInv => ChargedAsRated
    BY AdaptersCharge DEF GatewayIInv
  <1> QED
    BY <1>1, GatewayInvariant, PTL

\* No transfer that is rated is rated safer than a smaller one, for all amounts, of either
\* sign, without bound, and NaN; one too large for float() is not rated (adapter.py:221-236).
THEOREM LargerIsNotSaferCorrect == GatewaySpec => []LargerIsNotSafer
  <1>1. GatewayIInv => LargerIsNotSafer
    BY AdaptersRateUp DEF GatewayIInv
  <1> QED
    BY <1>1, GatewayInvariant, PTL

\* What a zero shows: any chain of imports out of the kernel or the theory has a link
\* that the check did not look at, however many imports there are; and a suite of any
\* number of attacks that passes ran them all and let none escape, nor, but for the
\* notary's and the budget race's, crash (policy.json:13-19, ci.yml:4-5, adversary.py:787).
THEOREM ZeroShowsCorrect == GatewaySpec => []ZeroShows
  <1>1. GatewayIInv => ZeroShows
    BY CleanIsIsolated DEF GatewayIInv, BuildIInv, ZeroShows
  <1> QED
    BY <1>1, GatewayInvariant, PTL
=============================================================================
