----------------------------- MODULE BuildGates -----------------------------
(***************************************************************************)
(* What keeps a change out: check_boundaries.py over the imports of a      *)
(* source tree with boundaries/policy.json, and the runners of the         *)
(* red-team suites (redteam/), two of which continuous integration runs    *)
(* after the boundaries (.github/workflows/ci.yml:45-52).                  *)
(*                                                                         *)
(* A package stands for its files, an attack for what becomes of it.       *)
(***************************************************************************)
EXTENDS Integers, Sequences, FiniteSets, Functions

CONSTANTS
    MaxImports,   \* bound: the imports between packages of a tree
    MaxAttacks    \* bound: the attacks of a suite

ASSUME BuildBound == MaxImports \in Nat /\ MaxAttacks \in Nat \ {0}

VARIABLES
    roots,        \* the packages the boundary check is pointed at
    imports,      \* the tree: <<package, package>>
    unparsable,   \* packages whose files are no Python
    job,          \* the steps still to run; one that fails ends the job
    attacks,      \* what became of the attacks of the suite that runs, in order
    escapes,      \* how many of them it has booked
    passed        \* history: <<step, its attacks>> of the steps that exited 0

tree == <<roots, imports, unparsable>>
buildVars == <<tree, job, attacks, escapes, passed>>

-----------------------------------------------------------------------------

Layers == {"philosophy", "authgate", "fdk", "robotics", "quantum_research", "observability"}

\* A package of each layer, and this one: no layer names it.
Packages == Layers \cup {"authgate_gate"}

Forbidden ==
    ({"robotics", "authgate", "fdk"} \X {"quantum_research", "observability"})
        \cup {<<"philosophy", "*">>}

\* slip: "*" is looked up like any other layer
ForbiddenByName(src, dst) == <<src, dst>> \in Forbidden

ForbiddenEdge(src, dst) == <<src, dst>> \in Forbidden \/ <<src, "*">> \in Forbidden

\* Files of no layer are not looked at, nor those that do not parse; an import of the
\* file's own layer, or of a package no layer names, is nobody's business.
Violations ==
    {e \in imports : /\ e[1] \in (roots \cap Layers) \ unparsable
                     /\ e[2] \in Layers \ {e[1]}
                     /\ ForbiddenEdge(e[1], e[2])}

\* A step has exited.
Exits(code) ==
    /\ job' = IF code = 0 THEN Tail(job) ELSE <<>>
    /\ passed' = IF code = 0 THEN passed \cup {<<Head(job), attacks>>} ELSE passed
    /\ attacks' = <<>> /\ escapes' = 0
    /\ UNCHANGED tree

CheckBoundaries ==
    /\ job # <<>> /\ Head(job) = "boundaries"
    /\ Exits(IF Violations = {} THEN 0 ELSE 1)

-----------------------------------------------------------------------------

Suites == {"components", "red_team", "adversary", "notary", "repro"}

\* The attack is contained, escapes, raises an Exception, or something that is none.
Ends == {"contained", "escaped", "raises", "aborts"}

\* slip: a crash is no escape
BookedSeen(suite, end) == end = "escaped"

\* What a runner counts as an escape: a crash too, but not the notary's, nor the
\* budget race, whose attackers are threads that die unnoticed.
Booked(suite, end) ==
    \/ end = "escaped"
    \/ end = "raises" /\ suite \in {"red_team", "components", "adversary"}
    \/ end = "aborts" /\ suite = "red_team"

\* What is no Exception ends the other runners there and then.
Kills(suite, end) == end = "aborts" /\ suite \notin {"red_team", "repro"}

Attack(end) ==
    /\ job # <<>> /\ Head(job) \in Suites /\ Len(attacks) < MaxAttacks
    /\ IF Kills(Head(job), end) THEN Exits(1)
       ELSE /\ attacks' = Append(attacks, end)
            /\ escapes' = escapes + (IF Booked(Head(job), end) THEN 1 ELSE 0)
            /\ UNCHANGED <<tree, job, passed>>

Finish ==
    /\ job # <<>> /\ Head(job) \in Suites /\ Len(attacks) = MaxAttacks
    /\ Exits(IF escapes = 0 THEN 0 ELSE 1)

-----------------------------------------------------------------------------

Trees ==
    LET edges == {e \in Packages \X Packages : e[1] # e[2]}
    IN {{}} \cup {Range(t) : t \in [1..MaxImports -> edges]}

BuildStart == attacks = <<>> /\ escapes = 0 /\ passed = {}

\* boundaries.yml, or the check by hand; ci.yml; a suite by hand.
BuildInit ==
    /\ \/ /\ job = <<"boundaries">>
          /\ roots \in {Packages, {"authgate"}}
          /\ imports \in Trees
          /\ unparsable \in {{}} \cup {{p} : p \in Layers}
       \/ /\ job \in {<<"boundaries", "components", "red_team">>} \cup {<<s>> : s \in Suites}
          /\ roots = {"authgate_gate"}
          /\ imports = {} /\ unparsable = {}
    /\ BuildStart

BuildNext == CheckBoundaries \/ Finish \/ \E end \in Ends : Attack(end)

-----------------------------------------------------------------------------

\* What the boundary check's zero shows, and no more: a chain of imports from the
\* gate, the kernel or the robots to quantum research or observability, or from the
\* theory to anything else, has a link that the check did not look at - one in a package
\* it was not pointed at, that no layer names, or that is no Python.  No rule speaks of
\* chains, the check looks at single imports (policy.json:13-19, check_boundaries.py:60-79).
ChainsPassUnread ==
    LET Looked(e) == e[1] \in (roots \cap Layers) \ unparsable
        CutOff(from, others) ==
            \E held \in SUBSET Packages :
                /\ from \subseteq held /\ held \cap others = {}
                /\ \A e \in imports : e[1] \in held /\ e[2] \notin held => ~ Looked(e)
    IN (\E run \in passed : run[1] = "boundaries") =>
         /\ CutOff({"authgate", "fdk", "robotics"}, {"quantum_research", "observability"})
         /\ CutOff({"philosophy"}, Layers \ {"philosophy"})

\* A suite that exits 0 ran all its attacks, and none was seen to escape; one of the
\* build's two, or the adversary's, had none that crashed either, which would have shown
\* nothing (ci.yml:4-5, red_team.py:135-136, red_team_components.py:81, adversary.py:787).
CrashesAreNoPass ==
    \A run \in passed :
        run[1] \in Suites =>
            /\ Len(run[2]) = MaxAttacks
            /\ Range(run[2]) \subseteq
                  IF run[1] \in {"notary", "repro"} THEN Ends \ {"escaped"} ELSE {"contained"}

\* What a step that exits 0 shows.
ZeroShows == ChainsPassUnread /\ CrashesAreNoPass
=============================================================================
