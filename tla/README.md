# Formal model of authgate-gate

TLA+ models, TLC configurations and TLAPS proofs for the enforcement stack in
`src/authgate_gate/`. Line references are to that directory unless a path is
given.

## 1. The system

An agent proposes an `Action`; `ControlledGate` rules on it and, when every
layer permits, the caller runs a tool. All state is in one process, except the
audit log (a file) and the notary (another process with its own file).

| part | state | operations | hard behaviour |
|---|---|---|---|
| `runtime.py` RuntimeMonitor / RuntimeLayer | `_stopped`, session map, per session: steps, recent ordinals, costs, nonces, label bindings | `stop`, `state` (double-checked get-or-create), `check` (five rules, commit on ALLOW) | concurrent callers, two kinds of lock, a flag read without one, a cost function that may raise |
| `controlled_gate.py` ControlledGate | none of its own | `enforce` (capability, purpose, runtime, each followed by an audit record), `dispatch` | one step of several failing after an earlier one committed; grants that change during a call |
| `audit_chain.py` HashChainedAudit | `_next_seq`, `_last_hash`, the log file | `record`, `verify_detail`, `verify_against_anchor`, reopening | no lock, crash between write and memory, torn line, an anchor that raises |
| `notary.py` NotaryLedger / Server / Client | `_heads`, `_at`, the ledger file | `submit`, `head`, `at`, recovery, `make_anchor` | threaded handlers, fsync, torn final line, lost replies, retries |
| `capability.py` | actor -> capabilities | `grant`, `grant_tool`, `revoke`, `allows` | grants and revocations during a check |
| `policy.py` | the rules, fixed at construction | `evaluate`, redaction | values scrubbed in the order of a set; the first rule that hits is the only one applied |
| `signing.py` | two key files | `load_or_generate`, `sign_head`, `verify_head` | a crash or a full disk between the two files, a write that takes half a key, two processes creating it |
| `gate.py`, `audit.py`, `intent.py`, `agent/agent.py` | an append-only log | the first, single-layer gate and the agent that uses it | an audit write that raises; a payload its caller still holds |
| `action.py`, `normalize.py` | none | construction of packets | tokens that are normalised once by one layer, twice by another |
| `adapter.py` | none | a request in three domains: packet, capabilities, risk, reply | negative, NaN, huge and unreadable amounts; what is rated and what is charged read the same amount apart |
| `boundaries/check_boundaries.py`, `redteam/` | the tree, the attacks booked | what the build asks before a change goes in | a gate that passes because it looked at nothing |

How they interact: `dispatch()` calls the capability registry, the policy and
the runtime layer in turn and `HashChainedAudit.record()` after each; the log
calls its anchor, which is a notary client; the notary's handler threads call
`NotaryLedger.submit()`. Everything is a direct call except the notary's one
request and one reply. Callers are threads: one gate, one monitor and one log
are shared by all of them.

What makes each part correct, and hard:

- **runtime**: no ALLOW takes a session over a limit, whatever interleaves; a
  denial leaves no trace; locks are left on every path; after `stop()` calls drain.
- **controlled gate**: nothing runs unlogged, unauthorised, over a limit, or in a
  form other than the one ruled on, when any step of several fails.
- **audit chain**: lines stay linked across crashes; what verifies is what was
  written; the anchor, the file and memory tell one story.
- **notary**: what was acknowledged stays acknowledged and is never contradicted,
  also as clients see it: lost answers, restarts, time-outs and strangers included.
- **signing**: one notary signs with one key, whatever goes wrong at start-up.
- **redaction**: what a rule takes out under its name is in no text under another.
- **tokens and adapters**: what looks alike is one key; what a packet is charged is
  what its request gave and its risk was rated by; a larger amount is never rated safer.
- **gates of the build**: what exit code 0 shows, of what was looked at.

## 2. Plan

In the order of importance. All of it is built.

| step | modules | composes | abstract specification |
|---|---|---|---|
| 1 runtime | `RuntimePolicy`, `RuntimeMonitor`, `MCRuntime`, `RuntimeMonitorProofs` | | `SessionLedger`, `SessionLedgerProofs` |
| 2 audit log | `AuditChain`, `AuditChainProofs` | the anchor as an environment | |
| 3 notary's ledger | `NotaryLedger`, `MCNotary`, `NotaryLedgerProofs` | | `Witness` |
| 4 gate | `ControlledGate`, `MCGate`, `ControlledGateProofs` | registry, policy, `SessionLedger` for the runtime, the log | `SessionLedger` again, of effects |
| 5 anchored log | `NotaryService`, in `MCAudit`; `NotaryServiceProofs` | the log, its anchor, the notary's threads and an auditor, over `Witness` for the ledger | |
| 6 redaction and the first gate | `Redaction`, `AgentGate`; `AgentGateProofs` | policy, log and tools with agents that write into their payloads | |
| 7 start-up | `SigningKey`, in `MCAudit`; `NotaryServiceProofs` | | |
| 8 names, adapters, the build | `Tokens`, `MCTokens`, `Adapters`, `BuildGates`, in `MCGateway`; `GatewayProofs` | | |
| 9 what scrubbing leaves, for every text | `AgentGateProofs` | | |

`SessionLedger` and `Witness` are each used from both sides: `RuntimeMonitor` is
proved to implement the one and `ControlledGate` takes it as its runtime layer;
`NotaryLedger` is proved to implement the other and `NotaryService` takes it as
the ledger its threads share.

## 3. The modules

**RuntimePolicy** holds the packets and the limits. A packet is a record of what
the layers read: session, nonce, purpose, labels and the answer of `cost_fn`.
Charges are integers, or `NonFinite` for NaN and infinities, or the whole answer
is `Raises`; `Charge` clamps as runtime.py:305-323 does.

**SessionLedger** is the runtime's promise with no locks in it: per session a
list of granted packets, each permitted by the ones before. The whole-history
limits (nonce, steps, budget, purpose, rate) are stated there.

**RuntimeMonitor** is runtime.py. Each caller runs `Check`, the lock-free read of
the kill-switch (`DenyStopped`, `PassKillSwitch`), the double-checked lookup
(`LookUp`, `LockMonitor`, `FindAgain`, `CreateSession`), `LockSession`, then
`Deny` or `Decide` and `Commit`; `Stop` may come between any two. Reading and
writing the session's state are separate steps, so that a missing lock would show.
`heap` is the session objects, `granted` and `spent` are history.

**AuditChain** is audit_chain.py. `record()` is four steps (`Record` reads the
head, `Write`, `Advance`, `Publish`), because it takes no lock. A hash is the
tuple of what is hashed, so equal hashes are equal entries. `Reopen` validates
the file and adopts its tail. The environment crashes, cuts writes short, makes
the sink raise, or alters the file once: a line dropped, doubled, swapped, edited
with or without its hash, or the end lost. Rebuilding all hashes to the end is out
of `verify()`'s reach by audit_chain.py:30-35 and is not among the alterations.

**NotaryLedger** is notary.py:101-184. A submission takes the lock and compares
(`Enter`), writes, fsyncs, remembers and answers. `pages` is the set of contents
that a crash at this moment may leave: what was synced last, anything flushed
since, and the cut-short forms of it. `Recover` replays the file, tolerates a
corrupt last line and refuses the rest. **Witness** is what it promises: a book
that grows one head at a time, in order per chain.

**ControlledGate** is controlled_gate.py with the three reads of `allows()` and
the bindings of the policy. Each call is taken once through
`CheckHeld/CheckWildcard/CheckCapability`, `Evaluate`, `CheckStopped`,
`CheckRuntime`, with `Record` after each layer, then `Execute`. Grants,
revocations and the kill-switch come at any point; the policy, a record (before or
after its line is written) and the tool may raise. `Redacted` may be any packet:
`dataclasses.replace` runs `__post_init__` again, so a redacted packet may name another
session or purpose than the one presented (see `Tokens`); the instance changes its
payload only, the proofs assume nothing. The runtime is an instance of
`SessionLedger`, which the proofs show is what `RuntimeMonitor` implements. One
agent is modelled: agents share nothing in the registry.

**NotaryService** is the rest of notary.py. A connection is a record: who is at it,
what its thread does, the request so far, the answer. Requests come in pieces
(`got`), so that the line limit (`TooLarge`) and the time-out (`Silence`,
`GiveUpReading`) are separate steps; `Serve` is `dispatch()` and `Respond` the
answer, lost when the client is gone. The log (`Log`, `Anchored`) writes a line,
submits its head over a connection of its own and waits 5 s at most
(`GiveUpWaiting`); an auditor asks for the head or for one seq; a stranger drips
bytes and submits heads without the key. The notary restarts, and a power failure
takes lines of the log that were not synced. A head is the sequence of lines it
hashes, so that a witnessed head tells what it is a head of.

**SigningKey** is `Ed25519Signer`: `load_or_generate` as the steps between which a
process can die or a disk be full (`LookForKey`, `CreateKeyFile`, `WriteKey`,
`PublishKey`), for two processes on the same files. signing.py:110 does not look at
what `os.write` returns: on a disk that fills up, `WriteKeyShort` leaves the beginning
of a key on file and the process goes on with the whole.

**Redaction** holds the walks of policy.py over a payload, as operators: a payload
is a function from paths to scalars, so nesting, named fields at any depth, texts
that contain one another and values repeated as numbers can be told apart. A text is
a sequence of letters, and the mark that replaces what is taken out is one letter:
secrets that are pieces of the string `[REDACTED]` are not told apart from others.
`Minimised` is a set: the secrets are scrubbed in the order of a Python set. A pattern
is a set of words, with `\b` at both ends or not, as those of
policies/purpose_policy.json; `FindAll` is `re.findall`, once, before the scrubbing.

**AgentGate** is gate.py with audit.py and agent.py: `Propose`, `PolicyEvaluate`,
`RecordDecision`, `RunTool`, and their failing forms. `Tamper` is the caller
writing into the payload it handed in: any part of an `Intent`, what lies below the
top level of an `Action` (action.py:74 copies the top level).

**Tokens** is normalize.py over classes of characters; the constants say what
Unicode does to each. The state is one token that is normalised again and again,
as it is on its way through Action, registry and monitor. `NFKC` is the algorithm of
UAX 15: `Decompose`, `Order` the combining characters by class, and `Compose`, which
looks past marks of lower classes for the starter (`Meets`). `Looks` is what a reader
sees of a spelling. The classes are those the marks and letters of `MCTokens` stand
for; characters whose case fold is several (U+00DF), and U+0345 and U+037A, where a
fold no longer combines, are in none of them.

**Adapters** has the three adapters one by one (`ToolAction`, `MoneyAction`,
`JobAction`, each with its fields, its defaults and what it raises on): a request is
normalised by the adapter of its domain, then rated, charged (`DefaultCost` of
runtime.py) and answered, in any order. An amount has the type it was given in and the
number, or what else, `float()` reads of it; an integer beyond the float range raises
there (`Overflow`), which adapter.py:284-287 does not catch.

**BuildGates** is check_boundaries.py over trees of packages with the rules of
policy.json, and the runners of the five red-team suites: how each books an attack
that is contained, escapes, or raises, and what it exits with. The attacks
themselves test the other components: the ones that act on a file, a socket or a
name are mapped to the environment action that does the same (`Alter`, `Drip`,
`Stranger`, `Tamper`, `Words`).

**MCAudit** and **MCGateway** put machines that share no state side by side: which
one runs is chosen at the start, the others rest. So one run checks several small
machines, and no state of one is multiplied by those of another.

## 4. The runs

Expected to pass:

| run | instance | what it shows |
|---|---|---|
| `runtime_safety` | 2 callers, 2 sessions, 8 packets that reach every rule, 3 steps, budget 3 | the locked code implements the ledger (`Contract`), refuses only what the history rules out (`DenialsAreJustified`), keeps each limit, never splits a session |
| `runtime_liveness` | the same, rate 2 in a window of 3, 4 steps | `RateIsAStepCap`; every lock is released; after `stop()` calls drain |
| `audit`, the log | 1 writer, 3 entries of 2 bodies, two environments | chain, returned entries, sink and a fresh auditor agree across crashes and a raising sink; what verifies is a beginning of what was written; with short writes, a lost entry always makes `verify()` fail |
| `audit`, the service | 2 connections, the log (2 lines) with an auditor, or (1 line) with a stranger | a record that returned is witnessed for ever, one head to a length, and nothing else is but what the log once was (`WitnessedHistory`); an auditor that is answered hears no less than was witnessed when it asked |
| `audit`, the key | 2 processes, 3 keys, 2 heads, crashes, a full disk, writes cut short | one key signs and is published, and it is on file or the file is refused at every start, unless two first starts overlapped |
| `notary` | 2 connections, 2 chains, seqs 0..1, 2 hashes, 3 lines, three environments | acknowledged and shown heads stand; head is the highest; reopening works; each step is a step of `Witness` |
| `gate_safety`, the gate | 2 calls, 5 packets, 3 capabilities, every initial set of grants | what ran is logged, authorised during the call, and within the session's limits as an atomic ledger; refused packets consume nothing |
| `gate_safety`, the first gate | 2 agents, 10 intents: agent.py's five and five with nested, overlapping, patterned secrets, one that leaves a match, and an unknown tool | what ran has a permit on record though the log may raise; what a rule takes out of a payload stays out, in any order of scrubbing and whatever the caller writes meanwhile |
| `gate_safety`, the adapters | 6 tools, labelled or not, amounts of three types, negative, huge, NaN and unreadable, requests that are refused | a packet is charged the number its request gave, which is what a transfer is rated by; a larger transfer is not rated safer |
| `gate_safety`, the tokens | all words of up to 4 of 11 characters, 3 passes | what looks alike becomes one key, at the second pass at the latest |
| `gate_safety`, the build | trees of up to 2 imports between 7 packages, one of them unparsable; suites of 2 attacks | what a step that exits 0 shows: a forbidden chain of imports has a link that was not looked at; all attacks ran, and no crash was passed off as no escape |
| `gate_safety`, the connections | 2 connections, lines of up to 2 pieces, a stranger | no connection pins a thread (`PartialRequestsEnd`) |

Expected to be violated, each one a disagreement between the code and a sentence
of the repository (quoted in PROJECT.json):

| run | counterexample |
|---|---|
| `runtime_stop_race` | a call reads the flag, `stop()` returns, the call commits an ALLOW |
| `runtime_rate_recovery` | with the limit below the window a denial is for ever: only ALLOWs move ordinals |
| `audit_two_writers` | two threads in `record()` read one head and write two entries with one seq |
| `audit_truncated` | the file is cut back; the live object still compares the anchor with its memory |
| `notary_torn_tail` | a torn last line is skipped but stays; the next acknowledged head is glued to it and lost at the next restart; its seq is then acknowledged with another hash |
| `gate_denied` | the record after the runtime's commit raises: DENY, with budget, step and nonce used up |
| `tokens_twice` | a letter, a joiner and an accent: the joiner is dropped after NFKC, so only the second pass composes letter and accent; the same with U+1C82, which composes only once it is folded |

More facts of the same kind are visible as conditions of passing properties:

- `AnchorNeverAhead` and `ChainIntact` ask for `Sound`: after a write cut short, the
  next entry is glued to the fragment while its head is published.
- `Reopenable` asks for crashes alone: an fsync that raises leaves a line whose seq
  can be accepted again with another hash, and the next restart refuses the file.
- `OneIdentity` excepts `overwrote`: two processes that both find no key overwrite
  each other's, and signatures of the first verify under nothing on file. It also
  excepts a write cut short (`cut`): the process signs with a key that the file has
  the beginning of, and every later start refuses that file, though signing.py:85
  says "generate and persist one on first run".
- `VariantsCollapse` says of the first pass only that the key composes to what its
  spelling looks like: a format character may part a mark from its base, and a letter
  may compose only in its case fold. An Action normalises once, the registry and
  the monitor again, and `dataclasses.replace` (policy.py:187) once more.
- `MinimisedStaysMinimised` holds for every order of scrubbing, but the result is
  not one: of two secrets, one within the other, what is left depends on the hash
  order of the process, though policy.py:115, 123 call the ruling deterministic. Nor
  is the result screened again: with ssn `0009` and the text `0009123-45-6789`, what is
  left is `[REDACTED]123-45-6789`, where the pattern matches now and did not before.
  What is no text and what is a key of a mapping is not scrubbed at all
  (redteam/test_round3.py:168-208, 768-779 pin that down).
- `LargerIsNotSafer` speaks of transfers that are rated. adapter.py:224-230 promises
  1.00 for the largest, but of an integer beyond the float range `risk_profile` raises
  OverflowError, and so does the default cost function, where the gate denies.
- `ChargedAsRated` says that an amount given as text is charged nothing, however it is
  rated: `float()` reads it for the one and the type decides for the other.
- `AuditorsAreToldTheLatest` speaks of answers: a connection that ends without one
  is read as an empty chain (notary.py:306).
- `ZeroShows` asks less of the notary's suite and the budget race: the one books a
  crash as contained (notary_redteam.py:526-531), the other's attackers are threads
  that die unnoticed.
- `ZeroShows` is of the files that were looked at, and puts any forbidden chain down to
  one that was not. check_boundaries.py:3-5 "maps every .py file to a layer", but files
  of no layer and files that do not parse are passed over (:66, :71). ci.yml walks
  `authgate_gate`, which no layer names, and boundaries.yml walks `authgate`, which does
  not exist: as run by the build, the check reads no file that has a layer, and its
  pass says nothing of the imports, though README.md:101 calls the boundary a CI gate.
  Empty lists of attacks do not occur: they are constants of the suites.

**Bounds.** Two callers are enough to race for one session's lock, for a session's
creation and for the head of a chain, which are the only places where callers
meet; every rule of the runtime is reached by some packet (a budget is exhausted by
two packets, a nonce is repeated, a label meets a second purpose, a pinned label, a
negative, a non-finite and an unpriceable charge). Three lines give a chain with a
first, a middle and a last entry, so an alteration can fall on each, and a crash can
fall before, in and after the second. `MaxLines`, `MaxSeq` and `MaxSteps` bound the
state; the first two gate only new submissions. Two lines of the log (`MaxLog`) are
enough for a head to come late, after a power failure rewrote its line; three keys,
for each process to draw one and one to draw again. `MaxBytes` is 1 or 2 pieces: a
line below, at and above the limit. Words of four characters hold a base, a format
character and two marks of different classes, in any order, and `MaxPasses` = 3 is one
more than any word needs. Two
imports (`MaxImports`) make a chain through a third package; two attacks
(`MaxAttacks`) have one that is booked before or after one that is not. The violation
runs use the same instances with one environment each.

**Fairness.** Safety runs have none. `FairSpec` gives weak fairness to each
caller's `Step`: the operating system runs a thread that can run. It gives none to
`Check`, since nobody owes the monitor a call, and none that is strong, since a
`threading.Lock` promises no order: so no claim is made that a given call returns,
only that critical sections end and that calls drain after `stop()`. `BusySpec`
(the rate counterexample) adds callers that never give up, the most favourable case
for the claim it refutes. `ServiceFairness` is weak fairness of each handler thread,
its time-out included; nothing is asked of a client, which is the point of
`PartialRequestsEnd`. In `MCGateway` a machine at rest has no step that fairness
could ask for.

`CHECK_DEADLOCK FALSE` is set where the system may stop: every call made, the log
or ledger at its bound, an object refused on reopening, an agent's day over, a job
of the build ended.

## 5. What is proved

Each theorem is of a module's own specification and for every value of its
constants: any number of callers, connections, chains, packets, lines, faults. The
assumptions are the `ASSUME`s of the module (shapes of packets, null values that are
no real ones, limits that are numbers), which TLC evaluates on
each run; where a theorem needs more, it says so. Every inductive invariant was an
`INVARIANT` of the run of its module before it was proved.

| module | theorems | assumed beyond the `ASSUME`s |
|---|---|---|
| `RuntimeMonitorProofs`, `SessionLedgerProofs` | `TypeOK`, `StateMirrorsHistory`, `OneStatePerSession`, `DenialsAreJustified`, the five limits; `Implementation`: the locked code implements `SessionLedger` | |
| `ControlledGateProofs` | `TypeOK`, `RunsAreLogged`, `AuthorisedDuringCall`, `OnlyClearedCallsConsume`; `EffectsWithinLimits`: what the tools do implements `SessionLedger` | |
| `NotaryLedgerProofs` | `TypeOK`, `AckedSurvive`, `ShownHeadsStand`, `HeadIsHighest`, `Reopenable`, `LossLeavesEvidence`; `Implementation`: the file, its lock and its replay implement `Witness` | |
| `NotaryServiceProofs` | `WitnessedHistory`, `AuditorsAreToldTheLatest`; `OneIdentity` of the key | |
| `AuditChainProofs` | `TypeOK`, `ChainIntact`, `LossIsDetected`, `AnchorNeverAhead`, `HeadsIncrease`, `AuditorAgrees`, `VerifyDetects` | `OneWriter`, `JunkIsNoLine` |
| `AgentGateProofs`, `GatewayProofs` | `MinimisedStaysMinimised` | `MarkIsFresh` |
| `GatewayProofs` | `NothingRunsUnlogged`, `ChargedAsRated`, `LargerIsNotSafer`, `ZeroShows`; `MachinesAlone`: what is proved of the gate and of the notary alone holds in `MCGateway` | |

### The runtime

    IInv == TypeOK /\ LockDiscipline /\ SessionRouting /\ PlanIsFresh /\ StateMirrorsHistory

None of its parts is inductive alone. A plan stays fresh (`PlanIsFresh`) because
another call that commits to the same object would hold the same lock
(`LockDiscipline`), and one that commits for the same session uses the same object
(`SessionRouting`); what it commits keeps the counters equal to the history
(`StateMirrorsHistory`) because the plan was computed from the state it is written
to. `CommitMirrors` carries the arithmetic of a commit. For `Implementation`,
`DecisionIsExact` shows that the code's five rules on the counters say what the
ledger's five say on the history; a commit is then a `Grant`, and every other step a
stutter. The five limits are proved of `SessionLedger` alone and carried over.

### The controlled gate

    IInv == TypeOK /\ Stages /\ Logs /\ RunsAreLogged /\ Present /\ AuthorisedDuringCall
              /\ Consumption /\ SetAside /\ OneUse

`Logs` says that the log is ahead of each call, so that what runs is on record.
`Present` says that a call in flight is marked whenever the agent holds what the call
asks for, so that two reads of changing grants do no harm: one of them saw a grant.
`Consumption` counts the calls that had their turn at the runtime, one grant each.

`EffectsWithinLimits` is the hard one: the runtime commits before the record and the
tool, so between a grant and its run other calls are granted, and may run first. What
is granted and not run yet is *set aside*: for every session, the steps and charges
still owed to calls in flight fit between what ran and what was granted (`SetAside`),
and a nonce owed to one call is in no other's hands (`OneUse`). When a tool runs at
last, the history of runs is no more than the history of grants at any of the
session's limits, and the ledger's rules for grants permit the run. The sum over the
calls in flight would be an induction over a set; `Fits(w, n)` says instead that there
*is* an additive measure of sets of calls with weights `w` that gives all of them no
more than `n`, and each step changes the measure it is given.

### The notary's ledger

    IInv == TypeOK /\ Stopped /\ Book /\ Pages /\ Durable /\ Evidence /\ Restartable

`Book`: whoever is past the comparison is ahead of every head in memory, because the
lock was held since. `Pages` and `Durable`: every content a crash may leave now,
not only the one an fsync has confirmed, holds all that was acknowledged or shown,
except where a write is cut short; there, `Evidence`: a line is missing only with a
corrupt line beside it. `Restartable`: where the process may only die, each content is
the book, or the book and the one line under way, so that the replay takes it.
`OneHashPerSeqUnlessTorn` shows that the counterexample of `notary_torn_tail` needs
its fault: no seq is acknowledged twice without a write that is cut short.

### The notary's service

    ServiceIInv == ServiceType /\ Growing /\ (\A k \in Conns : Sound(conn[k], lines, Hashes))
                     /\ vouched \subseteq Hashes

`Sound` is what one connection owes its client: a submission with a good MAC is a head
of the log as it once was, and while the log is connected it is the head of the lines
as they are now (`Honest`: lines change only when nobody waits for an answer, or
power is lost and the client with it); what was witnessed when an auditor asked still
is; an answer says no less (`Told`). `Growing`: the book's heads have different lengths
and a longest one, so that "the latest" means something.

### The audit log

    IInv == Shape /\ Counter /\ Linked /\ Evidence /\ Increasing /\ Detecting

`OneWriter` is the hypothesis the code needs: `record()` takes no lock, and run
`audit_two_writers` breaks the chain with two. `JunkIsNoLine` says that a line that
json.loads refuses is no entry. `Linked` is of logs that were only appended to whole,
`Evidence` of those with writes cut short, `Detecting` of altered ones: what verifies
and is as long as the head in memory cannot grow into something else, since equal
hashes are equal histories.

### The key

`Settled`: until a process creates the file over another's, at most one process is
between creating and publishing, nothing is signed before there is a key to sign with,
and the file holds that key, or, after a write cut short (`cut`), the beginning of it,
which `LoadKey` refuses for ever.

### The first gate

    AgentIInv == AgentType /\ (\A g \in Agents : OnRecord(g)) /\ PermitOnRecord /\ HandedOver

`OnRecord` for the first gate is what `Logs` is for the second, and says what was ruled
on: an intent was allowed only if no rule applied, and otherwise has what its rule made
of it. `HandedOver` keeps that of all that tools got.

`MinimisedStaysMinimised` is about what `str.replace` leaves, so it needs the recursive
functions and folds of `Redaction`, for texts and rules of any length. Induction over
data is out of the provers' reach as a rule with an operator parameter; `CountUp` and
`SeqInduction` state it for a *set* of numbers or of sequences instead, which is all
that is needed, and `FoldExists` shows that the function such a recursion defines is
there. `ReplacedKeepsOut` says of one replacement that it takes every occurrence of its
word out and brings in no other that has no mark: where the scan writes no mark it
copies (`ScanCopies`), so such a word was in the text before. So an order of scrubbing
cannot bring back what an earlier step took out (`AllReplacedKeepOut`), and what a rule
makes of a payload is clean of the named fields (`FieldsAreBlanked`), of their values
and of the words that were matched (`ScrubbedIsClean`). Not of the patterns: a `\b` may
come about by the scrubbing itself. `NothingToTakeOut` is the half about payloads that
were let through as they came: there a rule without a secret had no match anywhere,
because `re.findall` misses only what overlaps a match it found (`FindAllFinds`).

`MarkIsFresh`: no payload, nothing an agent writes and no matched word has the letter
that stands for `[REDACTED]`. A secret that had it could come about by the scrubbing of
another, and the property would not hold. The instance satisfies it.
`AllowedIsMinimalCorrect`, which speaks of payloads that ran as they came, does not
need it.

### The adapters and the gates of the build

For `ChargedAsRated`, each adapter is followed from the request to the charge
(`TransferAmount`, `PacketAmount`); what `float()` raises on, the risk and the cost
function raise on alike (`TransferRisk`). `LargerIsNotSafer` is proved for all integers
and what else `float()` reads, by the monotony of the buckets (`BlastGrows`); a transfer
smaller than one that is rated is not too large itself (`SmallerIsRead`).

For `ChainsPassUnread`, the kernel with the theory and this package, and the theory with
this package, are closed under the imports that were looked at, in a tree without a
violation (`CleanIsIsolated`); so chains of imports of any length are covered, where
the run has two imports. For `CrashesAreNoPass`, `Counted` ties the booked escapes to
the attacks, however many.

### Only model-checked

- The liveness properties `CriticalSectionsEnd`, `StopDrains` and
  `PartialRequestsEnd`: weak fairness and `ENABLED` are out of the prover's reach.
- `VariantsCollapse`: that one or two passes settle a token is an induction over its
  characters and a fact about the tables of Unicode. Recursion, canonical order and
  composition past other marks are evaluated on all words of four characters instead.
- The counterexamples of the seven runs that expect a violation.

## 6. Not modelled, and why

- Ed25519, HMAC and SHA-256: a hash or a signature is its content, a MAC a flag.
- TCP and JSON framing below "a piece of a line"; reason strings, printing, command
  lines.
- Unicode beyond the classes of `MCTokens`: characters whose case fold is several
  characters, U+0345 and U+037A, Hangul.
- A gate restart (controlled_gate.py:136): it keeps the log and loses every session's
  budgets and nonces. The code says so and does nothing about it, so there is no
  promise to check.
- What a later redaction rule of the same purpose would have taken out: the first that
  hits is the only one applied (policy.py:187), and `MinimisedStaysMinimised` asks for
  no more. The repository's policy has one rule per purpose, and so has the instance.
- Secrets repeated as numbers, in bytes or as the key of a mapping: only texts are
  scrubbed (policy.py:100). The instance has such a number and the property does not
  ask for it.
- What the monitor does with a charge that `Adapters` computes: the packets of
  `RuntimePolicy` carry the cost function's answer, of every kind that it may have.
- The range check of `RiskVector` and the ABI version: no adapter can fail them.
- The bodies of the red-team attacks beyond what they do as environment, and
  `controlled_gate_demo.py`: straight lines of calls whose interleavings the gate's
  callers include. agent/agent.py:10 imports from `authgate`, a package that is not
  in the repository; it is modelled as if from `authgate_gate`.
