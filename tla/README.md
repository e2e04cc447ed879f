# A formal model of modelr

modelr reads a model of a distributed system (components, edges and
relationships between them, in YAML), checks arithmetic constraints on the
relationships, and verifies *behavioral patterns*: it simulates how several
instances of one component share a finite resource of another, decides with a
sequential statistical test whether failures are rare enough, and shrinks a
failure to a short one. This directory models the parts of it in which order,
interleaving, budgets, crashes and shared files matter. TLC checks the models
on small instances; TLAPS proves theorems about the two simulation machines,
the sequential test, the shrinker and its report, role inference and
composition, the definition cache, the commands that validate, check and draw
a model, and the scaffold for every value of their constants.

Paths below are relative to the repository; line numbers are in
`PROJECT.json`, under `map`.

## 1. The system

### Components

| component | source | state it keeps | operations | what makes it correct |
|---|---|---|---|---|
| model parser | `internal/model/parser.go` | none | YAML to components, edges, relationships, inline definitions | every document of the file is read or refused |
| definition registry | `internal/loader/loader.go` | map of nodes and of relationships, list of shadow events | `AddNode`, `AddRelationship`, `BuildRegistry` over inline, path and embedded definitions | first match wins; a shadow event for each loser |
| definition path and cache | `internal/loader/path.go`, `cache.go` | `~/.modelr/cache/definitions.json` and its `.tmp`, files on `$MODELR_PATH`; a memo of parsed files per load | `BuildCache`, `WriteCache`, `ReadCache`, `CheckStaleness`, `DefsFromCache` | the cache file is whole or absent; "current" means what a new build would give; the index finds what it indexes |
| cache commands | `cmd/modelr/main.go`, `internal/mcp/server.go` | none | load with automatic build, `cache refresh` (`--auto`, `--rebuild`), `cache status`, load of the MCP server | a stale cache is warned of, not an error |
| validator | `internal/model/validator.go` | result being built | defaults, assumptions, known unknowns | every property is given, defaulted with an assumption, or a known unknown |
| check expressions | `internal/check/expr.go` | parser position | lexer, recursive descent, evaluation with nulls | read as written; a verdict that later knowledge cannot overturn |
| check loop | `internal/check/checker.go` | result being built | resolve variables, evaluate, record a finding or a known unknown | one outcome per check |
| role inference | `internal/verify/roles.go`, `types.go` | the role map being filled | `InferRoles`, `assignRole`, `Missing` | the same roles for every iteration order of a Go map |
| composition | `internal/verify/composer.go` | machines, warnings, map of shared states captured by closures | `Compose`, the `InitState` closures | one counter per downstream; every relationship accounted for |
| machines | `internal/verify/finite_pooled.go`, `finite_resource.go` | shared counter, per-instance counters | rules (guard, effect) and invariants | the shared counter agrees with the instances |
| simulation loop | `internal/verify/simulator.go`, `bytestream.go` | state of a machine, recorded steps, recorded bytes | draw, select, apply, record, check | the alarm is raised at the step that deserves it; a recorded stream replays exactly |
| sequential test and verdict | `internal/verify/sprt.go`, `verify.go` | evidence, counts, first failing stream | `Update`, the loop of `verifyMachine` | stops when decided, verdict backed by the evidence |
| shrinker | `internal/verify/shrinker.go` | best stream, attempts | delete chunks, zero chunks, reduce bytes | the result still fails and is no larger; the search ends |
| output, visualisation, logging | `*/output.go`, `internal/viz`, `internal/logging` | none | formatting | – |
| scaffold | `internal/init/scaffold.go` | four files | stat, then write | never overwrites |
| MCP tools and command line | `internal/mcp`, `cmd/modelr` | none | wire the above | – |

### How they interact

A command reads the model, loads the definitions through the cache, builds the
registry, validates, and then checks or verifies. `Verify` calls `Compose`,
which calls `InferRoles` per relationship and builds a machine with an
`InitState` closure; the closures of one composition share the map
`sharedStates`. For every machine `verifyMachine` draws seeds from one random
generator, runs `Simulate` on a new `Bytestream` per simulation, feeds each
outcome to the `SPRT`, keeps the bytes of the first failure, and afterwards
runs `Shrink` on them, which runs `Simulate` on replayed streams, and a last
replay from which the trigger is read. The processes of different commands
meet in the file system only: the cache file, its temporary file, and the
definition files that people edit.

### What is hard

* *Interleaving inside a simulation*: rules of several instances in any order
  over one counter that two of the rules update separately.
* *Order of observation*: which bytes are consumed where, and which state a
  recorded step shows; replay and shrinking depend on it.
* *Budgets*: steps of a run, simulations of a test, attempts of a shrink. Each
  can end the loop in the middle of something.
* *Random map order* in role inference.
* *Closures that read a map at one time and write it at another*, in
  composition.
* *Processes*: two writers of one temporary file, edits between two scans,
  crashes between two system calls, an index that names places in files that
  change.
* *Values that travel*: a default filled in by one package, a null told by a
  second and evaluated by a third, a report put together from two results.
* *Nulls* in expressions.

`PROJECT.json` lists each hazard at its line with the properties that guard
it, or the reason why none does yet.

## 2. Modules

| module | models | notes |
|---|---|---|
| `RoleMap` | `RoleMap`, `Missing`, the arithmetic of the instance draw | Go's `%` truncates: a negative divisor acts as its absolute value, zero panics |
| `Simulator` | the loop of `Simulate` | extended by the two machines; variables are the loop's, bytes are drawn when used |
| `FinitePooled`, `FiniteResource` | the two machines with their rules and invariants | one action per rule; an action is a whole iteration: select, apply, record, check |
| `Counting` | `Total`, the sum of per-instance counters, as the size of a set of cells | avoids recursion, see Proofs |
| `ResourceCounter` | abstract specification of a simulation | a counter that moves by one and an alarm at exactly the step that passes the capacity |
| `Replay` | `Simulate` as a function of a byte sequence | a recursive function of the number of iterations; past the end of the record it draws zeros, as `DrawByte` does |
| `RecordedRun` | a `FinitePooled` run with the bytes it records | composes `FinitePooled` with `Replay` |
| `Verification` | `SPRT.Update`, `verifyMachine` up to the verdict | fixed-point logarithms |
| `Shrinker` | `Shrink` | on real bytes, candidates judged by `Replay` |
| `FailureReport` | a failure's way through `verifyMachine` | composes `RecordedRun`, `Shrinker` and `Replay`; its last action is the report |
| `RoleInference` | `InferRoles`, `assignRole` | one step per binding, in any order |
| `Composer` | `Compose`, the loop of `Verify` | extends `RoleInference`; shared states are indices into a heap |
| `DefinitionCache` | cache, path, the commands that use them | one process per command, one step per system call or scan |
| `Registry` | `BuildRegistry`, `AddNode`, `AddRelationship` | one step per definition |
| `ModelParser` | `Parse`, `validateModel` | operators: which files are refused, what is the model, what inline |
| `PropertyValues` | the values of a property | number, text, nil or what is none of them |
| `Validator` | `Validate` | extends `Registry`; one step per turn of a loop |
| `Expressions` | evaluator of checks | an expression is the list of the nodes of its tree, operands first, so that evaluation is a recursive function of a position |
| `Checker` | `Check`, `resolveVariables` | extends `Validator` and `Expressions`; `parseExpr` and `FormatExpressionWithValues` are parameters |
| `CheckCommand` | `validate`, `check`, `visualize` on the command line and as MCP tools | extends `Checker` and `ModelParser`: the whole pipeline |
| `ExpressionText` | parser of checks, the text a finding shows | extends `Expressions`; the one module of the model with RECURSIVE operators |
| `TextualChecks` | `CheckCommand` on checks that are text | joins it with `ExpressionText`; what the runs instantiate |
| `Scaffold` | `modelr init` | one process per command, one step per system call, each of which may fail |
| `SimulatorProofs` | lemmas about `Total` and the loop | extended by the next two |
| `FailureReportProofs`, `FiniteResourceProofs` | theorems of the two machines | the first goes on to `RecordedRun`, `Replay`, `Shrinker` and `FailureReport`, which are built on the pooled machine |
| `CheckCommandProofs` | theorems of `Registry`, `Validator` and `CheckCommand` | the evaluator of `Expressions` too |
| `VerificationProofs`, `ComposerProofs`, `DefinitionCacheProofs`, `ScaffoldProofs` | theorems of the module of that name | |
| `MC*` | constants for TLC | |

Variables have the names of the source where it has one (`used` is
`used_connections` or `used_resources`; `lnLR`, `failing`, `best`, `attempts`,
`rm`, `sharedStates`, ...). The correspondence of every definition is in the
map.

*Simulation.* `InitState` is the prefix of `Simulate` with the machine's
`InitState`; every rule action is one iteration. `iter` is `len(steps)`. Of
the steps the last two are kept, which is what the trigger is made from.
`RequestArrives` can always fire, so the loop's `continue` for an iteration
without a fireable rule is never taken by these two machines and has no
action.

*Cache.* `BuildCache` is two steps, `Parse` and `Stat`, because the code scans
the path twice. `Texts` is what the first walk reads, `Index` what is made of
it; all else of a cache is the path and the mtimes of the second. A file is
the names of its nodes and those of its relationships, the two lists
`ParseDefinitions` returns. `WriteCache` is three: open or truncate the
temporary file, write, rename. Inodes are explicit, so two processes may hold one file open
and a name may move away under a writer. `WriteFails` is any of the three
failing: the commands return the error, the MCP server goes on with what it has
in memory. `Crash` is possible before every step. An edit takes a new, larger mtime.

*Composition.* `AddMachine` chooses which `InitState` a machine gets from
`sharedStates` as it is then; `InitState` writes it. The simulation between is
a counter that moves by one, because only the pointer to the counter matters.
Before a machine is added its roles are inferred by the actions of
`RoleInference`, so whether a relationship is verified depends on the bindings
and the order of the range, as in the code.

*The report of a failure.* `Simulation` steps record bytes until the run is
over; `CallShrink` hands them to the shrinker, whose state is the part of the
variables `Shrinker` declares; `ReportFailure` replays what is left.

*The check pipeline.* `Parse` and `Load` are one step each; the registry, the
validator and the checker advance definition by definition, component by
component and check by check, on variables they own. The `Registry` is filled
from `sources`, the `Validator` reads `nodes` and `rels` and writes
`properties`, the `Checker` reads all of them. Lists whose order nobody reads
(assumptions, known unknowns, warnings, findings) are sets. A definition's
body is whatever its reader needs: `Properties` with their defaults, or
`Resolve` and `Checks`. The expression of a check is the tree its author means,
as a list of nodes in which the pointer to an operand is how far before the
node it stands. Which tree the code gets out of the text is the parameter
`parseExpr` of `Checker`, and what a finding shows is the parameter
`FormatExpressionWithValues`. The runs give them the operators of
`ExpressionText`: `ReadAgain` parses the tokens that `Tokens` makes of the tree
with the fewest parentheses, `TextsWithValues` replaces the variables in any
order. The theorems hold for any parser that returns an expression
(`IsExpression`) and any text, so they do not rest on that module.

*Scaffold.* `os.WriteFile` is the truncation (`OpenFile`) and the write
(`WriteFile`), so that another process, an author or a crash can come between.
Either may fail, the write with nothing or a part of the content on the disk,
and the command then returns the error. `abandoned` is a history variable: it
tells where a command has died or failed between the two.

## 3. What the runs check

Runs that pass:

| run | bounds | shows |
|---|---|---|
| `finite_pooled` | 6 role maps, at most 2 instances (3 for a minimum above the maximum), 8 steps, bytes of 12 values | see below |
| `finite_resource` | 7 role maps, at most 3 instances, 8 steps, bytes of 6 values | see below |
| `verification` | default flags, budget 10000 | all sequences of outcomes |
| `failure_report` | 3 role maps, 6 steps, 4 pairs of prefix bytes that draw every number of instances, 4 of step bytes that select either instance and every rule, 26 attempts | see below |
| `composer` | 40 models: one relationship with the bindings of a standard template and null, zero, negative and positive values, with and without a second binding of a role; up to 3 relationships on 2 downstreams; 2 simulations each | see below |
| `definition_cache` | 2 processes, 2 files in 2 directories, both orders of the path, 2 edits or damages, any number of crashes and failed writes | see below |
| `check_command` | 300 models of two components with 2 relationships on 2 sets of definitions, each checked and drawn; 10 files that are refused; 198 lists of 7 or 14 comparisons, with up to two nested operators on either side, on 16 assignments of a number or null to two names | see below |
| `scaffold` | 2 commands, 2 files, 1 edit, any number of crashes, failures and calls | see below |

**Machines.** `UsedIsHeld` / `UsedIsServed`: the shared counter is the sum of
what the instances hold. `TriggerExact`: a failure was caused by the last
step, which took the counter from the capacity to one more, and the two
recorded steps say that. `PoolBoundedNeverReported`: the second invariant of
the pooled machine repeats the guard of `StartGrowth` and can never be what a
report names. `ShortRunsCannotFail`, `FailureLength`: how much a run of a given
length can reach, which follows from the account of iterations that is proved as
`StepBudget`; with the default of 1000 steps no model with
a limit of 500 or more pooled connections can be rejected.
`ArithmeticSound`: a model within instances times pool size at most the limit
fails in no interleaving, so for the shipped pattern the simulation finds
nothing that this product does not already rule out. `ImplementsCounter`: both
machines refine `ResourceCounter`.
*Why the bounds are enough*: the capacities lie on both sides of what the steps
can reach, so runs that fail, runs that pass at the capacity, and runs that
are too short all occur; two instances suffice for every pair of rules of
different instances; a byte has a multiple of as many values as there are
instances or rules to choose from, so that every choice occurs. The theorems below remove
these bounds.

**Verification.** `EvidenceExact`: the evidence depends on the counts only.
`StopsAtFirstCrossing`: the loop neither stops early nor runs on.
`PassMeansAccepted`: at the default flags 508 clean simulations
are enough for the test to accept, far below the budget of 10000, so "pass" is
never merely an exhausted budget. `FailHasWitness`: a "fail" names an invariant some
simulation broke and a rejection is never a pass. The logarithms are rounded
to 10^-6; float64 rounding is left out.

**Failure reports.** `ReplayIsExact` composes the nondeterministic
machine with the functional one: whatever bytes were drawn, the replay fails
at the same step with the same last steps and number of instances. `BestFails`:
whenever the shrinker stops, in whatever phase the budget ends, its stream
fails and is whole steps after the prefix. `Descends`: a lexicographic variant
goes down at every step, so the search ends, within its budget, and the bytes
never grow. It is stated as an action property, which needs no fairness.
`ReportHangsTogether`: the invariant comes from the first simulation and
everything else from the replay of other bytes; that the two are one story
(the trigger takes the counter from the limit to one more, the printed failure
is no longer than the one found) needs all of the above. The instances are in
the range the model asks for if that has any: with a minimum more than one above
the maximum they are not. The budget of 26 ends some of the searches and lets
others converge.

**Composition.** `OrderIrrelevant`: if the bindings that speak for a role
agree, the role has their value whatever the order, and zero as "not yet
assigned" never hides a number in the roles that keep the first value.
`Accounted`: every relationship with a pattern is either verified, in order,
or in the warnings, never both, and which of them is decided by the numbers of
the model. `StartsIdle`: no simulation inherits a counter. `TypeOK` includes
that no machine is charged with another's failures.

**Cache.** `WritesAtomically`: with one writer, whatever crashes when, the
cache file is absent or whole, unless it is damaged from outside.
`CurrentIsUpToDate`: without edits between the two scans of a build, a cache
called current has the entries a new build would have. `FreshIsCurrent`:
conversely, what a build has just made is called current, so `--auto` settles.
`CurrentServes`: a command that goes on to load the definitions of such a cache,
just built or read, gets them all, each from the place the index says and in
the order of the path, whatever was edited since the files were indexed; so a
load that fails on an entry, or gets another definition, is one of a cache
that `CheckStaleness` calls stale.
`RefreshRepairs`: a refresh that succeeds leaves its cache in place, over a
damaged file and over what a process left that crashed or failed to write.

**Check pipeline.** `FirstMatchWins` and `LosersReported`: the registry holds
the first definition of each name in the order model file, path, binary, and
the shadow events are exactly the losers with their winners.
`GivenAssumedOrUnknown`: every property `Validate` leaves is the author's, a
listed assumption or a listed known unknown. `NullIsTold`: every null a check
was evaluated with was given by the author, or has a known unknown or a
warning in the same written report, although parser, validator and checker
look at different things. `ReportExact`: a written report has exactly the
findings and known unknowns that the definitions of a violation give, whatever
else was skipped, and none is written when an expression cannot be evaluated.
`DrawingShowsReport`: the drawing has a red edge where the report has a finding
and a border where a check met a missing property. `ReadAsMeant`: every
expression is parsed as it was meant. `VerdictStands`: a verdict given with
nulls is the verdict for every completion, except with `max`, which the code
defines as ignoring a null. Checks of one template that share their name are
left out of it (`NameShared`): a finding carries the name only, so a result
does not say which of them failed. A text keeps a relationship from being
checked, and a value that is neither number, text nor nil, such as a bool, ends
the check with an error (`Lookup`); both are in the run.

**Scaffold.** `ExistingKept`: a file that was there when a command started is
not touched by it. `AllThere`: a command that ends without an error leaves all
files in place and tells them truly (in place, not whole: a torn file counts as
existing, for the code too). `TornIsAbandoned`: what two commands do that
truncate and skip each other's half-written files does not tear one. A file
without its whole content is being written by a command that has not failed
yet, or the last who did not get it written has died there or returned the
error of `os.WriteFile`.

*Why the bounds are enough*: two processes meet in one file in every way two
can, and a third adds no new pair; the second file of a list is there so that
the loop has an order and a directory can fail in its middle. A
template with a check before and after a failing one, a relationship skipped
before one that is checked, two definitions of a name in one source and in two
sources all occur in `check_command`. The theorems below remove the bounds for
simulations, failure reports, composition, cache, scaffold and, the parser of
expressions apart, for the check pipeline.

Four runs end in a violation, each a disagreement between the code and a
sentence of its documentation that `PROJECT.json` quotes:

| run | disagreement |
|---|---|
| `downstream_unified` | two relationships on one downstream should compete for one counter. `Compose` asks `sharedStates` while it builds the machines, but the map is filled only when an `InitState` runs, when `Compose` is over; the branch that shares is never taken |
| `two_writers_atomic` | two refreshes at once share one temporary file: one renames what the other has just truncated, and the cache file is not whole |
| `edits_during_build` | a file edited after it was parsed and before it was stat'ed leaves a cache that is called current and has the old entries |
| `shown_values` | the description of a finding shows the values by replacing variable names as substrings in map order; `capacity_chain` has `instances` and `downstream_instances` in one expression, so that one and the same finding now and then says `downstream_3` |

The two about the cache are the conditions of the passing `definition_cache` run, which
has one writer and no edit between the two scans of a build: they show that
both conditions are needed.

### Other limits of the code seen in the models

They follow from single actions of the models or appear with other constants,
and have no run of their own.

* `min_instances = max_instances + 1` divides by zero in the draw of the count
  (action `Panic`), against "any bytestream produces a valid test case"
  (`docs/spec.md:682`). A larger minimum gives counts above the maximum.
* One byte chooses the count (`InstanceCount`): of more than 256 counts the
  largest are never simulated.
* The verdict is "fail" with one failure even if the test accepts
  (`Conclude`), where `docs/spec.md:693` calls an acceptance safe; with
  `--failure-rate 0.00001` (`LnPass` -90) the budget ends first and
  `PassMeansAccepted` fails.
* The shrinker moves on after a successful deletion (`DeleteChunk`), where its
  comment says the position stays, and stops after a pass that changed only
  bytes (`Converged`), so that a step may still be deletable.
* `max_ops_per_sec` is no capacity (`RoleOf`), against `docs/spec.md:604`.
* The warnings of `Compose` reach nobody: a relationship without all roles is
  missing from the printed result (`Summarise`).
* A directory named twice on `$MODELR_PATH` makes an index that does not load:
  with `Paths` holding `<<"shared", "shared">>`, `CurrentServes` fails.
* A load that warns of a stale cache may then fail on it (`Check`,
  `LoadDefs`), and the MCP server never compares (`ReadCache`), where
  `docs/spec.md:533` says commands warn.
* The registry's shadow events are printed by nobody: commands print the
  resolution with `--verbose` and the shadows of the cache build only, where
  `docs/spec.md:557` asks for them (`LosersReported` says they are there).
* `--rebuild` does what a plain refresh does and does not delete the cache
  first (`OpenTmp`), against `docs/spec.md:514` and the help of the flag. No
  property says which of the two is right.
* The size of a file is recorded and compared with nothing (`CheckStaleness`).
* A relationship with an empty side is skipped without a word (`Evaluable`),
  and an edge property that is missing or a scope that is not known is not
  reported (`Complaint`); `NullIsTold` excludes those two.
* An indeterminate check carries no edge, so the drawing shows it as a plain
  black edge (`Drawing`, `Indeterminate`), and the summary says that all
  constraints are satisfied also when some were skipped or indeterminate
  (`Summary`).
* `modelr init` overwrites a file that an author creates between its stat and
  its write (`OpenFile`).
* A crash or a full disk while `modelr init` writes leaves an empty or partial
  file (`WriteFile`, `Crash`). Every later command skips it as existing and
  says that all is done (`Stat`, `Return`).

### Fairness and deadlock

No specification states fairness, and no property needs it. Nothing in this code
waits for somebody else: there is no retry and no event that another must bring
about, and the two locks (of the log handler and of `DefinitionLoader`) are
released by the call that takes them. What must eventually happen is that the loops
end, and that is shown without it: the shrinker's search by `Descends`, the
loops of `Simulate` and `verifyMachine` by the bounds of their counters, the
loops over definitions, components, checks and files because each step
advances a position that nothing sets back. Deadlock is
checked in every run: where a component is done a `Finished` action stutters,
so that any other dead end is reported.

## 4. What is proved

Assumptions of the machines: those of `Simulator` (`ByteValues` and `MaxSteps` positive, role
maps of integers that are `Valid`, which is what `InferRoles` returns) and, in
`FinitePooled`, that the pattern of the role maps is the pooled one. TLC
evaluates them in the runs.

For both machines the argument is the same. `IInv` is inductive; the
properties follow from it. Each property alone is not inductive:
`UsedIsHeld` needs that pools stay within their capacity (`PoolsFit`),
because `Total` counts the cells of a board of instances times capacity;
`StepBudget` needs that no instance waits for more than the iterations done
(`WaitingFit`); `ArithmeticSound` needs that the drawn count is at most the
maximum when the minimum is (`DrawInOrder`); `TriggerExact` needs that the
last recorded step shows the counter and that the run ended at the first
broken invariant (`Reported`); `FailureLength` needs that every iteration was
an arrival or completed one (`Paired`).

Sums over instances are stated without recursion: `Total(f, n, c)` is the
number of cells `<<i, k>>` with `k` at most `f[i]` on a board of `n` by `c`.
`SimulatorProofs` shows, from the library's facts on cardinalities, that it is
a number bounded by `n * c`, is zero for the zero function, and moves by one
when one counter does (`TotalUp`, `TotalDown`). That this is the sum is checked by TLC in `MCFinitePooled`
(`TotalIsTheSum`).

Theorems about the pooled machine, in `FailureReportProofs`: `Inductive`,
`TypeCorrect`, `CounterAgrees`, `PoolBoundedHolds`, `TriggerCorrect`, `BudgetHolds`, `ArithmeticIsSound`,
`PooledImplementsCounter`. Of `FiniteResourceProofs`: `Inductive`,
`CounterAgrees`, `TriggerCorrect`, `FailureLengthHolds`,
`ResourceImplementsCounter`. The lemmas are one per action, plus `Recorded`
(what the loop does after any rule) and `CounterStep` (every step maps to a
step of `ResourceCounter` or stutters).

The rest of `FailureReportProofs` proves every property of the
`failure_report` run, for any bytes, number of steps and budget. What a replay
does is a recursive function of the number of iterations (`After`). That the
function exists and unfolds (`AfterStep`), that a failed replay stays as it is
(`Settled`), and what any replay finds (`ReplayedAfter`), are shown by looking
at the least iteration where it would not be so: `Least`, that a set of
natural numbers has a least element, follows from the library's
`NatLessThanWellFounded`. There is one invariant per question again:

* `RecordInv`: a replay of *any* bytes that begin with the ones drawn so far
  has, after `iter` iterations, the state, verdict and last steps of the run.
  Of the bytes drawn alone this is not inductive, since the next step makes
  them longer. The step uses that machine and replay list the same rules
  (`SameFireable`) and that a rule does the same to both (`SameApply`). Gives
  `RecordedRunsReplay`.
* `ShrinkInv`: the best bytes fail, in as many steps as are kept with them, are
  whole steps after the prefix and no longer than the ones drawn (`Kept`);
  chunk sizes are even, chunks start behind the prefix, and the interval of the
  binary search is below the byte (`LoopInv`). Gives `ShrunkBytesFail`. With
  the order of `Variant` it gives `SearchDescends`: a trial costs an attempt, a
  pass that begins has changed nothing, and the rest moves on in the loops. So
  the search ends, whatever the bytes.
* `Replayed`: a replay of any bytes keeps its pools within their capacity, and
  fails only by a `StartGrowth` from the capacity to one past it. That rule was
  drawn by a byte of the data, because past its end the byte is zero and
  selects `RequestArrives` (`RuleDrawn`): so a failure has no more steps than
  the data has. With `ReportInv` gives `ReportIsOfOneFailure`.

`VerificationProofs` proves every property of `Verification`. `IInv`
(evidence, kept failure, verdict) is inductive for any constants, which gives
`TypeCorrect` and `EvidenceHolds`. The others have hypotheses about the numbers
that `NewSPRT` computes: `Ordered`, that the thresholds and the two logarithms
have the signs a failure rate and a doubt below 1/2 give them
(`StopsWhenDecided`, `FailIsWitnessed`), and `BudgetDecides`, that the budget
times the evidence of a clean simulation reaches the lower threshold
(`PassIsAccepted`). The code does not validate the flags, so they are
hypotheses of the theorems and not assumptions of the module; TLC checks in
`MCVerification` that the default flags satisfy them (`DefaultsDecide`).
`--failure-rate 0.00001` is an example that violates the second.

`CheckCommandProofs` proves every property of the `check_command` run but
`ReadAsMeant`, for any definitions, models, parser and texts. The assumptions
are those of the modules, which TLC evaluates in the run: a definition has a
name and a source (`DefinitionsAssumption`), what is decoded into a Go slice is
a list (`ModelsAssumption`, `InvocationsAssumption`), a component of a model
that parses has a name, and what a parser returns for a check is an expression
(`ChecksAssumption`).

Registry and validator come first, by themselves (`RegistrySpec`,
`ValidatorSpec`). `BuildInv` says of the definitions visited so far what
`FirstMatchWins` and `LosersReported` say of all: their names are in the map,
what the map holds of a name is the visited definition that wins, the events
are those of the visited losers. It is inductive because the order of the loops
is the order of precedence (`LoopOrder`), so that a definition that comes later
never beats one that was visited. `ValidateInv` needs in addition that the
components not yet visited are as they were parsed (`Shape`) and that the
registry no longer changes.

`CommandInvariant` is the inductive invariant of the whole command,
`CommandInv`. Each of its parts needs those above it:

* `Staged`: what each phase may rely on: nothing is checked before the
  validator is through, nothing written before the checker is.
* `Output`: what has been written is what the finished check gives, so that a
  property of a report is one of a state in which every loop is over.
* `BuildInv` and `ValidateInv`, which the other steps leave alone; so
  `CommandFirstMatch`, `CommandEveryLoser` and `CommandValuesAccounted`.
* `Warned`: every complaint of the turns the validator has taken, about types,
  properties and bindings, is in the warnings.
* `CheckInv`: findings and indeterminates are *exactly* those of the pairs of
  relationship and check that were evaluated (`FindingsExact`, `UnknownsExact`),
  only the last one can have been an error (`ErrorsLast`), every unknown
  template of a turn was told (`TemplatesTold`). The step from one relationship
  to the next uses that what a template holds after the registry is built has
  the lists of the definition it came from (`ChecksAreLists`).

`ReportsExactly`, `NullsAreTold` and `DrawsTheReport` follow from this
invariant without another step. For the second, a null of a component is
followed back: the property is missing, hence not filled by a default, hence
a known unknown, or not declared, hence warned of (`NullOfComponent`).

`VerdictsStand` rests on the evaluator. `Values` is a recursive function of the
position of a node; that such a function exists (`EvaluatesExists`), what it
satisfies (`ValuesStep`), that each of its values is an error, a null or a
number (`EveryKind`), and that numbers in the place of nulls change no value
that was a number already, if there is no `max` (`EveryValueStable`), are each shown by looking
at the least node where it would not be so: an induction over the expression
for which `Least` stands in. `CompareStable` takes it to the verdict. Then a
finding with the name of a check comes from that check (`ResultsNamed`).

`ComposerProofs` proves every property of the `composer` run
(`OrderDoesNotMatter`, `EveryoneAccounted`, `SimulationsStartIdle`,
`TypeCorrect`) for any models; the assumption, `ModelsAssumption`, is that a
model is a list and a resolved value an integer. There is one invariant per
question, each needing those above it:

* `PlacesInv`: how far each loop is, and that no more machines were made than
  relationships passed.
* `InferenceInv`: of the bindings the range has visited so far, every role is
  zero or what one of them says, is what one of them says if it overwrites, and
  is not zero if one of them was not. What `left` holds is the only thing the
  order leaves open, and it is empty at the end.
* `SortedInv`: a relationship has a machine or a warning, and never both, if and
  only if the loop has passed it and it asks for a behavior; a machine is not
  for one that is `Hopeless`, a warning not for one that is `Certain`
  (`Decided`, the lemma that takes the roles to the verdict about them).
* `VerifiedInv`: as many verifications as machines passed, in their order.
* `PointersInv`: while the relationships are composed the map of shared states
  has no counter, hence no machine has one. This is why every simulation starts
  idle, and also why `DownstreamUnified` is violated: the two are one fact.

`DefinitionCacheProofs` proves every property of the
`definition_cache` run for any number of processes, files and directories, any
paths, edits, crashes, and with and without damage from outside. That there
are finitely many processes is assumed (`ProcsAssumption`): with as many
inodes as processes and two more there is always a free one (`FreeInode`).
`CacheInv` says that inodes that are named are in use (`NamesInodes`) and that
whatever cache is on disk or in memory is `Faithful`: its mtimes are in the
past, and every file that still has the mtime it is listed with has the
content the entries were made of. That this survives an edit uses that mtimes
increase; that it holds of a new cache uses the hypothesis
`~EditsDuringBuild`, which the theorem `CurrentMeansUpToDate` names.
`AtomicWhenAlone` and `RefreshIsSeen` have the hypothesis `OneWriter`, that at
most one process runs commands that write (`WriteInv`: the writer's open file
is the temporary one, which is not the cache, and what it has written so far
is its own). The runs `edits_during_build` and `two_writers_atomic` are the
counterexamples without the one and the other. `FreshMeansCurrent` needs
neither. That a `Faithful` cache which is called current has the entries of a
new build is `CurrentEntries`.

`CurrentFinds` takes it to what the cache is for. With `CurrentEntries`, what
remains is a fact about the walk over the path. Its hypothesis is that no path
names a directory twice (`OnceEach`); with one that does the property is false
of the code (section 3). The assumptions are that there are finitely many
files, in an order (`FilesAssumption`), and that paths and decoded files are
lists (`ListsAssumption`). The argument:

* What is joined is the prefixes joined one after another (`Flattened`), so a
  fact about a walk can be shown file by file (`UpTo`, for which the least
  exception stands in).
* No file is scanned twice (`ScannedOnce`): a directory lists each file once,
  in order (`SortExists`), and a file is in one directory.
* So of the definitions of one kind those of a file stand in their order and
  are all there (`DefsOfPlaced`): the definition before which there are n of
  its file is the file's n+1st of that kind (`Placed`).
* All nodes come before all relationships, so before a relationship there are
  all the nodes of its file, which is where `LoadEntry` looks (`EveryPlace`).

`IndexByKind`, the mutant that counts the kinds apart, is what breaks the last.

`ScaffoldProofs` proves the three properties of the `scaffold` run for any
number of commands, files, edits, failures and crashes. `TornIsAbandoned`
(`OnlyAbandonedIsTorn`) is inductive with the types alone: a step of one command leaves
what the others write alone (`OthersStay`), and one that leaves a torn file
leaves it in `abandoned`. `KeepInv` adds that what a
command is about to truncate was absent when it looked, after it had started
(`AtMissing`), and that what was there at its start still is
(`StillThere`). `ListInv` adds what the position in the list of files tells:
the files before it are in place (`Behind`) and listed as created or skipped
(`Told`).

Only model-checked, and why:

* `ReadAsMeant`: a recursive-descent parser is written with RECURSIVE
  operators, and that it gives back any tree is an induction over trees. Nothing
  that is proved depends on it.

## 5. Not modelled

* Logging (`internal/logging/handler.go`): lines of text under a mutex that
  nothing reads back.
* YAML: decoding and encoding. `ModelParser` starts from documents and their
  fields, the reports end as records. The lexer of expressions.
* Text for people: the printing of the commands, shapes, colours and labels of
  a drawing, the listing of definitions, the text the `verify` tool returns;
  flags.
* Randomness as probability: `Verification` covers all sequences of outcomes;
  the error bounds of the test are not derived.
* Errors of a stat or a directory scan other than a missing file, which the
  code passes over or returns, and backdated mtimes.
* float64: logarithms are fixed-point, expression numbers are rationals.
* The values of `AcquireTime` and `OperationTime`: no rule reads them.
* Liveness: nothing waits (see Fairness).

## 6. What could come next

Every component with state of its own is modelled. Of value would be, in this
order:

1. `CheckCommand` on the entries that `DefinitionCache` serves instead of any
   definitions of the path, so that a stale index reaches a report.
2. `Verification` in place of the reduced simulation of `Composer`, and at
   failure rates of 0.5 and more.
