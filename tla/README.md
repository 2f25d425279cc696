# A verification project for axi-go

axi-go is an execution kernel for actions that agents call: plugins register
actions and capabilities, and the kernel validates, resolves, gates behind an
approval, executes, meters, records evidence and publishes events. This
directory holds TLA+ models of its core logic, the configurations that
model-check them and proofs about them. Paths below are relative to `src/`.

## 1. The system

| Component | State | Operations | Interacts with |
|---|---|---|---|
| `ExecutionSession` (`domain/session.go`, `evidence.go`) | status, outcome fields, evidence chain, chunks, buffer of domain events; one mutex | `MarkValidated` ... `Succeed`, `Fail`, `Abort`, `Approve`, `Reject`, `Emit`, `AppendEvidence`, `PullEvents` | called by services, by executors (as `ResultStream`) and by library users |
| `ActionExecutionService` (`domain/execution.go`) | none of its own per session | `Execute`, `Resume`, `run`, `drain` | session, repositories, validator, rate limiter, executors, publisher |
| `boundInvoker`, `budgetEnforcer` (`domain/execution.go`, `budget.go`) | invocation count, start time, attempt | `Invoke`, `invokeOnce`, `checkInvocation` | capability executors, which may call it again; publisher |
| Use cases (`application/execute_action.go`) | goroutines | `Execute`, `ExecuteAsync`, `ApproveSession`, `RejectSession` | execution service, session repository |
| `CompositionService`, `PluginContribution` (`domain/composition.go`, `plugin.go`) | plugin, action and capability repositories, executor registries, lifecycles | `RegisterBundle`, `RegisterPlugin*`, `RegisterContribution`, `DeregisterPlugin` | executor registries, `Init`/`Close` of plugins |
| Session stores (`inmemory/repositories.go`, `jsonstore/store.go`, `domain/snapshot.go`) | pointers, or one JSON file per session | `Save`, `Get` | use cases |
| `PipelineExecutor` (`domain/pipeline.go`) | steps done so far | `ExecuteWithInvoker`, `compensate` | invoker |
| Action composition (`domain/invoker.go`, `axi.go`, `example/saga`) | completed steps, a log shared by all sagas | `Invoke`, `ExecuteOrchestrated`, `recordCompensate` | kernel, recursively; people who decide on the children |
| `CapabilityResolutionService` (`domain/resolution.go`) | none | `Resolve` | capability repository, twice per session |
| `ContractValidator` (`inmemory/validators.go`) | none | `Validate` | called on input and output |
| TOON, ids, help, logging, other examples | | | |

### What is hard here, and what makes each part correct

* **The session** is shared by goroutines: by the background goroutine of
  `ExecuteAsync`, by whoever approves or rejects, by executors that stream. The
  status has to tell the outcome, the completion event has to be raised exactly
  once, a decision must not be replaced, the evidence chain must verify.
* **The execution service** reads the status without holding the mutex, drains
  events at a few places only, and runs code of plugins that may panic. The
  executor must run at most once, behind an approval when the action writes to
  an external system; nobody may work for a session that is over; every event
  must reach the publisher once, in order.
* **The use cases** must not leave a background session unfinished; a failed
  `Resume` has no retry.
* **The invoker** has to keep budgets through nested calls and retries, and its
  verdict can be swallowed by the executor.
* **The registry** has several stores and no transaction over them: a failing
  registration must roll back what it did and nothing else.
* **The durable store** hands every caller a copy; a restart loses what was not
  saved, and concurrent decisions meet only in the file.
* **The pipeline** must compensate what was done, in reverse, on failure.
* **The saga** reads the outcome of a child whose session is already public, must
  not succeed while a child waits for a person, and must leave a log from which
  one can tell what to compensate and what to decide.
* **Lookups** of actions, capabilities and executors happen at several moments
  of a session, while plugins come and go; what runs must be what was validated
  and gated.

`PROJECT.json` lists each of these hazards at its line.

## 2. The modules

```
GatedRun  <-- refined by --  Execution  --EXTENDS-->  Session  --EXTENDS-->  Evidence
                             ExecutionProofs --EXTENDS--> SessionProofs         ^
                             MCExecution                  MCSession             |
                                                                             Durable
Directory <-- refined by --  Registry                          DurableProofs, MCDurable
                             RegistryProofs, MCRegistry

Registry, Contract <--EXTENDS-- Serving                ServingProofs, MCServing

Invoker, InvokerProofs, MCInvoker   Pipeline, PipelineProofs
Saga, SagaProofs, MCSaga
```

### Evidence (`domain/evidence.go`)

The evidence chain as operators: payloads are members of `Values`, of which
`Encodable` can be marshalled, and `Hash` is an arbitrary function into
non-empty hashes. A record carries no timestamp and no size: neither is hashed
here nor looked at by anything modelled.

### Session (`domain/session.go`)

The aggregate. Its fields are the variables; each exported method that changes
it is one action, because it holds the mutex from its first check to its last
assignment. A call that returns an error changes nothing and is a stuttering
step. `SessionNext` lets any method be called at any time: that is what the
exported API allows. `result` is reduced to whether it is set, and `failure` to
its code; `startedAt` to whether it is set. `pulled` is a history variable:
everything `PullEvents` has returned.

### Execution (`domain/execution.go`, `application/execute_action.go`)

One session and the goroutines around it, over the in-memory repository, which
hands out one pointer to all. `Runner` executes it, in the caller's goroutine
(`mode = "sync"`) or in the background (`"async"`); `Callers` approve and reject
it. `pc[t]` is the goroutine's place between two calls on shared things
(session, repository, publisher), so a step is one such call and the local
computation after it. In particular `drain` is `Pull` under the mutex and then
one `Publish` per event outside of it, and the status checks of `run` (`Build`,
before `Begin`), of `ExecuteAsync` (`CheckSettled`, which reads it twice) and of the
deferred `recover` are steps of their own, apart from the call they guard.
Deferred drains run on every way out of `Execute` and `Resume` (`leave`), a panic
included. A panic is one of the executor's or of the publisher's `drain`; one of
the publisher inside an invocation counts as the executor's. `overlapped` is
history: somebody approved while the background goroutine still had its pause to
publish (`DrainUnderway`).

The outcome of the rate limiter, of lookups, validation, resolution, and of the
executor is chosen nondeterministically. The executor emits chunks, invokes
capabilities, and returns a verdict or panics; evidence is appended record by
record.

### GatedRun

What the kernel promises of a session, without its code: a stage (open,
waiting, cleared, closed), a grant, a count of runs. `Execution` implements it
under the mapping `Stage`, `Granted`; `external` and `runs` are shared names.

### Invoker (`domain/execution.go`, `domain/budget.go`)

`boundInvoker` with its `budgetEnforcer`, shared by the goroutines of one
executor (`Workers`). A capability with a composable executor is handed the same
invoker, so a worker has a stack of calls and `stack[w]` is the place in the
retry loop of each. The clock is the one bit `expired`: more than `MaxDuration`
has passed. `attempts` is a history variable.

### Registry and Directory (`domain/composition.go`, `domain/plugin.go`)

`CompositionService` with the repositories and executor registries it fills. The
repositories lock themselves, so each of their calls is a step; the service's
mutex is held over several of them, `RegisterBundle` binds and unbinds executors
outside of it, and the assignment to `lifecycles` is a second critical section
(`Retain`). Any `Save` may fail, and `Init` and `Contribute` of a plugin. The three maps of definitions are one variable,
`owner`, from a name to the contribution it was listed for. `Directory` is what
the service promises: plugins come and go as wholes and never clash.

### Durable (`jsonstore/store.go`, `domain/snapshot.go`)

The use cases again, over the store that keeps one JSON file per session: every
`Get` gives a copy, so the aggregate's mutex protects nobody and decisions meet
only in the file. What a goroutine does to its copy is local, and a whole
`Resume` is three kinds of step: `Get` with the decision, the entry of the
executor, and the `Save`. A write has two steps, because `os.WriteFile` truncates
first; `Crash` may come between them, and loses all that is in memory.
`Reloaded` is what `json.Unmarshal` makes of a payload. `told`, `decisions`,
`overlapped`, `lost`, `saveFailed` are history.

### Pipeline (`domain/pipeline.go`)

`ExecuteWithInvoker` and `compensate`, inside the retry loop of the invoker.
`world` is what the capabilities have done outside: one effect per attempt and
step, until a hook undoes it; a step that fails may have left its effect, and a hook that
fails may have undone its own. Outputs
are named by their effect, so handing a hook another step's output is visible.
`records` keeps the `PipelineFailure` of each failed attempt; the code hands out
the last one only.

### Saga (`domain/invoker.go`, `axi.go`, `example/saga/main.go`)

Orchestrators that invoke actions through the kernel. Every step of a saga has a
fresh session; up to `Save` it belongs to the saga's goroutine alone, so an
`Execute` is one step there, with any of its outcomes. From `Save` on people may
approve and reject it, between the read of the status and the reads of result and
failure as well (`outputFromSession`). The outbox is one sequence for all sagas.
A parent session is reduced to its status; `how` and `attempts` are history. An
entry without a session is a compensation, an error or a completion.

### Contract (`inmemory/validators.go`, `domain/values.go`)

`Validate` as a function of a contract and an input of which only the Go kinds of
its fields are known: the first field that is not in order ends the loop, and a
nil in an "array" field ends it with a panic. `Conforms` is the reference: what a
contract says according to the comments on `ContractField`.

### Serving (`domain/execution.go`, `domain/resolution.go`, over `Registry`)

The phases of `Execute`, `Resume` and `run` that look something up, for sessions
whose action names, capabilities and executors are those of `Registry`: a step of
`Serving` is a step of `Registry` or one lookup of a session. `def` is the
definition a session goes by, `first` (history) the one it was validated and
gated with. Everything between the entry of the executor and the end is
`Execution`'s. An error and a panic of the validator are one place, `refused`.

## 3. The runs

| Run | Question | Bounds |
|---|---|---|
| `session` | under any order of calls: outcome told by the status, one completion event, chunk numbering, evidence chain, finality | 2 principals, 1 capability, 2 chunks, 2 evidence records of an encodable or unencodable payload |
| `execution` | sync and async execution with two callers: one run, approval before effect, no late work, what is abandoned, what the publisher receives; under fairness background sessions settle and approved ones finish; `GatedRun` is implemented | 2 callers, 2 chunks, 1 evidence record, 1 invocation, 2 panics |
| `invoker` | nested and concurrent calls under a budget: number of attempts, events, no call admitted after a refusal | 2 workers, 3 invocations allowed, 4 calls, 1 retry |
| `registry` | interleaved, failing and clashing registrations: the repositories agree, executors come first, `Close` hits nobody registered, calls return; `Directory` is implemented | 2 goroutines, 4 packages, 3 calls |
| `durable` | decisions on copies, failed and torn writes, crashes: signatures, repeated runs, reported answers, the pause, the end of a background session | 2 callers, 2 accepted decisions, 2 crashes, 1 evidence record |
| `pipeline` | failing steps and hooks, cancellation, panics, retries: records tell what stands, order, all or nothing | 3 steps, any set of hooks, 2 attempts |
| `saga` | invoking actions while people decide on them, with errors, panics, refused saves, retries: what success means, what an outcome contains, what the log says | 2 sagas, 3 sessions, plans of 2 and 3 steps, 2 attempts |
| `serving` | executing and resuming while plugins are registered, replaced and removed: what runs was gated and validated; capabilities of a registered plugin are found; an approved definition is replaced only when its plugin has gone | 1 session, 2 registering goroutines, 3 calls, 3 packages, 6 inputs |
| `completion_event`, `registry_bound`, `registry_retained`, `durable_trail` | sentences of the documentation or of comments that the code does not keep; each is a finding | small |

Why these bounds are enough to see the interesting cases. `session`: two evidence
records give a chain link before or after an unencodable record; two chunks with
pulls in between distinguish an index that counts all chunks from one that counts
the buffer. `execution`: two callers race for one decision, and a second approver
shows that the first one's decision stands; two panics allow one in the executor
and one in the publisher while the first is being cleaned up; sessions share
nothing but the publisher, so one session is the unit. `invoker`: the fourth call
is refused, in the stack of a worker or beside it, while others retry.
`registry`: with three calls a plugin is registered, deregistered and replaced
while another goroutine stands between two steps; the packages clash in
identifier, action, capability and executor ref. `durable`: two decisions
overlap, or follow each other with a crash between; the second crash falls on
what the first left. `pipeline`: three steps have an order to reverse with a gap
in it, two attempts let the second see what the first left. `saga`: three
sessions let one saga compensate a step behind which another pauses, and the
other saga write in between; a plan with an external action first, last and
twice, and one with a bad step. `serving`: two plugins offer one action, as an
external write and as none, with contracts no input satisfies both of, a third
competes for a capability and an executor ref; three calls replace the plugin
under a session; sessions touch nothing another reads, so one is the unit.

`MaxChunks`, `MaxEvidence`, `MaxInvocations` of `Execution`, `MaxFaults`,
`MaxCalls`, `MaxDecisions`, `MaxCrashes` and, in `Saga`, `MaxAttempts` bound what the code leaves unbounded;
they only ever disable `Emit`, `AppendEvidence` (`RecordEvidence`),
`InvokeCapability`, panics, new calls, decisions, crashes and new attempts; a
saga also ends where `SessionIDs` does. `MaxInvocations`
and `MaxRetries` of `Invoker`, and `MaxAttempts` of `Pipeline`, are the code's
own budget. `Workers` of `Invoker`, and `Sagas` and `SessionIDs` of `Saga`, are
interchangeable, and their runs, which have no liveness property, use that
symmetry; no other run does.

Deadlock is not checked: a session that is over and that nobody calls any more,
a pipeline or a saga that has returned and a registry at rest are legal ends.

**Fairness.** `Execution` and `Durable`: weak fairness of the runner's goroutine
as a whole and of each caller's goroutine once it is in a call. `Registry`: weak
fairness of each goroutine once it is in a call, which a mutex under Go's
starvation mode gives, calls being bounded. The Go scheduler runs every runnable
goroutine; a goroutine here waits for a mutex at most. It also says that plugin
code returns, which the kernel cannot enforce (a deadline reaches plugins only
through their context). Nothing is assumed of people, of crashes or of panics:
approval and rejection are never fair. `Invoker`, `Pipeline`, `Saga` and
`Serving` have safety properties only: nothing in them waits but for people.

## 4. What the checks show

*Execution over the in-memory repository*

* The approval gate holds whatever goroutines do, although the aggregate alone
  does not provide it: `MarkRunning` accepts a session that still awaits its
  approval. The gate rests on the services calling `MarkRunning` only from
  `Resolved`, and not at all after an approval.
* `NoLateWork` names the one thing that ends a session under an executor: a
  panic of the *publisher* after a background session was paused makes `Recover`
  fail the session, also under an approver who is executing it by then.
* `AbandonedOnlyAfterError` names exactly what may be left over: a synchronous
  `Execute` that returned an error before the run, or panicked before or in it, or
  an approval whose `Resume` did either. The second cannot be resumed by any call
  of the kernel.
* `DeliveredAtRest` says which events are not delivered without a panic: the
  completion of a rejection or of an aborted background session (finding
  `completion_event`), and nothing else. Chunks are delivered too, but only after
  the executor has returned: nothing drains between `MarkValidated` and the
  deferred drain, although `README.md:42` has adapters forward them "as they're
  produced".
* `DeliveredInOrder` excludes panics and one case more: an approval while the
  background goroutine that paused the session has not yet pulled or published
  what its last drain hands over (`overlapped`). Two goroutines then publish events of
  one session interleaved. Background sessions approved after that are covered,
  also while their runner is still on its way to its end.
* That case, and the exception of `NoLateWork`, exist because a session paused in
  the background is public before its goroutine is through with it. The comment
  at `application/execute_action.go:83`, "The goroutine owns the session
  exclusively", holds up to that pause only.

*Invoker.* The bound on outbound calls that `domain/budget.go` documents holds
under nesting and concurrency. The clock is read when a call begins and not
between retries, so attempts may begin after `MaxDuration`, against the comment at
`domain/execution.go:370-372`; `Expire` may happen between any two attempts and
`Retry` does not look at `expired`.

*Registry.* The repositories agree at every step and the service implements
`Directory`. What lies outside of the mutex does not follow: a refused bundle
unbinds the executors of the plugin it clashed with, or of its own first
registration (`registry_bound`), and a late assignment to `lifecycles` displaces
a successor, which is then never closed (`registry_retained`).
`BoundBeforeListed` and `ClosedOnlyWhenGone` are what remains true.

*Durable.* There is no compare-and-swap in the store, so an action can run twice;
`RepeatedRunExplained` says when: after two overlapping decisions, or an approval
that never reached the file. `SignedBeforeEffect` survives even that. Without
overlap, an answer once given is what the file says, and a reported pause
survives crashes. A crash within the *second* write of a session leaves a file
nobody can read; the properties that speak of the file say so. A payload that
cannot be marshalled makes every later `Save` fail, so that the file stays at
an earlier status: `saveFailed` in `OutcomeReachesStore`. Payloads that JSON
gives back in another form break the evidence chain (`durable_trail`).

*Pipeline.* `RecordsTellStanding` and `AllOrNothing` say what an operator may
conclude from a `PipelineFailure`, for each attempt; the failures of earlier
attempts reach nobody, because the retry loop returns the last. The walk ends
early when the context is cancelled: `docs/CONCEPTS.md:196` has "every completed
step's Compensate hook" run, which holds only without cancellation, and the code
notes the rest in `CompensationErrors`. A panic in a step skips compensation.

*Saga.* The fail-closed pattern holds: a parent that succeeded has no step that
was rejected or still waits. But what `SucceedsOnlyWhole` must allow is worth
knowing: an approval that falls between `Save` and the read of the status yields
an outcome with status running, which is neither failure nor pause, so the saga
takes the step for done, and the approved action may still fail. `OutcomeComplete`
holds because the status is read first; the other order would hand out a final
status without its result. `LogTellsEnd` lists what the log does not tell: a panic
or a bad step breaks an attempt off without a word, and after a transport error
the steps done stay without compensation. `PausesAreLogged` matters because a
retry invokes all steps again in fresh sessions: approving the old session "before
retrying", as the error at `example/saga/main.go:187` advises, runs the external
write once more than the saga will know.

*Serving.* `Resume` goes by the definition the name has *now*: with no validation
and no second gate. `RunsWhatWasGated` says what that leaves: an executor is never
entered for an external write without an approval that was asked for one, but it
may be another plugin's than the one the approval was asked for, once that one has
been deregistered or is being so (`ReplacedOnlyWhenGone`); and it may see
input that its own contract would refuse, which is why `EntersWithValidInput`
speaks of sessions whose definition is unchanged. `RegisteredResolves` is the use
of `RepositoriesAgree` to a session: reads outside the mutex of the registry see a
registered plugin whole. A plugin that is half registered, or whose capabilities
come from another one, has no such promise.

*Contract.* `Validate` accepts nothing its reference refuses (`ValidateSound`).
It says yes to a type it has not heard of, and panics on a nil in an "array" field.

Mutants (`PROJECT.json`, and the definitions marked `mutant` next to the one they
would replace) are plausible bugs; each property is violated by one.

## 5. What is proved

For every set of callers, goroutines, principals, capabilities, payloads,
packages, contracts and plans, every hash function into `Hashes \ {NoHash}`, and
every bound. The type invariants are proved and not part of the runs:

* `SessionProofs`: types; `StatusTellsOutcome`; `CompletedExactlyOnce`;
  `EvidenceVerifies`; `SettledIsFinal`;
  `ChunkTrailRebuilds`; that nothing but evidence events is raised twice
  (`RaisesOnce`). `AnchorTellsTrail` says what a verifying trail is good for, for
  trails of any length: two that verify and end in the same hash are the same,
  unless the hash function collides on their records or a record was left without a hash,
  which `EveryRecordHashed` excludes when all payloads can be marshalled.
* `ExecutionProofs`: types; `RunsAtMostOnce`; `ApprovalBeforeEffect`;
  `RunningOnlyAfterApproval`; `NoLateWork`; `AbandonedOnlyAfterError`;
  `NoEventTwice`; `DeliveredAtRest`; `DeliveredInOrder`; the refinement
  `Spec => GatedSpec`; and `Spec => SessionSpec`, which carries the theorems of
  `SessionProofs` over.
* `RegistryProofs`: types; `RepositoriesAgree`; `ClosedOnlyWhenGone`;
  `BoundBeforeListed`; the refinement `Spec => DirectorySpec`.
* `DurableProofs`: types; `SignedBeforeEffect`; `PauseSurvives`;
  `RepeatedRunExplained`; `AnswersStay`.
* `PipelineProofs`: types; `RecordsTellStanding`; `ReverseOrder`;
  `AllOrNothing`, for any number of steps and attempts.
* `InvokerProofs`: types; `BudgetHolds`; `AttemptsPerCall`; `RefusalIsFinal`;
  `EventsTellAttempts`, for any number of goroutines, any depth of nesting and
  any budget.
* `SagaProofs`: types; `SucceedsOnlyWhole`; `OutcomeComplete`; `PausesAreLogged`;
  `LogTellsEnd`.
* `ServingProofs`: types; `RunsWhatWasGated`; `EntersWithValidInput`;
  `RegisteredResolves`; `ReplacedOnlyWhenGone`; and `ValidateDecides`, that `Validate` accepts what
  `Conforms` says and nothing else.

**The argument.** `StatusTellsOutcome` alone is not inductive; `OutcomeInv` adds that
a decision exists only in Running or a terminal status. `CompletedExactlyOnce` is
proved through `CompletionInv`, which also ties `started` to `SessionStarted`.
`RaisedOnceInv` gives each event that is raised once the state that excludes a
second (`Spent`); `ChunkInv` counts the chunk events against the chunks.
`AnchorTellsTrail` compares two trails from their ends: at the least distance at
which they differ, the records still have one hash. The least-number principle
(`LeastNatural`) takes the place of an induction.

`ExecutionProofs` first shows that each step of the kernel is a step of the
aggregate or leaves it alone (`StepIsSessionStep`), so only control has to be
reasoned about. `GateInv` is the inductive invariant of the gate: a caller
outside "idle" stands on a decision that was made once, at most one of them is on
its way to the executor or in it, the runner gets there only for an action that
is not gated, and whoever has yet to enter finds `runs = 0`. `SettleInv` is the
invariant of what comes after: an error before the gate leaves the session where
no approver can have it yet, what the runner leaves behind is settled or was
reported (`Disposed`), an approved session stays Running under its caller unless
something panicked, and it is worked for until its caller has left with an error.

For the events there are three more invariants. `OnceInv`: two places never hold
the same event, and what goroutines and the publisher have was pulled, so that
what the buffer takes next is new. `RestInv`: a goroutine holds events only at
the two places where it publishes (`HandsInv`); what was pulled is in somebody's
hands or published (`Conveyed`); and what is in the buffer has a drain coming, or
is the completion no drain comes after (`Buffered`, `Leftover`). The last part
needs `SettleInv`, for who can still be at work when `AbortSession` or a
rejection comes. `OrderInv`: what has been published, followed by what one
goroutine still holds, is what was pulled. It rests on two invariants about who
may hold events at once. `AloneInv`: of the callers, one at a time is in a call, and
after a synchronous runner has returned. `BehindInv`: without an overlap the runner
has nothing left to pull or publish of a session a caller has taken over.

`RegistryProofs` rests on `RepositoryInv`: besides `RepositoriesAgree`, a
goroutine inside a critical section holds the mutex (`Exclusive`), a plugin is
filed under its own identifier (`FiledById`), and what a registration, rollback
or removal has still to do is exactly what distinguishes the repositories from
the state before or after it (`HalfDone`). With it the only steps that change the
set of registered plugins are `SavePlugin` and the last `RemoveNext`, which are
`Register` and `Deregister` of `Directory`. `BindingInv` follows a bundle's refs
from `BindNext` to the first listed name.

`DurableProofs` brings the ways in which an `Execute` or `Resume` can end into
one form (`EndingSteps`, `EndingLeaves`). `TypeInv` adds to the types that what is
written was marshalled, so that it can be loaded, and who may be where. The
signatures need `SignedInv`, about the copies on their way to the file as well as
the file; the count of runs needs `EntriesInv`, in which every caller about to
enter the executor keeps one decision back. `PauseInv` says why nothing can
overwrite a pause before a decision: the runner has nothing left to save.
`TurnInv` adds that whoever decides takes the session out of its pause, and that
without an overlap one caller does so at a time; from it follow `RestInv`, that an
outcome stored or reported is one nobody works on any more, except the runner to
write the same again, and `OnceInv`, that with no decision lost there is only one.

`PipelineInv` says, for the attempt under way, what has been called and stands
above and below the cursor, on the way forward and on the way back, and that the
records written so far are true; the effects of earlier attempts are never
touched again.

`InvokerInv` ties the stacks to the history: every frame is a call of its own that
the budget admitted (two frames never share one), its attempt number is the count
of attempts made for it, admitted calls are at most what the budget counted, and
a refusal is possible only once the count is used up or the clock has passed,
neither of which is ever undone. `StreamInv` adds what the events published so
far say of each call: with its place in the loop, a frame fixes how many of them
there are, and what the next one has to be.

`SagaInv` has one part for each thing a saga relies on while others decide: an
approved session neither waits nor is rejected any more (`Decided`),
the steps it takes for done are the plan's in order and were seen to be neither
failed nor waiting (`Progress`), and the session in hand is the one it invoked
and is logged next (`InHand`). Sessions only ever evolve forward, so that what was seen
of a status bounds what it is later. `Told` follows the log through a
compensation: `todo` counts the entries still to come, and the entries of one
saga are counted from their end, so that those of other sagas do not matter
(`PlacesMove`).

`ServingInv` adds to the `RepositoryInv` of `RegistryProofs`, which steps of
sessions leave alone, what is known of a session at each place on its way (`Way`):
that an approved session's name is one of its first definition's, for one, which
makes `ReplacedOnlyWhenGone` another use of `RepositoriesAgree`.

The assumptions are `SessionAssumption`, `ExecutionAssumption`,
`InvokerAssumption`, `RegistryAssumption`, `DurableAssumption`,
`PipelineAssumption`, `SagaAssumption` and `ServingAssumption`, which TLC
evaluates in the runs; they say that model values are distinct, that hashes are
not empty, that plain data reloads as plain data, and what packages look like.

**Only model-checked**: liveness (`AsyncSettles`, `ApprovedFinishes`,
`CallsReturn`, `OutcomeReachesStore`), which TLAPS does not handle. Every
invariant and every action property of the passing runs is stated by a theorem.
To that end they count with `Cardinality` of the places a thing occurs at, and not
with recursively defined operators, about which TLAPS could show nothing.

## 6. Plan

1. `Session`, `Execution`, `GatedRun` and their proofs: done.
2. `Invoker` and proofs: done.
3. `Registry`, `Directory` and their proofs: done.
4. `Durable` and proofs: done.
5. `Pipeline` and its proofs: done.
6. `Saga` and proofs: done.
7. `Contract`, `Serving` and proofs: done.

### What no property covers

`PROJECT.json` lists hazards that the models contain and no property excludes,
with the reason in their notes: a `Save` error the background goroutine ignores,
the torn second write of a file, a plugin found half registered, a `Close` that
calls the kernel, an executor that swallows a refusal, the `PipelineFailure` of an
earlier attempt. In all of these the code does what the hazard says, and no
sentence of the repository says it should not.

### What is not modelled, and why

* TOON, help texts, logging, identifiers, the example servers: formatting and
  I/O without a state of their own.
* `Delete` of the in-memory repositories returns no error, so rollback and
  removal do not fail in `Registry`. The other jsonstore repositories, for
  plugins and definitions, are left out: registration over them would add a
  restart to `Registry`.
* The constructors of definitions (`domain/action.go`, `domain/capability.go`)
  and the snapshots of definitions: they check that fields are not empty.
* The token budget guard and the metering of the examples: a sum over evidence
  and a comparison, in one goroutine. The evidence a saga collects.
* The length of a backoff, with the overflow of its shift for large `MaxRetries`.
* Sagas whose steps are sagas: a child's session is its outcome, whatever it does.
* `Registry` takes every definition to be bound to one of its package's refs;
  resolution of unbound ones is an outcome of `Execution`.
* Goroutines that a composable *capability* starts by itself are not told apart
  from the worker that called it.
* Time: durations, backoff and timestamps are reduced to whether they have
  passed or are set. (A reloaded session has no start time, so the duration of
  its completion event is zero; nothing here depends on it.)
