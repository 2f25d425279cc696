------------------------------ MODULE Execution ------------------------------
(***************************************************************************)
(* One session on its way through the kernel: the use cases of             *)
(* application/execute_action.go and the ActionExecutionService of         *)
(* domain/execution.go, over the in-memory repository, which hands every   *)
(* caller the same *ExecutionSession.                                      *)
(*                                                                         *)
(* Runner is the goroutine that executes the action: the caller's own for  *)
(* Execute (mode "sync"), a background one for ExecuteAsync ("async").     *)
(* Callers are other goroutines that approve or reject the session.  They  *)
(* share nothing but the aggregate, the repository and the publisher, so a *)
(* step is one call on one of these, with the local computation after it.  *)
(*                                                                         *)
(* The outcome of a lookup, of validation, of the rate limiter, of the     *)
(* context and of plugin code is a nondeterministic choice.                *)
(***************************************************************************)
EXTENDS Session

CONSTANTS
    Runner,          \* the goroutine executing the session
    Callers,         \* goroutines calling ApproveSession and RejectSession
    MaxInvocations,  \* bound: capability invocations of the executor
    MaxFaults        \* bound: panics of validators, plugins and publishers

Threads == {Runner} \union Callers

Codes == {"REJECTED", "EXECUTOR_NOT_FOUND", "EXECUTION_ERROR",
          "BUDGET_EXCEEDED", "OUTPUT_VALIDATION_ERROR", "PANIC"}

ASSUME ExecutionAssumption ==
    /\ Runner \notin Callers
    /\ Codes \subseteq FailureCodes
    /\ MaxInvocations \in Nat
    /\ MaxFaults \in Nat

VARIABLES
    mode,         \* "sync" or "async"
    external,     \* the action has external write effects
    stored,       \* the repository can return the session
    pc,           \* where each thread is
    exit,         \* how the last Execute or Resume of a thread ended
    verdict,      \* what the executor returned to a thread
    outbox,       \* events a thread has pulled and not yet published
    published,    \* what the publisher has received
    runs,         \* history: how often the executor was entered
    invocations,  \* history: capability invocations made
    faults,       \* history: panics so far
    overlapped    \* history: a background session was approved before its
                  \* goroutine had published what it pulls on leaving Execute

vars == <<sessionVars, mode, external, stored, pc, exit, verdict, outbox,
          published, runs, invocations, faults, overlapped>>

CapabilityInvoked == [type |-> "capability.invoked"]
BudgetExceeded == [type |-> "budget.exceeded"]

\* What comes of an executor's answer: success, its error, a token budget
\* exceeded by its evidence, or output that breaks the contract.
Verdicts == {"ok", "error", "tokens", "output"}

failureCode(v) ==
    CASE v = "error"  -> "EXECUTION_ERROR"
      [] v = "tokens" -> "BUDGET_EXCEEDED"
      [] v = "output" -> "OUTPUT_VALIDATION_ERROR"

\* ExecuteAsync saves the session before it spawns the goroutine.
savesAlways(m) == TRUE      \* mutant
savesFirst(m) == m = "async"

Init ==
    /\ SessionInit
    /\ mode \in {"sync", "async"}
    /\ external \in BOOLEAN
    /\ stored = savesFirst(mode)
    /\ pc = [t \in Threads |-> IF t = Runner THEN "admitting" ELSE "idle"]
    /\ exit = [t \in Threads |-> "ok"]
    /\ verdict = [t \in Threads |-> "ok"]
    /\ outbox = [t \in Threads |-> <<>>]
    /\ published = <<>>
    /\ runs = 0
    /\ invocations = 0
    /\ faults = 0
    /\ overlapped = FALSE

-----------------------------------------------------------------------------
(* Control flow of a thread.                                               *)

at(t, place) == pc[t] = place

goto(t, place) ==
    /\ pc' = [pc EXCEPT ![t] = place]
    /\ UNCHANGED exit

\* Return from Execute or Resume: the deferred drain comes next.
leave(t, how) ==
    /\ pc' = [pc EXCEPT ![t] = "leaving"]
    /\ exit' = [exit EXCEPT ![t] = how]

fault == faults < MaxFaults /\ faults' = faults + 1

fixed == UNCHANGED <<mode, external, overlapped>>
quiet == UNCHANGED <<outbox, published, faults>>
steady == UNCHANGED <<stored, verdict, runs, invocations>>

\* Execute up to MarkValidated: rate limit, lookup, context, validation.
Admit ==
    /\ at(Runner, "admitting")
    /\ \/ /\ MarkValidated
          /\ goto(Runner, "validated")
          /\ UNCHANGED faults
       \/ /\ leave(Runner, "error")
          /\ UNCHANGED <<sessionVars, faults>>
       \/ /\ fault                          \* a validator that panics
          /\ leave(Runner, "panic")
          /\ UNCHANGED sessionVars
    /\ fixed /\ steady /\ UNCHANGED <<outbox, published>>

\* drain: PullEvents under the mutex, then publishing outside of it.
Pull(t, from, to) ==
    /\ at(t, from)
    /\ PullEvents
    /\ outbox' = [outbox EXCEPT ![t] = pendingEvents]
    /\ goto(t, to)
    /\ fixed /\ steady /\ UNCHANGED <<published, faults>>

DrainStarted == Pull(Runner, "validated", "announcing")

drainsOnSuccessOnly(t) ==   \* mutant
    \/ exit[t] = "ok" /\ Pull(t, "leaving", "flushing")
    \/ /\ exit[t] # "ok" /\ at(t, "leaving")
       /\ goto(t, "returned")
       /\ UNCHANGED sessionVars
       /\ fixed /\ steady /\ quiet

DeferredDrain(t) == Pull(t, "leaving", "flushing")

Publish(t) ==
    /\ pc[t] \in {"announcing", "flushing"}
    /\ outbox[t] # <<>>
    /\ published' = Append(published, Head(outbox[t]))
    /\ outbox' = [outbox EXCEPT ![t] = Tail(@)]
    /\ UNCHANGED <<sessionVars, pc, exit, faults>>
    /\ fixed /\ steady

Published(t) ==
    /\ outbox[t] = <<>>
    /\ \/ at(t, "announcing") /\ goto(t, "resolving")
       \/ at(t, "flushing") /\ goto(t, "returned")
    /\ UNCHANGED sessionVars
    /\ fixed /\ steady /\ quiet

\* The publisher panics: what the thread has pulled is gone.
PublisherPanics(t) ==
    /\ outbox[t] # <<>>
    /\ fault
    /\ outbox' = [outbox EXCEPT ![t] = <<>>]
    /\ \/ at(t, "announcing") /\ leave(t, "panic")
       \/ /\ at(t, "flushing")
          /\ pc' = [pc EXCEPT ![t] = "returned"]
          /\ exit' = [exit EXCEPT ![t] = "panic"]
    /\ UNCHANGED <<sessionVars, published>>
    /\ fixed /\ steady

Resolve ==
    /\ at(Runner, "resolving")
    /\ \/ /\ \E caps \in SUBSET Capabilities : MarkResolved(caps)
          /\ goto(Runner, "resolved")
       \/ /\ leave(Runner, "error")
          /\ UNCHANGED sessionVars
    /\ fixed /\ steady /\ quiet

fallsThrough ==     \* mutant
    /\ at(Runner, "resolved")
    /\ \/ external /\ MarkAwaitingApproval
       \/ ~external /\ UNCHANGED sessionVars
    /\ goto(Runner, "building")
    /\ fixed /\ steady /\ quiet

\* An external write pauses the session, anything else goes on to run().
Gate ==
    /\ at(Runner, "resolved")
    /\ \/ /\ external
          /\ MarkAwaitingApproval
          /\ leave(Runner, "ok")
       \/ /\ ~external
          /\ goto(Runner, "building")
          /\ UNCHANGED sessionVars
    /\ fixed /\ steady /\ quiet

\* Resume: the status check, the rate limit and the lookup of the action.
Resume(t) ==
    /\ at(t, "resuming")
    /\ \/ status = "running" /\ goto(t, "building")
       \/ leave(t, "error")
    /\ UNCHANGED sessionVars
    /\ fixed /\ steady /\ quiet

\* run, up to its look at the status: an approved session is Running already.
Build(t) ==
    /\ at(t, "building")
    /\ \/ status # "running" /\ goto(t, "marking")
       \/ status = "running" /\ goto(t, "dispatching")
       \/ leave(t, "error")
    /\ UNCHANGED sessionVars
    /\ fixed /\ steady /\ quiet

\* The transition to Running, made or refused on the status of that moment.
Begin(t) ==
    /\ at(t, "marking")
    /\ \/ MarkRunning /\ goto(t, "dispatching")
       \/ /\ status \notin {"resolved", "awaiting_approval"}
          /\ leave(t, "error")
          /\ UNCHANGED sessionVars
    /\ fixed /\ steady /\ quiet

Dispatch(t) ==
    /\ at(t, "dispatching")
    /\ goto(t, "executing")
    /\ runs' = runs + 1
    /\ UNCHANGED <<sessionVars, stored, verdict, invocations>>
    /\ fixed /\ quiet

\* No executor is registered: Fail, and an error whether Fail was legal or not.
ExecutorNotFound(t) ==
    /\ at(t, "dispatching")
    /\ \/ Fail("EXECUTOR_NOT_FOUND")
       \/ status # "running" /\ UNCHANGED sessionVars
    /\ leave(t, "error")
    /\ fixed /\ steady /\ quiet

\* Plugin code: it emits chunks, invokes capabilities, returns or panics.
EmitChunk(t) ==
    /\ at(t, "executing")
    /\ Emit
    /\ UNCHANGED <<pc, exit>>
    /\ fixed /\ steady /\ quiet

InvokeCapability(t) ==
    /\ at(t, "executing")
    /\ invocations < MaxInvocations
    /\ invocations' = invocations + 1
    /\ published' = Append(published, CapabilityInvoked)
    /\ UNCHANGED <<sessionVars, stored, pc, exit, verdict, outbox, runs, faults>>
    /\ fixed

ExecutorReturns(t) ==
    /\ at(t, "executing")
    /\ \E v \in Verdicts : verdict' = [verdict EXCEPT ![t] = v]
    /\ goto(t, "recording")
    /\ UNCHANGED <<sessionVars, stored, runs, invocations>>
    /\ fixed /\ quiet

ExecutorPanics(t) ==
    /\ at(t, "executing")
    /\ fault
    /\ leave(t, "panic")
    /\ UNCHANGED <<sessionVars, outbox, published>>
    /\ fixed /\ steady

\* The evidence the executor returned is appended record by record.
RecordEvidence(t) ==
    /\ at(t, "recording")
    /\ \E v \in Values : AppendEvidence(v)
    /\ UNCHANGED <<pc, exit>>
    /\ fixed /\ steady /\ quiet

\* The token check announces its verdict before the session fails.
Judge(t) ==
    /\ at(t, "recording")
    /\ \/ /\ verdict[t] # "tokens"
          /\ goto(t, "concluding")
          /\ quiet
       \/ /\ verdict[t] = "tokens"
          /\ goto(t, "concluding")
          /\ published' = Append(published, BudgetExceeded)
          /\ UNCHANGED <<outbox, faults>>
       \/ /\ verdict[t] = "tokens"
          /\ fault
          /\ leave(t, "panic")
          /\ UNCHANGED <<outbox, published>>
    /\ UNCHANGED sessionVars
    /\ fixed /\ steady

Conclude(t) ==
    /\ at(t, "concluding")
    /\ \/ /\ \/ verdict[t] = "ok" /\ Succeed
             \/ verdict[t] # "ok" /\ Fail(failureCode(verdict[t]))
          /\ leave(t, "ok")
          /\ UNCHANGED faults
       \/ /\ status # "running"
          /\ leave(t, "error")
          /\ UNCHANGED <<sessionVars, faults>>
       \/ /\ verdict[t] \in {"ok", "output"}  \* a validator that panics
          /\ fault
          /\ leave(t, "panic")
          /\ UNCHANGED sessionVars
    /\ fixed /\ steady /\ UNCHANGED <<outbox, published>>

-----------------------------------------------------------------------------
(* The use cases around Execute and Resume.                                *)

\* Where the background goroutine goes after Execute.
checksAlways(how) == IF how = "panic" THEN "recovering" ELSE "checking" \* mutant
ignoresError(how) == IF how = "panic" THEN "recovering" ELSE "done"     \* mutant
afterExecute(how) ==
    CASE how = "ok"    -> "done"
      [] how = "error" -> "checking"
      [] how = "panic" -> "recovering"

\* Execute saves the session whatever came back, unless a panic passes
\* through; the callers' Save stores the pointer the repository has already.
Return(t) ==
    /\ at(t, "returned")
    /\ \/ /\ t = Runner /\ mode = "sync"
          /\ stored' = (stored \/ exit[t] # "panic")
          /\ goto(t, "done")
       \/ /\ t = Runner /\ mode = "async"
          /\ goto(t, afterExecute(exit[t]))
          /\ UNCHANGED stored
       \/ /\ t \in Callers
          /\ goto(t, "idle")
          /\ UNCHANGED stored
    /\ UNCHANGED <<sessionVars, verdict, runs, invocations>>
    /\ fixed /\ quiet

\* ExecuteAsync after an error: two looks at the status, then the abort.
CheckSettled ==
    /\ \/ /\ at(Runner, "checking")
          /\ goto(Runner, IF status \in Terminal THEN "done" ELSE "rechecking")
       \/ /\ at(Runner, "rechecking")
          /\ goto(Runner, IF status = "awaiting_approval" THEN "done"
                                                         ELSE "aborting")
    /\ UNCHANGED sessionVars
    /\ fixed /\ steady /\ quiet

\* The deferred recover of ExecuteAsync: Fail, and Abort when Fail is refused.
Recover ==
    /\ at(Runner, "recovering")
    /\ \/ Fail("PANIC") /\ goto(Runner, "done")
       \/ /\ status # "running"
          /\ goto(Runner, "aborting")
          /\ UNCHANGED sessionVars
    /\ fixed /\ steady /\ quiet

AbortSession ==
    /\ at(Runner, "aborting")
    /\ Abort(IF exit[Runner] = "panic" THEN "PANIC" ELSE "EXECUTION_ERROR")
    /\ goto(Runner, "done")
    /\ fixed /\ steady /\ quiet

approvesWithoutResume(t) ==     \* mutant
    /\ at(t, "idle") /\ stored
    /\ \E p \in Principals \union {NoPrincipal} : Approve(p)
    /\ UNCHANGED <<pc, exit>>
    /\ fixed /\ steady /\ quiet

\* The goroutine of ExecuteAsync has events of the session to publish yet: it
\* holds them, or is about to pull them.
DrainUnderway ==
    mode = "async" /\ (at(Runner, "leaving") \/ outbox[Runner] # <<>>)

\* ApproveSession: Get and Approve; Resume follows.  A refused decision
\* changes nothing.
ApproveSession(t) ==
    /\ at(t, "idle") /\ stored
    /\ \E p \in Principals \union {NoPrincipal} : Approve(p)
    /\ goto(t, "resuming")
    /\ overlapped' = (overlapped \/ DrainUnderway)
    /\ UNCHANGED <<mode, external>> /\ steady /\ quiet

\* RejectSession: Get, Reject and Save, with no drain.
RejectSession(t) ==
    /\ at(t, "idle") /\ stored
    /\ \E p \in Principals \union {NoPrincipal} : Reject("REJECTED", p)
    /\ UNCHANGED <<pc, exit>>
    /\ fixed /\ steady /\ quiet

RunnerStep ==
    Admit \/ DrainStarted \/ Resolve \/ Gate
        \/ CheckSettled \/ Recover \/ AbortSession

WorkStep(t) ==
    \/ Build(t) \/ Begin(t) \/ Dispatch(t) \/ ExecutorNotFound(t)
    \/ EmitChunk(t) \/ InvokeCapability(t)
    \/ ExecutorReturns(t) \/ ExecutorPanics(t)
    \/ RecordEvidence(t) \/ Judge(t) \/ Conclude(t)

ServiceStep(t) ==
    \/ DeferredDrain(t) \/ Publish(t) \/ Published(t) \/ PublisherPanics(t)
    \/ Return(t)

CallerStep(t) == Resume(t) \/ WorkStep(t) \/ ServiceStep(t)

Next ==
    \/ RunnerStep \/ WorkStep(Runner) \/ ServiceStep(Runner)
    \/ \E t \in Callers :
           ApproveSession(t) \/ RejectSession(t) \/ CallerStep(t)

Spec == Init /\ [][Next]_vars

\* The Go scheduler runs every goroutine, and plugin code returns: nothing is
\* assumed of the people who approve and reject.
Fairness ==
    /\ WF_vars(RunnerStep \/ WorkStep(Runner) \/ ServiceStep(Runner))
    /\ \A t \in Callers : WF_vars(CallerStep(t))

FairSpec == Spec /\ Fairness

-----------------------------------------------------------------------------
(* Correctness.                                                            *)

Places == {"idle", "admitting", "validated", "announcing", "resolving",
           "resolved", "resuming", "building", "marking", "dispatching",
           "executing", "recording", "concluding", "leaving", "flushing",
           "returned", "checking", "rechecking", "recovering", "aborting",
           "done"}

BusEvent == SessionEvent \union {CapabilityInvoked, BudgetExceeded}

\* Every variable of the kernel has its type, and the bounds hold.
TypeOK ==
    /\ SessionTypeOK
    /\ mode \in {"sync", "async"}
    /\ external \in BOOLEAN
    /\ stored \in BOOLEAN
    /\ pc \in [Threads -> Places]
    /\ exit \in [Threads -> {"ok", "error", "panic"}]
    /\ verdict \in [Threads -> Verdicts]
    /\ outbox \in [Threads -> Seq(SessionEvent)]
    /\ published \in Seq(BusEvent)
    /\ runs \in Nat
    /\ invocations \in 0 .. MaxInvocations
    /\ faults \in 0 .. MaxFaults
    /\ overlapped \in BOOLEAN

\* Between the call of the executor and the transition its answer causes.
Working(t) == pc[t] \in {"executing", "recording", "concluding"}

Quiescent == \A t \in Threads : pc[t] \in {"idle", "done"}

\* However many callers approve, the executor of a session is entered at most
\* once, so at most one goroutine is ever working for it.
RunsAtMostOnce ==
    /\ runs <= 1
    /\ \A t, u \in Threads : Working(t) /\ Working(u) => t = u

\* The effect gate: the executor of an action with external write effects is
\* entered only after somebody approved, and only by the goroutine that did.
ApprovalBeforeEffect ==
    /\ external /\ runs > 0 => approvalDecision # NoPrincipal
    /\ \A t \in Threads : Working(t) => (external <=> t # Runner)

\* Nobody works for a session that is not Running, so that no chunk, capability
\* call or evidence comes after SessionCompleted.  One thing ends a session under
\* an executor: the recover of ExecuteAsync, when its goroutine paused the
\* session, panicked in the drain that follows, and somebody approved meanwhile.
NoLateWork ==
    \A t \in Threads : Working(t) /\ status # "running" =>
        t # Runner /\ mode = "async" /\ exit[Runner] = "panic"

\* At rest, a session that is neither terminal nor waiting for a decision was
\* given up by a call that told its caller so: a synchronous Execute that
\* failed before the run or panicked before or in it, or a Resume that did after
\* the approval.
\* A background session is never left before its run (CHANGELOG.md:57).
AbandonedOnlyAfterError ==
    Quiescent /\ status \notin Terminal \union {"awaiting_approval"} =>
        \/ mode = "sync" /\ exit[Runner] # "ok"
        \/ status = "running" /\ \E t \in Callers : exit[t] # "ok"

occurrences(e, seq) == Cardinality({i \in DOMAIN seq : seq[i] = e})

\* No event is ever in two places, or twice in one: the session's buffer, the
\* hands of a goroutine that pulled it, the publisher.  (Evidence events are
\* left out: two records may have the same hash.)
NoEventTwice ==
    \A e \in {x \in SessionEvent : x.type # "evidence.recorded"} :
        occurrences(e, published) + occurrences(e, pendingEvents)
            + Cardinality({t \in Threads : occurrences(e, outbox[t]) > 0})
        <= 1

\* At rest and without a panic, everything raised has been published, but for
\* the SessionCompleted of a rejection or of an aborted background session,
\* which stays in the buffer.
DeliveredAtRest ==
    Quiescent /\ faults = 0 =>
        /\ \A i \in DOMAIN pulled : occurrences(pulled[i], published) > 0
        /\ \/ pendingEvents = <<>>
           \/ /\ status = "rejected" \/ (mode = "async" /\ exit[Runner] = "error")
              /\ Len(pendingEvents) = 1
              /\ IsCompletion(pendingEvents[1])

\* Without a panic, the publisher sees a session's events in the order the
\* session raised them, whoever drains them, unless somebody approved it before
\* the goroutine of ExecuteAsync had published what it pulls on leaving Execute.
DeliveredInOrder ==
    faults = 0 /\ ~overlapped =>
        \A i \in DOMAIN published :
            LET seen == {j \in 1 .. i : published[j] \in SessionEvent}
            IN  i \in seen => /\ Cardinality(seen) <= Len(Raised)
                             /\ published[i] = Raised[Cardinality(seen)]

\* A session begun with ExecuteAsync does not stay in Pending, Validated,
\* Resolved, or in a Running nobody approved.
AsyncSettles ==
    mode = "async" ~> \/ status \in Terminal \union {"awaiting_approval"}
                      \/ approvalDecision # NoPrincipal

\* An approved session reaches a terminal status, unless the ApproveSession
\* that approved it returned an error or panicked.
ApprovedFinishes ==
    approvalDecision # NoPrincipal ~>
        status \in Terminal \/ \E t \in Callers : exit[t] # "ok"

\* The gate the kernel promises, over this module's state.
Stage ==
    CASE status \in {"pending", "validated", "resolved"} -> "open"
      [] status = "awaiting_approval" -> "waiting"
      [] status = "running" -> "cleared"
      [] status \in Terminal -> "closed"

Granted == approvalDecision # NoPrincipal /\ status # "rejected"

Gated == INSTANCE GatedRun WITH stage <- Stage, granted <- Granted

GatedSpec == Gated!Spec

-----------------------------------------------------------------------------
(* What comments and documents say and the code does not do.               *)

Announced(st) ==
    \E i \in DOMAIN published :
        IsCompletion(published[i]) /\ published[i].status = st

\* README.md:41 has subscribers see every lifecycle transition, "completed"
\* included, and domain/events.go:112-113 raises SessionCompleted for a session
\* that succeeded, failed or was rejected: at rest, a terminal session has had
\* its completion published.
CompletionReachesSubscribers ==
    Quiescent /\ status \in Terminal /\ faults = 0 => Announced(status)
=============================================================================
