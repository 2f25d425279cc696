------------------------------- MODULE Pipeline -------------------------------
(***************************************************************************)
(* A pipeline of capabilities with compensation (domain/pipeline.go), and  *)
(* the retries of the invoker around it when it is itself invoked as a     *)
(* composable capability of an idempotent action (domain/execution.go).    *)
(*                                                                         *)
(* world is what the capabilities have done outside of the kernel: one     *)
(* effect per attempt and step that stands until a hook undoes it.  A step *)
(* that returns an error may have left its effect all the same.            *)
(***************************************************************************)
EXTENDS Integers, Sequences

CONSTANTS
    N,              \* number of steps
    MaxAttempts     \* 1 + MaxRetries of the budget

ASSUME PipelineAssumption == N \in Nat /\ MaxAttempts \in Nat \ {0}

Steps == 1 .. N

VARIABLES
    hooked,         \* the steps with a Compensate hook
    pc,             \* where ExecuteWithInvoker is
    attempt,        \* which attempt of the invoker it is
    completed,      \* outputs of the steps completed, each named by its effect
    cursor,         \* compensate's loop variable
    compensated,    \* failure.Compensated
    errors,         \* length of failure.CompensationErrors
    cancelled,      \* ctx.Err() # nil
    world,          \* effects that stand
    records         \* history: the *PipelineFailure of each failed attempt

vars == <<hooked, pc, attempt, completed, cursor, compensated, errors,
          cancelled, world, records>>

Effect(a, i) == [attempt |-> a, step |-> i]
Effects == [attempt : 1 .. MaxAttempts, step : Steps]

CompensatedStep == [step : Steps, output : Effects, ok : BOOLEAN]

PipelineFailure ==
    [failed : Steps, completed : Seq(Effects),
     compensated : Seq(CompensatedStep), errors : Nat]

Init ==
    /\ hooked \in SUBSET Steps
    /\ pc = "invoking"
    /\ attempt = 1
    /\ completed = <<>>
    /\ cursor = 0
    /\ compensated = <<>>
    /\ errors = 0
    /\ cancelled = FALSE
    /\ world = {}
    /\ records = <<>>

-----------------------------------------------------------------------------
next == Len(completed) + 1

\* Invoke and Transform of the next step succeed.  Whatever retries Invoke
\* makes of an idempotent step count as one effect.
StepSucceeds ==
    /\ pc = "invoking" /\ next <= N
    /\ world' = world \union {Effect(attempt, next)}
    /\ completed' = Append(completed, Effect(attempt, next))
    /\ UNCHANGED <<hooked, pc, attempt, cursor, compensated, errors, cancelled,
                   records>>

\* The last index of completed, where the walk begins.
last == Len(completed)

\* Invoke returns an error, with or without its effect: compensate follows.
StepFails ==
    /\ pc = "invoking" /\ next <= N
    /\ world' \in {world, world \union {Effect(attempt, next)}}
    /\ pc' = "compensating"
    /\ cursor' = last
    /\ UNCHANGED <<hooked, attempt, completed, compensated, errors, cancelled,
                   records>>

\* A capability, a Transform or a hook panics: nothing recovers it here.
Panic ==
    /\ \/ /\ pc = "invoking" /\ next <= N
          /\ world' \in {world, world \union {Effect(attempt, next)}}
       \/ /\ pc = "compensating" /\ cursor > 0 /\ cursor \in hooked
          /\ ~cancelled
          /\ UNCHANGED world
    /\ pc' = "panicked"
    /\ UNCHANGED <<hooked, attempt, completed, cursor, compensated, errors,
                   cancelled, records>>

Finish ==
    /\ pc = "invoking" /\ next > N
    /\ pc' = "succeeded"
    /\ UNCHANGED <<hooked, attempt, completed, cursor, compensated, errors,
                   cancelled, world, records>>

backward(i) == i - 1

\* The output handed to the hook of step i.
firstOutput(i) == completed[1]      \* mutant
ownOutput(i) == completed[i]

walking == pc = "compensating" /\ cursor > 0 /\ ~cancelled

tried(ok) ==
    compensated' = Append(compensated, [step |-> cursor,
                                        output |-> ownOutput(cursor), ok |-> ok])

HookSucceeds ==
    /\ walking /\ cursor \in hooked
    /\ world' = world \ {ownOutput(cursor)}
    /\ tried(TRUE)
    /\ cursor' = backward(cursor)
    /\ UNCHANGED <<hooked, pc, attempt, completed, errors, cancelled, records>>

\* A hook that returns an error may have undone the effect all the same.
HookFails ==
    /\ walking /\ cursor \in hooked
    /\ world' \in {world, world \ {ownOutput(cursor)}}
    /\ tried(FALSE)
    /\ errors' = errors + 1
    /\ cursor' = backward(cursor)
    /\ UNCHANGED <<hooked, pc, attempt, completed, cancelled, records>>

NoHook ==
    /\ walking /\ cursor \notin hooked
    /\ cursor' = backward(cursor)
    /\ UNCHANGED <<hooked, pc, attempt, completed, compensated, errors,
                   cancelled, world, records>>

stopsSilently ==    \* mutant
    /\ pc = "compensating" /\ cursor > 0 /\ cancelled
    /\ cursor' = 0
    /\ UNCHANGED <<hooked, pc, attempt, completed, compensated, errors,
                   cancelled, world, records>>

\* The context is looked at before each step of the walk.
StopWalk ==
    /\ pc = "compensating" /\ cursor > 0 /\ cancelled
    /\ errors' = errors + 1
    /\ cursor' = 0
    /\ UNCHANGED <<hooked, pc, attempt, completed, compensated, cancelled,
                   world, records>>

\* ExecuteWithInvoker returns the failure.
ReturnFailure ==
    /\ pc = "compensating" /\ cursor = 0
    /\ pc' = "failed"
    /\ records' = Append(records,
                         [failed |-> next, completed |-> completed,
                          compensated |-> compensated, errors |-> errors])
    /\ UNCHANGED <<hooked, attempt, completed, cursor, compensated, errors,
                   cancelled, world>>

retriesWithOutputs ==       \* mutant
    /\ pc = "failed" /\ attempt < MaxAttempts /\ ~cancelled
    /\ attempt' = attempt + 1
    /\ pc' = "invoking"
    /\ compensated' = <<>>
    /\ errors' = 0
    /\ UNCHANGED <<hooked, completed, cursor, cancelled, world, records>>

\* The invoker's retry: the pipeline runs again from its first step.
Retry ==
    /\ pc = "failed" /\ attempt < MaxAttempts /\ ~cancelled
    /\ attempt' = attempt + 1
    /\ pc' = "invoking"
    /\ completed' = <<>>
    /\ compensated' = <<>>
    /\ errors' = 0
    /\ UNCHANGED <<hooked, cursor, cancelled, world, records>>

\* No retry: the action is not idempotent, the attempts are used up, the
\* context is done, or nobody retries around the pipeline.
GiveUp ==
    /\ pc = "failed"
    /\ pc' = "returned"
    /\ UNCHANGED <<hooked, attempt, completed, cursor, compensated, errors,
                   cancelled, world, records>>

Cancel ==
    /\ pc \notin {"succeeded", "returned", "panicked"}
    /\ ~cancelled
    /\ cancelled' = TRUE
    /\ UNCHANGED <<hooked, pc, attempt, completed, cursor, compensated, errors,
                   world, records>>

Walk == HookSucceeds \/ HookFails \/ NoHook \/ StopWalk

Step ==
    \/ StepSucceeds \/ StepFails \/ Panic \/ Finish
    \/ Walk \/ ReturnFailure \/ Retry \/ GiveUp

Next == Step \/ Cancel

Spec == Init /\ [][Next]_vars

-----------------------------------------------------------------------------
(* Correctness.                                                            *)

TypeOK ==
    /\ hooked \subseteq Steps
    /\ pc \in {"invoking", "compensating", "failed", "returned", "succeeded",
               "panicked"}
    /\ attempt \in 1 .. MaxAttempts
    /\ completed \in Seq(Effects) /\ Len(completed) <= N
    /\ cursor \in 0 .. Len(completed)
    /\ compensated \in Seq(CompensatedStep)
    /\ errors \in Nat
    /\ cancelled \in BOOLEAN
    /\ world \subseteq Effects
    /\ records \in Seq(PipelineFailure)

\* What a record says of an effect: its hook was called, and returned nil.
CalledFor(r, e) == \E k \in DOMAIN r.compensated : r.compensated[k].output = e
UndoneBy(r, e) ==
    \E k \in DOMAIN r.compensated :
        r.compensated[k].output = e /\ r.compensated[k].ok

\* The audit trail tells the truth about the world: of the steps an attempt
\* completed, those its PipelineFailure shows as undone are gone and those no
\* hook was called for still stand, in that attempt and in every later one.
RecordsTellStanding ==
    \A a \in DOMAIN records :
        \A i \in DOMAIN records[a].completed :
            LET e == records[a].completed[i]
            IN  /\ UndoneBy(records[a], e) => e \notin world
                /\ ~CalledFor(records[a], e) => e \in world

\* Compensation runs in reverse order of completion: while an effect is gone,
\* every later step of its attempt that stands has no hook or a hook that
\* was called and failed.
ReverseOrder ==
    pc \in {"compensating", "failed"} =>
        \A i, j \in DOMAIN completed :
            i < j /\ completed[i] \notin world /\ completed[j] \in world
            /\ j \in hooked =>
                \E k \in DOMAIN compensated :
                    compensated[k].step = j /\ ~compensated[k].ok

\* All or nothing, as far as the hooks go: after a success every step of the
\* last attempt stands; and what stands of any attempt that failed is the
\* effect of the step that failed, or of one without a hook, or is owned up
\* to by that attempt's CompensationErrors, a cancelled walk included.
AllOrNothing ==
    /\ pc = "succeeded" => {Effect(attempt, i) : i \in Steps} \subseteq world
    /\ \A e \in world :
           e.attempt \in DOMAIN records =>
               \/ e.step = records[e.attempt].failed
               \/ e.step \notin hooked
               \/ records[e.attempt].errors > 0
=============================================================================
