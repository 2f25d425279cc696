--------------------------------- MODULE Saga ---------------------------------
(***************************************************************************)
(* One action invoking others: the ActionInvoker of domain/invoker.go, its *)
(* implementation in axi.go, and the orchestrator of example/saga/main.go, *)
(* which runs a list of actions in order, keeps a log of them (outbox) and *)
(* records a compensation for every step done when a later one stops it.   *)
(*                                                                         *)
(* Every step runs in a session of its own.  Until Save a session belongs  *)
(* to the saga's goroutine alone, so Execute is one step up to there; from *)
(* Save on people may decide on it, between any two reads of the saga.     *)
(* What happens inside a session is the business of module Execution: here *)
(* it is its outcome, chosen freely.                                       *)
(***************************************************************************)
EXTENDS Naturals, Sequences, FiniteSets

CONSTANTS
    Sagas,          \* goroutines that execute saga.run, each its own saga_id
    SessionIDs,
    NoSession,
    Local,          \* names of actions that are executed at once
    External,       \* names of actions with external write effects
    NoName,         \* a step that is no string, or the empty one
    Plans,          \* values of the input "steps"
    MaxAttempts     \* bound: how often a caller starts one saga

Names == Local \union External

ASSUME SagaAssumption ==
    /\ NoSession \notin SessionIDs
    /\ Local \intersect External = {}
    /\ NoName \notin Names
    /\ Plans \subseteq Seq(Names \union {NoName})
    /\ MaxAttempts \in Nat

VARIABLES
    status,         \* of each session; "unused" before it is created
    action,         \* of each session
    stored,         \* sessions the repository can return
    approved,       \* sessions somebody approved
    resuming,       \* approved sessions whose ApproveSession is at work
    outbox,         \* Outbox.entries
    pc,             \* where each saga is
    plan,           \* its steps
    completed,      \* the sessions of the steps it takes for done
    current,        \* the session it has just invoked
    seen,           \* ActionOutcome.Status as read
    settled,        \* ActionOutcome carries a Result or a Failure
    todo,           \* steps of which compensation is still to be recorded
    parent,         \* status of the session that executes saga.run
    how,            \* history: how the last attempt ended
    attempts        \* history: attempts so far

people == <<status, approved, resuming>>
invoker == <<action, stored, current, seen, settled>>
saga == <<outbox, plan, completed, todo, parent, how, attempts>>
vars == <<people, invoker, saga, pc>>

Statuses == {"unused", "open", "awaiting_approval", "running", "succeeded",
             "failed", "rejected"}

Settled == {"succeeded", "failed", "rejected"}

\* ActionOutcome.IsFailure
IsFailure(st) == st \in {"failed", "rejected"}
IsAwaitingApproval(st) == st = "awaiting_approval"

Init ==
    /\ status = [c \in SessionIDs |-> "unused"]
    /\ action = [c \in SessionIDs |-> NoName]
    /\ stored = {} /\ approved = {} /\ resuming = {}
    /\ outbox = <<>>
    /\ pc = [s \in Sagas |-> "idle"]
    /\ plan = [s \in Sagas |-> <<>>]
    /\ completed = [s \in Sagas |-> <<>>]
    /\ current = [s \in Sagas |-> NoSession]
    /\ seen = [s \in Sagas |-> "unused"]
    /\ settled = [s \in Sagas |-> FALSE]
    /\ todo = [s \in Sagas |-> 0]
    /\ parent = [s \in Sagas |-> "none"]
    /\ how = [s \in Sagas |-> "none"]
    /\ attempts = [s \in Sagas |-> 0]

-----------------------------------------------------------------------------
at(s, place) == pc[s] = place
goto(s, place) == pc' = [pc EXCEPT ![s] = place]

\* The log.  A compensation names no session.
entry(s, kind, name, id, st) ==
    [saga |-> s, kind |-> kind, step |-> name, session |-> id, status |-> st]

Log(e) == outbox' = Append(outbox, e)

\* ExecuteOrchestrated is over; run turns its answer into the parent's status.
end(s, st, reason) ==
    /\ parent' = [parent EXCEPT ![s] = st]
    /\ how' = [how EXCEPT ![s] = reason]
    /\ goto(s, "idle")

position(s) == Len(completed[s]) + 1
step(s) == IF position(s) \in DOMAIN plan[s] THEN plan[s][position(s)] ELSE NoName
finished(s) == plan[s] # <<>> /\ position(s) > Len(plan[s])

\* Execute of saga.run, by a caller who may have run it before.
StartSaga(s) ==
    /\ at(s, "idle")
    /\ attempts[s] < MaxAttempts
    /\ attempts' = [attempts EXCEPT ![s] = @ + 1]
    /\ \E p \in Plans : plan' = [plan EXCEPT ![s] = p]
    /\ completed' = [completed EXCEPT ![s] = <<>>]
    /\ parent' = [parent EXCEPT ![s] = "running"]
    /\ how' = [how EXCEPT ![s] = "none"]
    /\ goto(s, "stepping")
    /\ UNCHANGED <<people, invoker, outbox, todo>>

\* No steps at all, or one without a name: an error, and no word in the log.
BadStep(s) ==
    /\ at(s, "stepping")
    /\ ~finished(s) /\ step(s) = NoName
    /\ end(s, "failed", "badstep")
    /\ UNCHANGED <<people, invoker, outbox, plan, completed, todo, attempts>>

Finish(s) ==
    /\ at(s, "stepping")
    /\ finished(s)
    /\ Log(entry(s, "done", NoName, NoSession, "succeeded"))
    /\ end(s, "succeeded", "done")
    /\ UNCHANGED <<people, invoker, plan, completed, todo, attempts>>

\* A fresh session for the next step.
stepTodo(s) ==
    /\ at(s, "stepping")
    /\ step(s) # NoName

invokes(s, id, st) ==
    /\ status[id] = "unused"
    /\ status' = [status EXCEPT ![id] = st]
    /\ action' = [action EXCEPT ![id] = step(s)]
    /\ current' = [current EXCEPT ![s] = id]

\* Execute came to an end without an error: at the gate or behind the run.
Invoke(s, id) ==
    /\ stepTodo(s)
    /\ \/ step(s) \in External /\ invokes(s, id, "awaiting_approval")
       \/ /\ step(s) \in Local
          /\ invokes(s, id, "succeeded") \/ invokes(s, id, "failed")
    /\ goto(s, "saving")
    /\ UNCHANGED <<approved, resuming, stored, seen, settled, saga>>

\* A transport error: the log has it, and nothing is compensated.
transportError(s) ==
    /\ Log(entry(s, "error", step(s), NoSession, "failed"))
    /\ end(s, "failed", "transport")
    /\ UNCHANGED <<plan, completed, todo, attempts>>

\* Execute returned an error: rate limit, lookup, context, input, resolution,
\* executor; it still tries to save the session.
InvokeError(s, id) ==
    /\ stepTodo(s)
    /\ \/ invokes(s, id, "open")
       \/ step(s) \in Local /\ invokes(s, id, "failed")
    /\ stored' \in {stored, stored \union {id}}
    /\ transportError(s)
    /\ UNCHANGED <<approved, resuming, seen, settled>>

\* A panic in Execute passes through the saga as well.  ExecuteAsync recovers
\* it and fails the parent, Execute leaves the parent as it is.
InvokePanics(s, id) ==
    /\ stepTodo(s)
    /\ \/ invokes(s, id, "open")
       \/ step(s) \in External /\ invokes(s, id, "awaiting_approval")
       \/ /\ step(s) \in Local
          /\ \E st \in {"running", "succeeded", "failed"} : invokes(s, id, st)
    /\ \E st \in {"running", "failed"} : end(s, st, "panic")
    /\ UNCHANGED <<approved, resuming, stored, seen, settled, outbox, plan,
                   completed, todo, attempts>>

\* Save, which a repository of the host's may refuse.
Save(s) ==
    /\ at(s, "saving")
    /\ \/ /\ stored' = stored \union {current[s]}
          /\ goto(s, "status")
          /\ UNCHANGED saga
       \/ /\ transportError(s)
          /\ UNCHANGED stored
    /\ UNCHANGED <<people, action, current, seen, settled>>

\* outputFromSession reads the session field by field, each under its mutex:
\* the status first, then result and failure.
statusLast(s) ==        \* mutant
    /\ \/ /\ at(s, "status")
          /\ settled' = [settled EXCEPT ![s] = status[current[s]] \in Settled]
          /\ goto(s, "rest")
          /\ UNCHANGED seen
       \/ /\ at(s, "rest")
          /\ seen' = [seen EXCEPT ![s] = status[current[s]]]
          /\ goto(s, "judging")
          /\ UNCHANGED settled
    /\ UNCHANGED <<people, action, stored, current, saga>>

outputFromSession(s) ==
    /\ \/ /\ at(s, "status")
          /\ seen' = [seen EXCEPT ![s] = status[current[s]]]
          /\ goto(s, "rest")
          /\ UNCHANGED settled
       \/ /\ at(s, "rest")
          /\ settled' = [settled EXCEPT ![s] = status[current[s]] \in Settled]
          /\ goto(s, "judging")
          /\ UNCHANGED seen
    /\ UNCHANGED <<people, action, stored, current, saga>>

Stops(st) == IsAwaitingApproval(st) \/ IsFailure(st)

ignoresPause(s) ==      \* mutant
    /\ at(s, "judging")
    /\ Log(entry(s, "step", step(s), current[s], seen[s]))
    /\ \/ /\ IsFailure(seen[s])
          /\ todo' = [todo EXCEPT ![s] = Len(completed[s])]
          /\ goto(s, "compensating")
          /\ UNCHANGED completed
       \/ /\ ~IsFailure(seen[s])
          /\ completed' = [completed EXCEPT ![s] = Append(@, current[s])]
          /\ goto(s, "stepping")
          /\ UNCHANGED todo
    /\ UNCHANGED <<people, invoker, plan, parent, how, attempts>>

logsOnlySuccess(s) ==   \* mutant
    /\ at(s, "judging")
    /\ \/ /\ Stops(seen[s])
          /\ todo' = [todo EXCEPT ![s] = Len(completed[s])]
          /\ goto(s, "compensating")
          /\ UNCHANGED <<completed, outbox>>
       \/ /\ ~Stops(seen[s])
          /\ Log(entry(s, "step", step(s), current[s], seen[s]))
          /\ completed' = [completed EXCEPT ![s] = Append(@, current[s])]
          /\ goto(s, "stepping")
          /\ UNCHANGED todo
    /\ UNCHANGED <<people, invoker, plan, parent, how, attempts>>

\* The outcome goes to the log; a pause or a failure stops the saga.
Judge(s) ==
    /\ at(s, "judging")
    /\ Log(entry(s, "step", step(s), current[s], seen[s]))
    /\ \/ /\ Stops(seen[s])
          /\ todo' = [todo EXCEPT ![s] = Len(completed[s])]
          /\ goto(s, "compensating")
          /\ UNCHANGED completed
       \/ /\ ~Stops(seen[s])
          /\ completed' = [completed EXCEPT ![s] = Append(@, current[s])]
          /\ goto(s, "stepping")
          /\ UNCHANGED todo
    /\ UNCHANGED <<people, invoker, plan, parent, how, attempts>>

forgetsFirst(s) ==      \* mutant
    /\ at(s, "compensating")
    /\ \/ /\ todo[s] > 1
          /\ Log(entry(s, "compensate", action[completed[s][todo[s]]], NoSession,
                       "pending"))
          /\ todo' = [todo EXCEPT ![s] = @ - 1]
          /\ UNCHANGED <<pc, parent, how>>
       \/ /\ todo[s] <= 1
          /\ end(s, "failed", "stopped")
          /\ UNCHANGED <<outbox, todo>>
    /\ UNCHANGED <<people, invoker, plan, completed, attempts>>

\* recordCompensate: intents only, the last step first.
RecordCompensate(s) ==
    /\ at(s, "compensating")
    /\ \/ /\ todo[s] > 0
          /\ Log(entry(s, "compensate", action[completed[s][todo[s]]], NoSession,
                       "pending"))
          /\ todo' = [todo EXCEPT ![s] = @ - 1]
          /\ UNCHANGED <<pc, parent, how>>
       \/ /\ todo[s] = 0
          /\ end(s, "failed", "stopped")
          /\ UNCHANGED <<outbox, todo>>
    /\ UNCHANGED <<people, invoker, plan, completed, attempts>>

-----------------------------------------------------------------------------
(* People, at any time after the session is stored.                        *)

undecided(id) == id \in stored /\ status[id] = "awaiting_approval"

Approve(id) ==
    /\ undecided(id)
    /\ status' = [status EXCEPT ![id] = "running"]
    /\ approved' = approved \union {id}
    /\ resuming' = resuming \union {id}
    /\ UNCHANGED <<invoker, saga, pc>>

\* Resume to its end, or to an error that leaves the session Running.
Resume(id) ==
    /\ id \in resuming
    /\ resuming' = resuming \ {id}
    /\ \E st \in {"running", "failed", "succeeded"} :
           status' = [status EXCEPT ![id] = st]
    /\ UNCHANGED <<approved, invoker, saga, pc>>

Reject(id) ==
    /\ undecided(id)
    /\ status' = [status EXCEPT ![id] = "rejected"]
    /\ UNCHANGED <<approved, resuming, invoker, saga, pc>>

SagaStep(s) ==
    \/ BadStep(s) \/ Finish(s)
    \/ Save(s) \/ outputFromSession(s) \/ Judge(s) \/ RecordCompensate(s)
    \/ \E id \in SessionIDs : Invoke(s, id) \/ InvokeError(s, id) \/ InvokePanics(s, id)

Next ==
    \/ \E s \in Sagas : StartSaga(s) \/ SagaStep(s)
    \/ \E id \in SessionIDs : Approve(id) \/ Resume(id) \/ Reject(id)

Spec == Init /\ [][Next]_vars

-----------------------------------------------------------------------------
(* Correctness.                                                            *)

Places == {"idle", "stepping", "saving", "status", "rest", "judging",
           "compensating"}

Entry == [saga : Sagas, kind : {"step", "error", "compensate", "done"},
          step : Names \union {NoName}, session : SessionIDs \union {NoSession},
          status : Statuses \union {"pending"}]

\* Every variable has its type, and what a saga works on exists.
TypeOK ==
    /\ status \in [SessionIDs -> Statuses]
    /\ action \in [SessionIDs -> Names \union {NoName}]
    /\ stored \subseteq SessionIDs /\ approved \subseteq SessionIDs
    /\ resuming \subseteq SessionIDs
    /\ outbox \in Seq(Entry)
    /\ pc \in [Sagas -> Places]
    /\ plan \in [Sagas -> Seq(Names \union {NoName})]
    /\ completed \in [Sagas -> Seq(SessionIDs)]
    /\ current \in [Sagas -> SessionIDs \union {NoSession}]
    /\ seen \in [Sagas -> Statuses]
    /\ settled \in [Sagas -> BOOLEAN]
    /\ todo \in [Sagas -> Nat]
    /\ parent \in [Sagas -> {"none", "running", "succeeded", "failed"}]
    /\ how \in [Sagas -> {"none", "done", "stopped", "transport", "badstep", "panic"}]
    /\ attempts \in [Sagas -> Nat]

\* A saga that succeeded has been through all of its plan, and none of its steps
\* waits for a person, was refused by one, or failed without one: what has not
\* succeeded is a session somebody approved while the saga was looking
\* (domain/invoker.go:34-37, example/saga/main.go:9-11).
SucceedsOnlyWhole ==
    \A s \in Sagas : parent[s] = "succeeded" =>
        /\ Len(completed[s]) = Len(plan[s])
        /\ \A i \in DOMAIN completed[s] :
               LET id == completed[s][i]
               IN  /\ action[id] = plan[s][i]
                   /\ \/ status[id] = "succeeded"
                      \/ id \in approved /\ status[id] \in {"running", "failed"}

\* A session whose status was read as final has its result or its failure in
\* the outcome, whoever changes it meanwhile (domain/invoker.go:44-48).
OutcomeComplete ==
    \A s \in Sagas : at(s, "judging") /\ seen[s] \in Settled => settled[s]

\* A person can find every session there is to decide on: the log names it, or
\* its saga is about to write it down.
PausesAreLogged ==
    \A id \in stored : action[id] \in External /\ status[id] # "open" =>
        \/ \E i \in DOMAIN outbox : outbox[i].session = id
        \/ \E s \in Sagas : current[s] = id /\ pc[s] \in {"status", "rest", "judging"}

\* The entries of a saga in the log, and their places counted from the end.
entries(s) == {i \in DOMAIN outbox : outbox[i].saga = s}
fromEnd(s, i) == Cardinality({j \in entries(s) : j >= i})

endsWith(s, kind) ==
    \E i \in entries(s) : outbox[i].kind = kind /\ \A j \in entries(s) : j <= i

\* The log ends with a step that stopped the saga, then the compensations of all
\* steps done but for the first d of them, the last step first.
compensated(s, d) ==
    LET n == Len(completed[s]) - d
    IN  /\ Cardinality(entries(s)) > n
        /\ \A i \in entries(s) :
               LET e == outbox[i]
                   k == fromEnd(s, i)
               IN  /\ k = n + 1 => e.kind = "step" /\ Stops(e.status)
                   /\ k <= n => /\ e.kind = "compensate"
                                /\ e.step = action[completed[s][d + k]]

\* The log tells how an attempt ended, however the entries of several sagas
\* interleave: it ends with the completion of a saga that succeeded; with the
\* compensations of all steps done, the last first, behind the step that stopped
\* it; with the transport error; or it breaks off (a panic, a bad step).
LogTellsEnd ==
    \A s \in Sagas : at(s, "idle") =>
        /\ how[s] = "done" => endsWith(s, "done")
        /\ how[s] = "transport" => endsWith(s, "error")
        /\ how[s] = "stopped" => compensated(s, 0)
=============================================================================
