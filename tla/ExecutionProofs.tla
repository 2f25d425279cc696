--------------------------- MODULE ExecutionProofs ---------------------------
(***************************************************************************)
(* Theorems about the services over one session, for every number of       *)
(* callers and every bound.                                                *)
(***************************************************************************)
EXTENDS Execution, SessionProofs

-----------------------------------------------------------------------------
(* Where threads are and what they remember.                               *)

ControlTypeOK ==
    /\ mode \in {"sync", "async"}
    /\ external \in BOOLEAN
    /\ stored \in BOOLEAN
    /\ pc \in [Threads -> Places]
    /\ exit \in [Threads -> {"ok", "error", "panic"}]
    /\ verdict \in [Threads -> Verdicts]

LEMMA ControlTypeInit == Init => ControlTypeOK
BY DEF Init, savesFirst, ControlTypeOK, Places, Verdicts

LEMMA ControlTypeStep ==
    ASSUME ControlTypeOK, [Next]_vars
    PROVE  ControlTypeOK'
<1> USE DEF ControlTypeOK, Places, fixed, steady, quiet, goto, leave, at
<1> Runner \in Threads /\ Callers \subseteq Threads
  BY DEF Threads
<1>1. CASE RunnerStep
  BY <1>1 DEF RunnerStep, Admit, DrainStarted, Pull, Resolve, Gate,
              CheckSettled, Recover, AbortSession
<1>2. ASSUME NEW t \in Threads, WorkStep(t)
      PROVE  ControlTypeOK'
  BY <1>2 DEF WorkStep, Build, Begin, Dispatch, ExecutorNotFound, EmitChunk,
              InvokeCapability, ExecutorReturns, ExecutorPanics,
              RecordEvidence, Judge, Conclude, Verdicts
<1>3. ASSUME NEW t \in Threads, Return(t)
      PROVE  ControlTypeOK'
  BY <1>3 DEF Return, afterExecute
<1>4. ASSUME NEW t \in Threads, ServiceStep(t)
      PROVE  ControlTypeOK'
  BY <1>3, <1>4 DEF ServiceStep, DeferredDrain, Pull, Publish, Published,
                    PublisherPanics
<1>5. ASSUME NEW t \in Callers,
             Resume(t) \/ ApproveSession(t) \/ RejectSession(t)
      PROVE  ControlTypeOK'
  BY <1>5 DEF Resume, ApproveSession, RejectSession
<1>6. CASE UNCHANGED vars
  BY <1>6 DEF vars
<1> QED BY <1>1, <1>2, <1>4, <1>5, <1>6 DEF Next, CallerStep

LEMMA ControlTyped == Spec => []ControlTypeOK
<1>1. ControlTypeOK /\ [Next]_vars => ControlTypeOK'
  BY ControlTypeStep
<1> QED BY ControlTypeInit, <1>1, PTL DEF Spec

-----------------------------------------------------------------------------
(* The services only ever call the aggregate's methods, so whatever holds  *)
(* of the aggregate under every caller holds here.                         *)

LEMMA StepIsSessionStep ==
    ASSUME ControlTypeOK, [Next]_vars
    PROVE  [SessionNext]_sessionVars
<1> USE DEF SessionNext, Decide, Finish
<1>1. CASE UNCHANGED sessionVars
  BY <1>1
<1>2. CASE Admit
  BY <1>2 DEF Admit
<1>3. CASE DrainStarted
  BY <1>3 DEF DrainStarted, Pull
<1>4. CASE Resolve
  BY <1>4 DEF Resolve
<1>5. CASE Gate
  BY <1>5 DEF Gate
<1>6. CASE CheckSettled
  BY <1>6 DEF CheckSettled
<1>7. CASE Recover
  BY <1>7, ExecutionAssumption DEF Recover, Codes
<1>8. CASE AbortSession
  BY <1>8, ExecutionAssumption DEF AbortSession, Codes
<1>9. ASSUME NEW t \in Threads, WorkStep(t)
      PROVE  [SessionNext]_sessionVars
  <2>1. CASE Build(t) \/ Begin(t)
    BY <2>1 DEF Build, Begin
  <2>2. CASE ExecutorNotFound(t)
    BY <2>2, ExecutionAssumption DEF ExecutorNotFound, Codes
  <2>3. CASE EmitChunk(t)
    BY <2>3 DEF EmitChunk
  <2>4. CASE RecordEvidence(t)
    BY <2>4 DEF RecordEvidence
  <2>5. CASE Conclude(t)
    <3>1. verdict[t] # "ok" => failureCode(verdict[t]) \in FailureCodes
      BY ExecutionAssumption DEF Codes, failureCode, ControlTypeOK, Verdicts
    <3> QED BY <2>5, <3>1 DEF Conclude
  <2> QED BY <1>9, <2>1, <2>2, <2>3, <2>4, <2>5
          DEF WorkStep, Dispatch, InvokeCapability, ExecutorReturns,
              ExecutorPanics, Judge
<1>10. ASSUME NEW t \in Threads, ServiceStep(t) \/ Resume(t)
       PROVE  [SessionNext]_sessionVars
  BY <1>10 DEF ServiceStep, DeferredDrain, Pull, Publish, Published,
               PublisherPanics, Return, Resume
<1>11. ASSUME NEW t \in Callers, ApproveSession(t) \/ RejectSession(t)
       PROVE  [SessionNext]_sessionVars
  BY <1>11, ExecutionAssumption DEF ApproveSession, RejectSession, Codes
<1>12. CASE UNCHANGED vars
  BY <1>12 DEF vars
<1> QED BY <1>1, <1>2, <1>3, <1>4, <1>5, <1>6, <1>7, <1>8, <1>9, <1>10,
           <1>11, <1>12 DEF Next, RunnerStep, CallerStep, Threads

\* The kernel uses the aggregate through its methods only.
THEOREM ImplementsSession == Spec => SessionSpec
<1>1. Init => SessionInit
  BY DEF Init
<1>2. ControlTypeOK /\ [Next]_vars => [SessionNext]_sessionVars
  BY StepIsSessionStep
<1> QED BY ControlTyped, <1>1, <1>2, PTL DEF Spec, SessionSpec

LEMMA SessionFacts ==
    Spec => [](SessionTypeOK /\ ControlTypeOK /\ OutcomeInv)
<1>1. SessionSpec => []OutcomeInv
  <2>1. SessionTypeOK /\ OutcomeInv /\ [SessionNext]_sessionVars => OutcomeInv'
    BY OutcomeStep
  <2> QED BY SessionTyped, OutcomeInit, <2>1, PTL DEF SessionSpec
<1> QED BY <1>1, SessionTyped, ImplementsSession, ControlTyped, PTL

-----------------------------------------------------------------------------
(* The type invariant.                                                     *)

\* What the publisher and the counters hold.
BusTypeOK ==
    /\ outbox \in [Threads -> Seq(SessionEvent)]
    /\ published \in Seq(BusEvent)
    /\ runs \in Nat
    /\ invocations \in 0 .. MaxInvocations
    /\ faults \in 0 .. MaxFaults
    /\ overlapped \in BOOLEAN

LEMMA BusTypeStep ==
    ASSUME SessionTypeOK, BusTypeOK, [Next]_vars
    PROVE  BusTypeOK'
<1> USE ExecutionAssumption DEF BusTypeOK, fixed, steady, quiet, fault
<1>1. UNCHANGED <<outbox, published, runs, invocations, faults, overlapped>> => BusTypeOK'
  OBVIOUS
<1>2. ASSUME NEW t \in Threads, NEW from, NEW to, Pull(t, from, to)
      PROVE  BusTypeOK'
  BY <1>2 DEF Pull, SessionTypeOK
<1>3. ASSUME NEW t \in Threads, Publish(t)
      PROVE  BusTypeOK'
  <2>1. /\ Head(outbox[t]) \in BusEvent
        /\ Tail(outbox[t]) \in Seq(SessionEvent)
    BY <1>3, HeadTailProperties DEF Publish, BusEvent
  <2> QED BY <1>3, <2>1, AppendProperties DEF Publish
<1>4. ASSUME NEW t \in Threads, PublisherPanics(t)
      PROVE  BusTypeOK'
  <2>1. <<>> \in Seq(SessionEvent)
    BY EmptySeq
  <2> QED BY <1>4, <2>1 DEF PublisherPanics
<1>5. ASSUME NEW t \in Threads, ServiceStep(t)
      PROVE  BusTypeOK'
  BY <1>1, <1>2, <1>3, <1>4, <1>5
     DEF ServiceStep, DeferredDrain, Published, Return
<1>6. ASSUME NEW t \in Threads,
             Dispatch(t) \/ ExecutorPanics(t) \/ Conclude(t)
      PROVE  BusTypeOK'
  BY <1>6 DEF Dispatch, ExecutorPanics, Conclude
<1>7. /\ Append(published, CapabilityInvoked) \in Seq(BusEvent)
      /\ Append(published, BudgetExceeded) \in Seq(BusEvent)
  <2>1. CapabilityInvoked \in BusEvent /\ BudgetExceeded \in BusEvent
    BY DEF BusEvent
  <2> QED BY <2>1, AppendProperties
<1>8. ASSUME NEW t \in Threads, WorkStep(t)
      PROVE  BusTypeOK'
  <2>1. CASE InvokeCapability(t)
    BY <1>7, <2>1 DEF InvokeCapability
  <2>2. CASE Judge(t)
    <3>1. UNCHANGED <<outbox, runs, invocations, overlapped>>
      BY <2>2 DEF Judge
    <3>2. /\ published' \in {published, Append(published, BudgetExceeded)}
          /\ faults' \in {faults} \union {n \in 0 .. MaxFaults : n = faults + 1}
      BY <2>2 DEF Judge
    <3> QED BY <1>7, <3>1, <3>2
  <2> QED BY <1>1, <1>6, <1>8, <2>1, <2>2
          DEF WorkStep, Build, Begin, ExecutorNotFound, EmitChunk, ExecutorReturns,
              RecordEvidence
<1>9. CASE Admit
  BY <1>9 DEF Admit
<1>10. CASE RunnerStep
  <2>1. Runner \in Threads
    BY DEF Threads
  <2> QED BY <1>1, <1>2, <1>9, <1>10, <2>1
          DEF RunnerStep, DrainStarted, Resolve, Gate, CheckSettled, Recover,
              AbortSession
<1>11. ASSUME NEW t \in Callers,
              Resume(t) \/ ApproveSession(t) \/ RejectSession(t)
       PROVE  BusTypeOK'
  <2>1. CASE ApproveSession(t)
    <3>1. /\ UNCHANGED <<outbox, published, runs, invocations, faults>>
          /\ overlapped' \in BOOLEAN
      BY <2>1 DEF ApproveSession
    <3> QED BY <3>1
  <2> QED BY <1>1, <1>11, <2>1 DEF Resume, RejectSession
<1>12. CASE UNCHANGED vars
  BY <1>1, <1>12 DEF vars
<1> QED BY <1>5, <1>8, <1>10, <1>11, <1>12 DEF Next, CallerStep, Threads

\* The type invariant of the kernel.
THEOREM Typed == Spec => []TypeOK
<1>1. Init => BusTypeOK
  <2>1. <<>> \in Seq(SessionEvent) /\ <<>> \in Seq(BusEvent)
    BY EmptySeq
  <2>2. overlapped = FALSE => overlapped \in BOOLEAN
    OBVIOUS
  <2> QED BY <2>1, <2>2, ExecutionAssumption DEF Init, BusTypeOK
<1>2. SessionTypeOK /\ BusTypeOK /\ [Next]_vars => BusTypeOK'
  BY BusTypeStep
<1>3. SessionTypeOK /\ ControlTypeOK /\ BusTypeOK => TypeOK
  BY DEF TypeOK, ControlTypeOK, BusTypeOK
<1> QED BY SessionFacts, <1>1, <1>2, <1>3, PTL DEF Spec

-----------------------------------------------------------------------------
(* The gate.                                                               *)

\* Places from which a thread will enter the executor unless it gives up.
Entering == {"resuming", "building", "marking", "dispatching"}
InExecutor == {"executing", "recording", "concluding"}

\* Where the runner is before it has asked whether the action is gated.
Ungated == {"admitting", "validated", "announcing", "resolving", "resolved"}

\* The inductive invariant behind the gate.  What makes "at most one run"
\* true is that a decision is made once and every caller on its way to the
\* executor, or past it, stands on that decision.
GateInv ==
    /\ pc[Runner] = "admitting" => status = "pending"
    /\ pc[Runner] \in {"validated", "announcing", "resolving"} =>
           status = "validated"
    /\ pc[Runner] = "resolved" => status = "resolved"
    /\ pc[Runner] \in {"building", "marking"} => status = "resolved" /\ ~external
    /\ pc[Runner] \in {"dispatching"} \union InExecutor => ~external
    /\ pc[Runner] # "resuming"
    /\ pc[Runner] \in Ungated \union Entering => runs = 0
    /\ status = "awaiting_approval" \/ requiresApproval => external
    /\ approvalDecision # NoPrincipal => external
    /\ \A t \in Callers :
           /\ pc[t] # "idle" =>
                  /\ approvalDecision # NoPrincipal
                  /\ status \in {"running", "succeeded", "failed"}
           /\ pc[t] \in Entering => runs = 0
    /\ \A t, u \in Callers :
           /\ pc[t] \in Entering \union InExecutor
           /\ pc[u] \in Entering \union InExecutor
           => t = u
    /\ \A t \in Threads :
           pc[t] = "dispatching" => status \in {"running"} \union Terminal
    /\ runs \in {0, 1}
    /\ external /\ runs > 0 => approvalDecision # NoPrincipal
    /\ RunningOnlyAfterApproval

Facts == SessionTypeOK /\ ControlTypeOK /\ OutcomeInv

LEMMA GateInit == Init => GateInv
BY ExecutionAssumption
   DEF Init, SessionInit, GateInv, Threads, Ungated, Entering, InExecutor,
       RunningOnlyAfterApproval, Terminal

LEMMA GateStep ==
    ASSUME Facts, GateInv, [Next]_vars
    PROVE  GateInv'
<1> USE ExecutionAssumption
    DEF Facts, GateInv, ControlTypeOK, SessionTypeOK, OutcomeInv,
        StatusTellsOutcome, Threads, Places, Statuses, Terminal, Ungated,
        Entering, InExecutor, RunningOnlyAfterApproval, goto, leave, at, fixed,
        steady, quiet
<1>1. CASE Admit
  <2>1. /\ pc[Runner] = "admitting"
        /\ UNCHANGED <<requiresApproval, approvalDecision, external, runs>>
        /\ \/ /\ status' = status
              /\ pc' = [pc EXCEPT ![Runner] = "leaving"]
           \/ /\ status' = "validated"
              /\ pc' = [pc EXCEPT ![Runner] = "validated"]
    BY <1>1 DEF Admit, MarkValidated, transitionTo, validTransitions,
                sessionVars
  <2>2. CASE pc' = [pc EXCEPT ![Runner] = "leaving"]
    BY <2>1, <2>2
  <2>3. CASE /\ status' = "validated"
             /\ pc' = [pc EXCEPT ![Runner] = "validated"]
    BY <2>1, <2>3
  <2> QED BY <2>1, <2>2, <2>3
<1>2. ASSUME NEW t \in Threads, NEW from, NEW to, Pull(t, from, to),
             \/ t = Runner /\ from = "validated" /\ to = "announcing"
             \/ from = "leaving" /\ to = "flushing"
      PROVE  GateInv'
  BY <1>2 DEF Pull, PullEvents
<1>3. CASE Resolve
  BY <1>3 DEF Resolve, MarkResolved, transitionTo, validTransitions,
              sessionVars
<1>4. CASE Gate
  BY <1>4 DEF Gate, MarkAwaitingApproval, sessionVars
<1>5. CASE CheckSettled
  BY <1>5 DEF CheckSettled, sessionVars
<1>6. CASE Recover
  <2>1. /\ pc[Runner] = "recovering"
        /\ UNCHANGED <<requiresApproval, approvalDecision, external, runs>>
        /\ \/ /\ status = "running" /\ status' = "failed"
              /\ pc' = [pc EXCEPT ![Runner] = "done"]
           \/ /\ status' = status
              /\ pc' = [pc EXCEPT ![Runner] = "aborting"]
    BY <1>6 DEF Recover, Fail, forceFail, sessionVars
  <2>2. CASE pc' = [pc EXCEPT ![Runner] = "done"]
    BY <2>1, <2>2
  <2>3. CASE /\ status' = status
             /\ pc' = [pc EXCEPT ![Runner] = "aborting"]
    BY <2>1, <2>3
  <2> QED BY <2>1, <2>2, <2>3
<1>7. CASE AbortSession
  BY <1>7 DEF AbortSession, Abort, forceFail, sessionVars
<1>8. ASSUME NEW t \in Threads, Build(t)
      PROVE  GateInv'
  <2>1. /\ pc[t] = "building"
        /\ UNCHANGED <<status, requiresApproval, approvalDecision, external, runs>>
        /\ \/ pc' = [pc EXCEPT ![t] = "marking"]
           \/ status = "running" /\ pc' = [pc EXCEPT ![t] = "dispatching"]
           \/ pc' = [pc EXCEPT ![t] = "leaving"]
    BY <1>8 DEF Build, sessionVars
  <2>2. CASE t = Runner
    BY <2>1, <2>2
  <2>3. CASE t \in Callers
    <3>1. CASE pc' = [pc EXCEPT ![t] = "marking"]
      BY <2>1, <2>3, <3>1
    <3>2. CASE status = "running" /\ pc' = [pc EXCEPT ![t] = "dispatching"]
      BY <2>1, <2>3, <3>2
    <3>3. CASE pc' = [pc EXCEPT ![t] = "leaving"]
      BY <2>1, <2>3, <3>3
    <3> QED BY <2>1, <3>1, <3>2, <3>3
  <2> QED BY <2>2, <2>3
<1>9. ASSUME NEW t \in Threads, Dispatch(t)
      PROVE  GateInv'
  <2>1. /\ pc[t] = "dispatching"
        /\ pc' = [pc EXCEPT ![t] = "executing"]
        /\ runs = 0 /\ runs' = 1
        /\ UNCHANGED <<status, requiresApproval, approvalDecision, external>>
    BY <1>9 DEF Dispatch, sessionVars
  <2>2. CASE t = Runner
    BY <2>1, <2>2
  <2>3. CASE t \in Callers
    BY <2>1, <2>3
  <2> QED BY <2>2, <2>3
<1>10. ASSUME NEW t \in Threads, ExecutorNotFound(t)
       PROVE  GateInv'
  BY <1>10 DEF ExecutorNotFound, Fail, forceFail, sessionVars
<1>11. ASSUME NEW t \in Threads,
              EmitChunk(t) \/ InvokeCapability(t) \/ RecordEvidence(t)
       PROVE  GateInv'
  <2>1. UNCHANGED <<status, requiresApproval, approvalDecision, external,
                    runs, pc>>
    BY <1>11 DEF EmitChunk, Emit, InvokeCapability, RecordEvidence,
                 AppendEvidence, sessionVars
  <2> QED BY <2>1
<1>12. ASSUME NEW t \in Threads,
              ExecutorReturns(t) \/ ExecutorPanics(t) \/ Judge(t)
       PROVE  GateInv'
  <2>1. /\ pc[t] \in {"executing", "recording"}
        /\ \E place \in {"recording", "concluding", "leaving"} :
               pc' = [pc EXCEPT ![t] = place]
        /\ UNCHANGED <<status, requiresApproval, approvalDecision, external, runs>>
    BY <1>12 DEF ExecutorReturns, ExecutorPanics, Judge, sessionVars
  <2>2. CASE t = Runner
    BY <2>1, <2>2
  <2>3. CASE t \in Callers
    BY <2>1, <2>3
  <2> QED BY <2>2, <2>3
<1>13. ASSUME NEW t \in Threads, Conclude(t)
       PROVE  GateInv'
  <2>1. /\ pc[t] = "concluding"
        /\ pc' = [pc EXCEPT ![t] = "leaving"]
        /\ UNCHANGED <<requiresApproval, approvalDecision, external, runs>>
        /\ \/ status' = status
           \/ status = "running" /\ status' \in {"succeeded", "failed"}
    BY <1>13 DEF Conclude, Succeed, Fail, forceFail, transitionTo,
                 validTransitions, sessionVars
  <2>2. CASE status' = status
    BY <2>1, <2>2
  <2>3. CASE status = "running" /\ status' \in {"succeeded", "failed"}
    BY <2>1, <2>3
  <2> QED BY <2>1, <2>2, <2>3
<1>14. ASSUME NEW t \in Threads, Publish(t) \/ Published(t)
       PROVE  GateInv'
  <2>1. UNCHANGED <<status, requiresApproval, approvalDecision, external,
                    runs>>
    BY <1>14 DEF Publish, Published, sessionVars
  <2>2. CASE pc' = pc
    BY <2>1, <2>2
  <2>3. CASE /\ pc[t] = "announcing"
             /\ pc' = [pc EXCEPT ![t] = "resolving"]
    BY <2>1, <2>3
  <2>4. CASE /\ pc[t] = "flushing"
             /\ pc' = [pc EXCEPT ![t] = "returned"]
    BY <2>1, <2>4
  <2> QED BY <1>14, <2>2, <2>3, <2>4 DEF Publish, Published
<1>15. ASSUME NEW t \in Threads, PublisherPanics(t)
       PROVE  GateInv'
  BY <1>15 DEF PublisherPanics, sessionVars
<1>16. ASSUME NEW t \in Threads, Return(t)
       PROVE  GateInv'
  <2>1. /\ pc[t] = "returned"
        /\ UNCHANGED <<status, requiresApproval, approvalDecision, external,
                       runs>>
    BY <1>16 DEF Return, sessionVars
  <2>2. CASE /\ t = Runner
             /\ \E place \in {"done", "checking", "recovering"} :
                    pc' = [pc EXCEPT ![t] = place]
    BY <2>1, <2>2
  <2>3. CASE t \in Callers /\ pc' = [pc EXCEPT ![t] = "idle"]
    BY <2>1, <2>3
  <2> QED BY <1>16, <2>2, <2>3 DEF Return, afterExecute
<1>17. ASSUME NEW t \in Callers, Resume(t)
       PROVE  GateInv'
  <2>1. /\ pc[t] = "resuming"
        /\ UNCHANGED <<status, requiresApproval, approvalDecision, external, runs>>
        /\ \E place \in {"building", "leaving"} : pc' = [pc EXCEPT ![t] = place]
    BY <1>17 DEF Resume, sessionVars
  <2>2. CASE pc' = [pc EXCEPT ![t] = "building"]
    BY <2>1, <2>2
  <2>3. CASE pc' = [pc EXCEPT ![t] = "leaving"]
    BY <2>1, <2>3
  <2> QED BY <2>1, <2>2, <2>3
<1>18. ASSUME NEW t \in Callers, ApproveSession(t)
       PROVE  GateInv'
  BY <1>18 DEF ApproveSession, Approve, signed, awaitsDecision, sessionVars
<1>19. ASSUME NEW t \in Callers, RejectSession(t)
       PROVE  GateInv'
  BY <1>19 DEF RejectSession, Reject, signed, awaitsDecision, sessionVars
<1>20. CASE UNCHANGED vars
  BY <1>20 DEF vars, sessionVars
<1>21. ASSUME NEW t \in Threads, Begin(t)
       PROVE  GateInv'
  <2>1. /\ pc[t] = "marking"
        /\ UNCHANGED <<requiresApproval, approvalDecision, external, runs>>
        /\ \/ /\ status \in {"resolved", "awaiting_approval"}
              /\ status' = "running"
              /\ pc' = [pc EXCEPT ![t] = "dispatching"]
           \/ /\ status' = status
              /\ pc' = [pc EXCEPT ![t] = "leaving"]
    BY <1>21 DEF Begin, MarkRunning, transitionTo, validTransitions, sessionVars
  <2>2. CASE t = Runner
    BY <2>1, <2>2
  <2>3. CASE t \in Callers
    BY <2>1, <2>3
  <2> QED BY <2>2, <2>3
<1> QED BY <1>1, <1>2, <1>3, <1>4, <1>5, <1>6, <1>7, <1>8, <1>9, <1>10,
           <1>11, <1>12, <1>13, <1>14, <1>15, <1>16, <1>17, <1>18, <1>19,
           <1>20, <1>21
        DEF Next, RunnerStep, WorkStep, ServiceStep, CallerStep, DrainStarted,
            DeferredDrain

LEMMA GateHolds == Spec => [](Facts /\ GateInv)
<1>1. Facts /\ GateInv /\ [Next]_vars => GateInv'
  BY GateStep
<1>2. Spec => []Facts
  BY SessionFacts DEF Facts
<1> QED BY GateInit, <1>1, <1>2, PTL DEF Spec

\* However many callers approve, resume and reject, and wherever plugin or
\* publisher code panics, the executor is entered at most once.
THEOREM OneRun == Spec => []RunsAtMostOnce
<1>1. Facts /\ GateInv => RunsAtMostOnce
  <2> SUFFICES ASSUME Facts, GateInv
               PROVE  RunsAtMostOnce
    OBVIOUS
  <2>1. runs <= 1
    BY DEF GateInv
  <2>2. ASSUME NEW t \in Threads, NEW u \in Threads, Working(t), Working(u)
        PROVE  t = u
    BY <2>2, ExecutionAssumption
       DEF GateInv, Threads, Working, Entering, InExecutor, Facts
  <2> QED BY <2>1, <2>2 DEF RunsAtMostOnce
<1> QED BY GateHolds, <1>1, PTL

\* No external write effect without an approval.
THEOREM GateBeforeEffect == Spec => []ApprovalBeforeEffect
<1>1. Facts /\ GateInv => ApprovalBeforeEffect
  BY ExecutionAssumption
     DEF GateInv, Threads, Working, Entering, InExecutor, Facts,
         ApprovalBeforeEffect
<1> QED BY GateHolds, <1>1, PTL

\* The order the services call the aggregate in restores what the table of
\* transitions alone does not give: a gated session runs only once approved.
THEOREM ApprovedBeforeRunning == Spec => []RunningOnlyAfterApproval
<1>1. GateInv => RunningOnlyAfterApproval
  BY DEF GateInv
<1> QED BY GateHolds, <1>1, PTL

-----------------------------------------------------------------------------
(* Work after the end, and what is left behind.                            *)

\* Nothing is left to do for the one who executes the session: it is over, or
\* it waits for a decision, or somebody approved it.
Disposed ==
    \/ status \in Terminal \union {"awaiting_approval"}
    \/ status = "running" /\ approvalDecision # NoPrincipal

\* Where the runner is once Execute has made up its mind.
Left == {"leaving", "flushing", "returned"}

\* Where the goroutine of ExecuteAsync is after an Execute that failed.
Aftermath == {"checking", "rechecking", "recovering", "aborting"}

RunnerInv ==
    /\ faults = 0 => pc[Runner] # "recovering" /\ \A t \in Threads : exit[t] # "panic"
    /\ pc[Runner] # "idle"
    /\ pc[Runner] = "recovering" => exit[Runner] = "panic"
    /\ pc[Runner] \in Aftermath => exit[Runner] # "ok" /\ mode = "async"
    /\ external /\ exit[Runner] = "error" /\ pc[Runner] \in Left \union Aftermath =>
           status \in {"pending", "validated"}
    /\ pc[Runner] \in {"dispatching"} \union InExecutor => status = "running"
    /\ exit[Runner] = "ok" /\ pc[Runner] \in Left \union {"done"} => Disposed
    /\ mode = "async" /\ pc[Runner] = "done" => Disposed

\* An approved session stays Running under its caller, unless the goroutine of
\* ExecuteAsync that paused it has panicked since.
CallerInv ==
    \A t \in Callers :
        pc[t] \in Entering \union InExecutor =>
            status = "running" \/ (mode = "async" /\ exit[Runner] = "panic")

\* An approved session that is Running is being worked for, or was given up.
ApproverInv ==
    approvalDecision # NoPrincipal /\ status = "running" =>
        \E t \in Callers : pc[t] \in Entering \union InExecutor \/ exit[t] # "ok"

SettleInv == RunnerInv /\ CallerInv /\ ApproverInv

LEMMA SettleInit == Init => SettleInv
BY ExecutionAssumption
   DEF Init, SessionInit, SettleInv, RunnerInv, CallerInv, ApproverInv, Threads,
       Left, Aftermath, Entering, InExecutor, Disposed, Terminal

LEMMA SettleStep ==
    ASSUME Facts, GateInv, SettleInv, faults \in Nat, [Next]_vars
    PROVE  SettleInv'
<1> USE ExecutionAssumption
    DEF SettleInv, RunnerInv, CallerInv, ApproverInv, Disposed, Left, Aftermath,
        Facts, GateInv, ControlTypeOK, OutcomeInv, StatusTellsOutcome, Threads,
        Places, Terminal, Ungated, Entering, InExecutor, goto, leave, at, fixed,
        steady, quiet, fault
<1>1. CASE Admit
  <2>1. /\ pc[Runner] = "admitting"
        /\ UNCHANGED <<approvalDecision, external, mode>>
        /\ faults' \in {faults, faults + 1}
        /\ \/ /\ status' = "validated" /\ UNCHANGED <<exit, faults>>
              /\ pc' = [pc EXCEPT ![Runner] = "validated"]
           \/ /\ status' = status /\ pc' = [pc EXCEPT ![Runner] = "leaving"]
              /\ \/ exit' = [exit EXCEPT ![Runner] = "error"]
                 \/ exit' = [exit EXCEPT ![Runner] = "panic"] /\ faults' = faults + 1
    BY <1>1 DEF Admit, MarkValidated, transitionTo, validTransitions, sessionVars
  <2>2. approvalDecision = NoPrincipal /\ status = "pending"
    BY <2>1
  <2> QED BY <2>1, <2>2
<1>2. ASSUME NEW t \in Threads, NEW from, NEW to, Pull(t, from, to),
             \/ t = Runner /\ from = "validated" /\ to = "announcing"
             \/ from = "leaving" /\ to = "flushing"
      PROVE  SettleInv'
  <2>1. /\ UNCHANGED <<status, approvalDecision, external, mode, exit, faults>>
        /\ pc[t] = from /\ pc' = [pc EXCEPT ![t] = to]
    BY <1>2 DEF Pull, PullEvents
  <2> QED BY <1>2, <2>1
<1>3. CASE Resolve
  <2>1. /\ pc[Runner] = "resolving"
        /\ UNCHANGED <<approvalDecision, external, mode, faults>>
        /\ \/ /\ status' = "resolved" /\ UNCHANGED exit
              /\ pc' = [pc EXCEPT ![Runner] = "resolved"]
           \/ /\ status' = status /\ pc' = [pc EXCEPT ![Runner] = "leaving"]
              /\ exit' = [exit EXCEPT ![Runner] = "error"]
    BY <1>3 DEF Resolve, MarkResolved, transitionTo, validTransitions, sessionVars
  <2>2. approvalDecision = NoPrincipal /\ status = "validated"
    BY <2>1
  <2> QED BY <2>1, <2>2
<1>4. CASE Gate
  <2>1. /\ pc[Runner] = "resolved"
        /\ UNCHANGED <<approvalDecision, external, mode, faults>>
        /\ \/ /\ status' = "awaiting_approval"
              /\ pc' = [pc EXCEPT ![Runner] = "leaving"]
              /\ exit' = [exit EXCEPT ![Runner] = "ok"]
           \/ /\ status' = status /\ UNCHANGED exit
              /\ pc' = [pc EXCEPT ![Runner] = "building"]
    BY <1>4 DEF Gate, MarkAwaitingApproval, sessionVars
  <2>2. approvalDecision = NoPrincipal /\ status = "resolved"
    BY <2>1
  <2> QED BY <2>1, <2>2
<1>5. CASE CheckSettled
  <2>1. /\ pc[Runner] \in {"checking", "rechecking"}
        /\ UNCHANGED <<status, approvalDecision, external, mode, faults, exit>>
        /\ \/ /\ status \in Terminal \union {"awaiting_approval"}
              /\ pc' = [pc EXCEPT ![Runner] = "done"]
           \/ pc' = [pc EXCEPT ![Runner] = "rechecking"]
           \/ pc' = [pc EXCEPT ![Runner] = "aborting"]
    BY <1>5 DEF CheckSettled, sessionVars
  <2> QED BY <2>1
<1>6. CASE Recover
  <2>1. /\ pc[Runner] = "recovering"
        /\ UNCHANGED <<approvalDecision, external, mode, faults, exit>>
        /\ \/ /\ status' = "failed" /\ pc' = [pc EXCEPT ![Runner] = "done"]
           \/ /\ status' = status /\ pc' = [pc EXCEPT ![Runner] = "aborting"]
    BY <1>6 DEF Recover, Fail, forceFail, sessionVars
  <2> QED BY <2>1
<1>7. CASE AbortSession
  <2>1. /\ pc[Runner] = "aborting" /\ pc' = [pc EXCEPT ![Runner] = "done"]
        /\ UNCHANGED <<approvalDecision, external, mode, faults, exit>>
        /\ status' \in Terminal
        /\ status' # "failed" => status' = status
    BY <1>7 DEF AbortSession, Abort, forceFail, sessionVars
  <2>2. ASSUME exit[Runner] # "panic", NEW t \in Callers
        PROVE  pc[t] \notin Entering \union InExecutor
    BY <2>1, <2>2
  <2> QED BY <2>1, <2>2
<1>8. ASSUME NEW t \in Threads, Build(t)
      PROVE  SettleInv'
  <2>1. /\ pc[t] = "building"
        /\ UNCHANGED <<status, approvalDecision, external, mode, faults>>
        /\ \/ pc' = [pc EXCEPT ![t] = "marking"] /\ UNCHANGED exit
           \/ /\ status = "running" /\ UNCHANGED exit
              /\ pc' = [pc EXCEPT ![t] = "dispatching"]
           \/ /\ pc' = [pc EXCEPT ![t] = "leaving"]
              /\ exit' = [exit EXCEPT ![t] = "error"]
    BY <1>8 DEF Build, sessionVars
  <2>2. CASE t = Runner
    BY <2>1, <2>2
  <2>3. CASE t \in Callers
    BY <2>1, <2>3
  <2> QED BY <2>2, <2>3
<1>9. ASSUME NEW t \in Threads,
             Dispatch(t) \/ ExecutorReturns(t)
      PROVE  SettleInv'
  <2>1. /\ pc[t] \in {"dispatching", "executing"}
        /\ \E place \in {"executing", "recording"} : pc' = [pc EXCEPT ![t] = place]
        /\ UNCHANGED <<status, approvalDecision, external, mode, faults, exit>>
    BY <1>9 DEF Dispatch, ExecutorReturns, sessionVars
  <2>2. CASE t = Runner
    BY <2>1, <2>2
  <2>3. CASE t \in Callers
    BY <2>1, <2>3
  <2> QED BY <2>2, <2>3
<1>10. ASSUME NEW t \in Threads, ExecutorNotFound(t) \/ Conclude(t)
       PROVE  SettleInv'
  <2>1. /\ pc[t] \in {"dispatching", "concluding"}
        /\ pc' = [pc EXCEPT ![t] = "leaving"]
        /\ UNCHANGED <<approvalDecision, external, mode>>
        /\ \/ /\ status = "running" /\ status' \in {"succeeded", "failed"}
              /\ UNCHANGED faults
              /\ \/ exit' = [exit EXCEPT ![t] = "ok"]
                 \/ exit' = [exit EXCEPT ![t] = "error"]
           \/ /\ status' = status /\ status # "running" /\ UNCHANGED faults
              /\ exit' = [exit EXCEPT ![t] = "error"]
           \/ /\ status' = status /\ faults' = faults + 1
              /\ exit' = [exit EXCEPT ![t] = "panic"]
    BY <1>10 DEF ExecutorNotFound, Conclude, Succeed, Fail, forceFail, transitionTo,
                 validTransitions, sessionVars
  <2>2. CASE t = Runner
    BY <2>1, <2>2
  <2>3. CASE t \in Callers
    BY <2>1, <2>3
  <2> QED BY <2>2, <2>3
<1>11. ASSUME NEW t \in Threads,
              EmitChunk(t) \/ InvokeCapability(t) \/ RecordEvidence(t)
       PROVE  SettleInv'
  <2>1. UNCHANGED <<status, approvalDecision, external, mode, faults, exit, pc>>
    BY <1>11 DEF EmitChunk, Emit, InvokeCapability, RecordEvidence,
                 AppendEvidence, sessionVars
  <2> QED BY <2>1
<1>12. ASSUME NEW t \in Threads, ExecutorPanics(t) \/ Judge(t)
       PROVE  SettleInv'
  <2>1. /\ pc[t] \in {"executing", "recording"}
        /\ UNCHANGED <<status, approvalDecision, external, mode>>
        /\ \/ /\ pc' = [pc EXCEPT ![t] = "concluding"]
              /\ UNCHANGED <<exit, faults>>
           \/ /\ pc' = [pc EXCEPT ![t] = "leaving"] /\ faults' = faults + 1
              /\ exit' = [exit EXCEPT ![t] = "panic"]
    BY <1>12 DEF ExecutorPanics, Judge, sessionVars
  <2>2. CASE t = Runner
    BY <2>1, <2>2
  <2>3. CASE t \in Callers
    BY <2>1, <2>3
  <2> QED BY <2>2, <2>3
<1>13. ASSUME NEW t \in Threads, Publish(t) \/ Published(t)
       PROVE  SettleInv'
  <2>1. /\ UNCHANGED <<status, approvalDecision, external, mode, faults, exit>>
        /\ \/ pc' = pc
           \/ pc[t] = "announcing" /\ pc' = [pc EXCEPT ![t] = "resolving"]
           \/ pc[t] = "flushing" /\ pc' = [pc EXCEPT ![t] = "returned"]
    BY <1>13 DEF Publish, Published, sessionVars
  <2> QED BY <2>1
<1>14. ASSUME NEW t \in Threads, PublisherPanics(t)
       PROVE  SettleInv'
  <2>1. /\ UNCHANGED <<status, approvalDecision, external, mode>>
        /\ faults' = faults + 1 /\ exit' = [exit EXCEPT ![t] = "panic"]
        /\ \/ pc[t] = "announcing" /\ pc' = [pc EXCEPT ![t] = "leaving"]
           \/ pc[t] = "flushing" /\ pc' = [pc EXCEPT ![t] = "returned"]
    BY <1>14 DEF PublisherPanics, sessionVars
  <2> QED BY <2>1
<1>15. ASSUME NEW t \in Threads, Return(t)
       PROVE  SettleInv'
  <2>1. /\ pc[t] = "returned"
        /\ UNCHANGED <<status, approvalDecision, external, mode, faults, exit>>
    BY <1>15 DEF Return, sessionVars
  <2>2. CASE t = Runner /\ mode = "sync" /\ pc' = [pc EXCEPT ![t] = "done"]
    BY <2>1, <2>2
  <2>3. CASE t = Runner /\ mode = "async" /\ pc' = [pc EXCEPT ![t] = afterExecute(exit[t])]
    <3>1. \/ exit[t] = "ok" /\ pc' = [pc EXCEPT ![t] = "done"]
          \/ exit[t] = "error" /\ pc' = [pc EXCEPT ![t] = "checking"]
          \/ exit[t] = "panic" /\ pc' = [pc EXCEPT ![t] = "recovering"]
      BY <2>3 DEF afterExecute
    <3>3. CASE exit[t] = "ok" /\ pc' = [pc EXCEPT ![t] = "done"]
      BY <2>1, <2>3, <3>3
    <3>4. CASE exit[t] = "error" /\ pc' = [pc EXCEPT ![t] = "checking"]
      BY <2>1, <2>3, <3>4
    <3>5. CASE exit[t] = "panic" /\ pc' = [pc EXCEPT ![t] = "recovering"]
      BY <2>1, <2>3, <3>5
    <3> QED BY <3>1, <3>3, <3>4, <3>5
  <2>4. CASE t \in Callers /\ pc' = [pc EXCEPT ![t] = "idle"]
    BY <2>1, <2>4
  <2> QED BY <1>15, <2>2, <2>3, <2>4 DEF Return
<1>16. ASSUME NEW t \in Callers, Resume(t)
       PROVE  SettleInv'
  <2>1. /\ pc[t] = "resuming"
        /\ UNCHANGED <<status, approvalDecision, external, mode, faults>>
        /\ \/ /\ status = "running" /\ UNCHANGED exit
              /\ pc' = [pc EXCEPT ![t] = "building"]
           \/ /\ pc' = [pc EXCEPT ![t] = "leaving"]
              /\ exit' = [exit EXCEPT ![t] = "error"]
    BY <1>16 DEF Resume, sessionVars
  <2> QED BY <2>1
<1>17. ASSUME NEW t \in Callers, ApproveSession(t)
       PROVE  SettleInv'
  <2>1. /\ pc[t] = "idle" /\ pc' = [pc EXCEPT ![t] = "resuming"]
        /\ status = "awaiting_approval" /\ status' = "running"
        /\ approvalDecision' # NoPrincipal
        /\ UNCHANGED <<external, mode, faults, exit>>
    BY <1>17 DEF ApproveSession, Approve, signed, awaitsDecision, sessionVars
  <2> QED BY <2>1
<1>18. ASSUME NEW t \in Callers, RejectSession(t)
       PROVE  SettleInv'
  <2>1. /\ status = "awaiting_approval" /\ status' = "rejected"
        /\ UNCHANGED <<external, mode, faults, exit, pc>>
    BY <1>18 DEF RejectSession, Reject, signed, awaitsDecision, sessionVars
  <2> QED BY <2>1
<1>19. CASE UNCHANGED vars
  BY <1>19 DEF vars, sessionVars
<1>20. ASSUME NEW t \in Threads, Begin(t)
       PROVE  SettleInv'
  <2>1. /\ pc[t] = "marking"
        /\ UNCHANGED <<approvalDecision, external, mode, faults>>
        /\ \/ /\ status' = "running" /\ UNCHANGED exit
              /\ status \in {"resolved", "awaiting_approval"}
              /\ pc' = [pc EXCEPT ![t] = "dispatching"]
           \/ /\ status' = status /\ pc' = [pc EXCEPT ![t] = "leaving"]
              /\ exit' = [exit EXCEPT ![t] = "error"]
    BY <1>20 DEF Begin, MarkRunning, transitionTo, validTransitions, sessionVars
  <2>2. CASE t = Runner
    BY <2>1, <2>2
  <2>3. CASE t \in Callers
    BY <2>1, <2>3
  <2> QED BY <2>2, <2>3
<1> QED BY <1>1, <1>2, <1>3, <1>4, <1>5, <1>6, <1>7, <1>8, <1>9, <1>10,
           <1>11, <1>12, <1>13, <1>14, <1>15, <1>16, <1>17, <1>18, <1>19, <1>20
        DEF Next, RunnerStep, WorkStep, ServiceStep, CallerStep, DrainStarted,
            DeferredDrain

LEMMA SettleHolds == Spec => [](Facts /\ GateInv /\ SettleInv)
<1>1. TypeOK => faults \in Nat
  BY ExecutionAssumption DEF TypeOK
<1>2. Facts /\ GateInv /\ SettleInv /\ faults \in Nat /\ [Next]_vars => SettleInv'
  BY SettleStep
<1> QED BY SettleInit, GateHolds, Typed, <1>1, <1>2, PTL DEF Spec

\* Only a Running session is worked for, except by an approver whose session
\* the recover of a panicked background goroutine has ended.
THEOREM WorksInTime == Spec => []NoLateWork
<1>1. SettleInv => NoLateWork
  BY ExecutionAssumption
     DEF SettleInv, RunnerInv, CallerInv, NoLateWork, Working, Threads, InExecutor
<1> QED BY SettleHolds, <1>1, PTL

\* What is left behind without an end was given up by a call that said so.
THEOREM AbandonsAloud == Spec => []AbandonedOnlyAfterError
<1>1. Facts /\ GateInv /\ SettleInv => AbandonedOnlyAfterError
  <2> SUFFICES ASSUME Facts, GateInv, SettleInv, Quiescent,
                      status \notin Terminal \union {"awaiting_approval"}
               PROVE  \/ mode = "sync" /\ exit[Runner] # "ok"
                      \/ status = "running" /\ \E t \in Callers : exit[t] # "ok"
    BY DEF AbandonedOnlyAfterError
  <2>1. pc[Runner] \in {"idle", "done"} /\ \A t \in Callers : pc[t] \in {"idle", "done"}
    BY DEF Quiescent, Threads
  <2>2. CASE mode = "sync" /\ exit[Runner] # "ok"
    BY <2>2
  <2>3. CASE Disposed
    BY <2>1, <2>3 DEF Disposed, SettleInv, ApproverInv, Entering, InExecutor
  <2> QED BY <2>1, <2>2, <2>3 DEF Facts, ControlTypeOK, SettleInv, RunnerInv, Left
<1> QED BY SettleHolds, <1>1, PTL

-----------------------------------------------------------------------------
(* The kernel keeps the promise of GatedRun.                               *)

LEMMA GatedStep ==
    ASSUME Facts, GateInv, [Next]_vars
    PROVE  [Gated!Next]_Gated!vars
<1> USE ExecutionAssumption
    DEF Gated!vars, Stage, Granted, Statuses, Terminal, Facts, SessionTypeOK
<1>1. ASSUME UNCHANGED <<status, approvalDecision, external, runs>>
      PROVE  UNCHANGED Gated!vars
  BY <1>1
<1>2. ASSUME UNCHANGED <<external, runs, approvalDecision>>,
             status \notin Terminal, status' \in {"succeeded", "failed"}
      PROVE  Gated!Close
  BY <1>2 DEF Gated!Close
<1>3. CASE UNCHANGED vars
  BY <1>1, <1>3 DEF vars, sessionVars
<1>4. ASSUME Admit \/ DrainStarted \/ Resolve \/ CheckSettled
      PROVE  UNCHANGED Gated!vars
  <2>1. /\ UNCHANGED <<approvalDecision, external, runs>>
        /\ \/ status' = status
           \/ /\ status \in {"pending", "validated"}
              /\ status' \in {"validated", "resolved"}
    BY <1>4 DEF Admit, MarkValidated, DrainStarted, Pull, PullEvents, Resolve,
                MarkResolved, CheckSettled, transitionTo, validTransitions,
                fixed, steady, sessionVars
  <2> QED BY <1>1, <2>1
<1>5. CASE Gate
  <2>1. CASE status' = "awaiting_approval"
    BY <1>5, <2>1 DEF Gate, MarkAwaitingApproval, Gated!Admit, Gated!Next,
                      fixed, steady, sessionVars
  <2>2. CASE UNCHANGED sessionVars
    BY <1>1, <1>5, <2>2 DEF Gate, fixed, steady, sessionVars
  <2> QED BY <1>5, <2>1, <2>2 DEF Gate, MarkAwaitingApproval
<1>6. ASSUME NEW t \in Threads, Begin(t)
      PROVE  Gated!Admit \/ UNCHANGED Gated!vars
  <2>1. CASE status' = status
    BY <1>1, <1>6, <2>1 DEF Begin, MarkRunning, fixed, steady, sessionVars
  <2>2. CASE MarkRunning
    <3>1. status = "resolved" /\ ~external
      BY <1>6, <2>2 DEF Begin, at, GateInv, Threads, MarkRunning,
                        transitionTo, validTransitions
    <3> QED BY <1>6, <2>2, <3>1
            DEF Begin, MarkRunning, transitionTo, validTransitions,
                Gated!Admit, OutcomeInv, fixed, steady
  <2> QED BY <1>6, <2>1, <2>2 DEF Begin, sessionVars
<1>7. ASSUME NEW t \in Threads, Dispatch(t)
      PROVE  Gated!Run
  <2>1. /\ runs = 0 /\ runs' = 1
        /\ status \in {"running"} \union Terminal
        /\ external => approvalDecision # NoPrincipal /\ status # "rejected"
    BY <1>7 DEF Dispatch, at, GateInv, Threads, Entering
  <2> QED BY <1>7, <2>1 DEF Dispatch, Gated!Run, fixed, sessionVars
<1>8. ASSUME NEW t \in Threads, Conclude(t) \/ ExecutorNotFound(t)
      PROVE  Gated!Close \/ UNCHANGED Gated!vars
  <2>1. /\ UNCHANGED <<approvalDecision, external, runs>>
        /\ \/ status' = status
           \/ status = "running" /\ status' \in {"succeeded", "failed"}
    BY <1>8 DEF Conclude, ExecutorNotFound, Succeed, Fail, forceFail,
                transitionTo, validTransitions, fixed, steady, sessionVars
  <2> QED BY <1>1, <1>2, <2>1
<1>9. ASSUME Recover \/ AbortSession
      PROVE  Gated!Close \/ UNCHANGED Gated!vars
  <2>1. /\ UNCHANGED <<approvalDecision, external, runs>>
        /\ \/ status' = status
           \/ status \notin Terminal /\ status' = "failed"
    BY <1>9 DEF Recover, AbortSession, Abort, Fail, forceFail, fixed, steady,
                sessionVars
  <2> QED BY <1>1, <1>2, <2>1
<1>10. ASSUME NEW t \in Threads, WorkStep(t)
       PROVE  [Gated!Next]_Gated!vars
  <2>1. CASE EmitChunk(t) \/ RecordEvidence(t)
    BY <1>1, <2>1 DEF EmitChunk, Emit, RecordEvidence, AppendEvidence, fixed,
                      steady
  <2>2. CASE \/ Build(t) \/ InvokeCapability(t) \/ ExecutorReturns(t)
             \/ ExecutorPanics(t) \/ Judge(t)
    BY <1>1, <2>2 DEF Build, InvokeCapability, ExecutorReturns, ExecutorPanics,
                      Judge, fixed, steady, sessionVars
  <2> QED BY <1>6, <1>7, <1>8, <1>10, <2>1, <2>2 DEF WorkStep, Gated!Next
<1>11. ASSUME NEW t \in Threads, ServiceStep(t) \/ Resume(t)
       PROVE  UNCHANGED Gated!vars
  BY <1>1, <1>11
     DEF ServiceStep, DeferredDrain, Pull, PullEvents, Publish, Published,
         PublisherPanics, Return, Resume, fixed, steady, sessionVars
<1>12. ASSUME NEW t \in Callers, ApproveSession(t)
       PROVE  Gated!Grant
  BY <1>12, SessionAssumption
     DEF ApproveSession, Approve, signed, awaitsDecision, Gated!Grant, fixed, steady
<1>13. ASSUME NEW t \in Callers, RejectSession(t)
       PROVE  Gated!Close
  BY <1>13 DEF RejectSession, Reject, signed, awaitsDecision, Gated!Close, OutcomeInv,
               StatusTellsOutcome, fixed, steady
<1> QED BY <1>3, <1>4, <1>5, <1>9, <1>10, <1>11, <1>12, <1>13
        DEF Next, RunnerStep, CallerStep, Threads, Gated!Next

\* The kernel implements GatedRun: the executor of a session runs at most
\* once, behind an approval when the action writes to external systems, and a
\* closed session stays closed.
THEOREM ImplementsGate == Spec => GatedSpec
<1>1. Init => Gated!Init
  BY DEF Init, SessionInit, Gated!Init, Stage, Granted, Terminal
<1>2. Facts /\ GateInv /\ [Next]_vars => [Gated!Next]_Gated!vars
  BY GatedStep
<1> QED BY GateHolds, <1>1, <1>2, PTL DEF Spec, GatedSpec, Gated!Spec

-----------------------------------------------------------------------------
(* What holds of the aggregate holds in the kernel.                        *)

\* In the kernel, too, a session raises its completion exactly once, when it
\* becomes terminal, whichever goroutine brings it there.
THEOREM KernelCompletesOnce == Spec => []CompletedExactlyOnce
BY ImplementsSession, CompletesOnce, PTL

\* The trail verifies at every moment the executor's evidence is recorded.
THEOREM KernelChainVerifies == Spec => []EvidenceVerifies
BY ImplementsSession, ChainVerifies, PTL

\* No goroutine of the kernel changes a session that is over, and no caller
\* replaces the decision of another.
THEOREM KernelSettledStays == Spec => SettledIsFinal
BY ImplementsSession, SettledStays, PTL

\* The chunks an executor streams can be rebuilt from the events, wherever
\* drains pull them.
THEOREM KernelChunksRebuild == Spec => []ChunkTrailRebuilds
BY ImplementsSession, ChunksRebuild, PTL

-----------------------------------------------------------------------------
(* The way of an event: the session's buffer, the hands of the goroutine   *)
(* that pulled it, the publisher.                                          *)

Outboxes == [Threads -> Seq(SessionEvent)]

\* A step that moves no event of the session: it may publish one of the
\* invoker's or of the token check.
Elsewhere ==
    /\ UNCHANGED <<outbox, pulled>>
    /\ \/ UNCHANGED published
       \/ \E e \in {CapabilityInvoked, BudgetExceeded} : published' = Append(published, e)

LEMMA BusEventsDiffer ==
    CapabilityInvoked \notin SessionEvent /\ BudgetExceeded \notin SessionEvent
<1>1. \A e \in SessionEvent :
          e.type \in {"session.started", "session.awaiting_approval", "session.approved",
                     "session.completed", "result.chunk.emitted", "evidence.recorded"}
  BY KindsDiffer DEF SessionEvent
<1>2. /\ CapabilityInvoked.type = "capability.invoked"
      /\ BudgetExceeded.type = "budget.exceeded"
  BY DEF CapabilityInvoked, BudgetExceeded
<1> QED BY <1>1, <1>2

LEMMA EventMoves ==
    ASSUME [Next]_vars
    PROVE  \/ Elsewhere
           \/ \E t \in Threads :
                  \/ \E from \in {"validated", "leaving"}, to \in {"announcing", "flushing"} :
                         Pull(t, from, to)
                  \/ Publish(t)
                  \/ PublisherPanics(t)
<1> USE DEF Elsewhere, fixed, steady, quiet, sessionVars
<1>1. ASSUME NEW t \in Threads, WorkStep(t)
      PROVE  Elsewhere
  <2>1. CASE InvokeCapability(t) \/ Judge(t)
    BY <2>1 DEF InvokeCapability, Judge
  <2>2. CASE \/ Build(t) \/ Begin(t) \/ Dispatch(t) \/ ExecutorNotFound(t)
             \/ EmitChunk(t) \/ RecordEvidence(t)
    BY <2>2 DEF Build, Begin, MarkRunning, Dispatch, ExecutorNotFound, Fail, forceFail,
                EmitChunk, Emit, RecordEvidence, AppendEvidence
  <2>3. CASE ExecutorReturns(t) \/ ExecutorPanics(t) \/ Conclude(t)
    BY <2>3 DEF ExecutorReturns, ExecutorPanics, Conclude, Succeed, Fail, forceFail
  <2> QED BY <1>1, <2>1, <2>2, <2>3 DEF WorkStep
<1>2. CASE Admit \/ Resolve \/ Gate \/ CheckSettled \/ Recover \/ AbortSession
  BY <1>2 DEF Admit, MarkValidated, Resolve, MarkResolved, Gate, MarkAwaitingApproval,
     CheckSettled, Recover, Fail, AbortSession, Abort, forceFail
<1>3. ASSUME NEW t \in Threads, Published(t) \/ Return(t) \/ Resume(t)
                 \/ ApproveSession(t) \/ RejectSession(t)
      PROVE  Elsewhere
  BY <1>3 DEF Published, Return, Resume, ApproveSession, Approve, RejectSession, Reject
<1>4. CASE UNCHANGED vars
  BY <1>4 DEF vars
<1>5. CASE DrainStarted
  BY <1>5 DEF DrainStarted, Threads
<1> QED BY <1>1, <1>2, <1>3, <1>4, <1>5
        DEF Next, RunnerStep, ServiceStep, CallerStep, DeferredDrain, Threads

\* Where an event of Raised lies.
LEMMA RaisedParts ==
    ASSUME SessionTypeOK
    PROVE  /\ Len(pulled) \in Nat /\ Len(pendingEvents) \in Nat
           /\ DOMAIN Raised = 1 .. Len(pulled) + Len(pendingEvents)
           /\ \A i \in DOMAIN pulled : i \in DOMAIN Raised /\ Raised[i] = pulled[i]
           /\ \A i \in DOMAIN pendingEvents :
                  /\ Len(pulled) + i \in DOMAIN Raised \ DOMAIN pulled
                  /\ Raised[Len(pulled) + i] = pendingEvents[i]
BY ConcatProperties, LenProperties DEF SessionTypeOK, Raised

\* No event of s is in r, but for those that may repeat.
Apart(r, s) ==
    \A i \in DOMAIN r, j \in DOMAIN s : Unique(s[j]) => r[i] # s[j]

Distinct(s) ==
    \A i, j \in DOMAIN s : s[i] \in SessionEvent /\ Unique(s[i]) /\ s[i] = s[j] => i = j

\* What goroutines hold and the publisher has got was pulled.
FromPulled(s) ==
    \A i \in DOMAIN s : s[i] \in SessionEvent => \E k \in DOMAIN pulled : pulled[k] = s[i]

OnceInv ==
    /\ Distinct(published) /\ FromPulled(published)
    /\ \A t \in Threads :
           Distinct(outbox[t]) /\ FromPulled(outbox[t]) /\ Apart(published, outbox[t])
    /\ \A t, u \in Threads : t # u => Apart(outbox[t], outbox[u])

BusFacts == TypeOK /\ RaisedOnceInv

\* The buffer has nothing in common with what was pulled.
LEMMA PendingIsNew ==
    ASSUME BusFacts
    PROVE  /\ Distinct(pendingEvents)
           /\ \A s : FromPulled(s) => Apart(s, pendingEvents)
<1>1. SessionTypeOK /\ pendingEvents \in Seq(SessionEvent)
  BY DEF BusFacts, TypeOK, SessionTypeOK
<1>2. Distinct(pendingEvents)
  <2> SUFFICES ASSUME NEW i \in DOMAIN pendingEvents, NEW j \in DOMAIN pendingEvents,
                      Unique(pendingEvents[i]), pendingEvents[i] = pendingEvents[j]
               PROVE  i = j
    BY DEF Distinct
  <2>1. Len(pulled) + i = Len(pulled) + j
    BY <1>1, RaisedParts DEF BusFacts, RaisedOnceInv
  <2> QED BY <1>1, <2>1, RaisedParts
<1>3. ASSUME NEW k \in DOMAIN pulled, NEW j \in DOMAIN pendingEvents,
             Unique(pendingEvents[j])
      PROVE  pulled[k] # pendingEvents[j]
  BY <1>1, <1>3, RaisedParts DEF BusFacts, RaisedOnceInv
<1>4. ASSUME NEW s, FromPulled(s)
      PROVE  Apart(s, pendingEvents)
  <2> SUFFICES ASSUME NEW i \in DOMAIN s, NEW j \in DOMAIN pendingEvents,
                      Unique(pendingEvents[j]), s[i] = pendingEvents[j]
               PROVE  FALSE
    BY DEF Apart
  <2>1. s[i] \in SessionEvent
    BY <1>1
  <2> QED BY <1>3, <1>4, <2>1 DEF FromPulled
<1> QED BY <1>2, <1>4

LEMMA OncePull ==
    ASSUME BusFacts, OnceInv, NEW t \in Threads, NEW from, NEW to, Pull(t, from, to)
    PROVE  OnceInv'
<1>1. /\ outbox \in Outboxes /\ outbox' = [outbox EXCEPT ![t] = pendingEvents]
      /\ published' = published /\ pulled' = pulled \o pendingEvents
      /\ pulled \in Seq(SessionEvent) /\ pendingEvents \in Seq(SessionEvent)
  BY DEF Pull, PullEvents, BusFacts, TypeOK, SessionTypeOK, Outboxes
<1>2. /\ \A k \in DOMAIN pulled : k \in DOMAIN pulled' /\ pulled'[k] = pulled[k]
      /\ \A k \in DOMAIN pendingEvents :
             Len(pulled) + k \in DOMAIN pulled' /\ pulled'[Len(pulled) + k] = pendingEvents[k]
  BY <1>1
<1>5. /\ outbox'[t] = pendingEvents
      /\ \A u \in Threads : u # t => outbox'[u] = outbox[u]
  BY <1>1 DEF Outboxes
<1>6. Distinct(published)' /\ FromPulled(published)'
  BY <1>1, <1>2 DEF OnceInv, Distinct, FromPulled
<1>7. /\ Distinct(pendingEvents)
      /\ Apart(published, pendingEvents)
      /\ \A u \in Threads : Apart(outbox[u], pendingEvents) /\ Apart(pendingEvents, outbox[u])
  <2>1. \A u \in Threads : Apart(outbox[u], pendingEvents)
    BY PendingIsNew DEF OnceInv
  <2>2. \A u \in Threads : Apart(pendingEvents, outbox[u])
    BY <2>1 DEF Apart
  <2> QED BY <2>1, <2>2, PendingIsNew DEF OnceInv
<1>8. ASSUME NEW u \in Threads
      PROVE  /\ Distinct(outbox[u])' /\ FromPulled(outbox[u])'
             /\ Apart(published, outbox[u])'
  <2>1. CASE u = t
    <3>1. Distinct(outbox[u])'
      BY <1>5, <1>7, <2>1 DEF Distinct
    <3>2. FromPulled(outbox[u])'
      BY <1>2, <1>5, <2>1 DEF FromPulled
    <3>3. Apart(published, outbox[u])'
      BY <1>1, <1>5, <1>7, <2>1 DEF Apart
    <3> QED BY <3>1, <3>2, <3>3
  <2>2. CASE u # t
    BY <1>1, <1>2, <1>5, <2>2 DEF OnceInv, Distinct, FromPulled, Apart
  <2> QED BY <2>1, <2>2
<1>9. ASSUME NEW u \in Threads, NEW v \in Threads, u # v
      PROVE  Apart(outbox[u], outbox[v])'
  <2>1. CASE u # t /\ v # t
    BY <1>5, <1>9, <2>1 DEF OnceInv, Apart
  <2>2. CASE u = t
    BY <1>5, <1>7, <1>9, <2>2 DEF Apart
  <2>3. CASE v = t
    BY <1>5, <1>7, <1>9, <2>3 DEF Apart
  <2> QED BY <2>1, <2>2, <2>3
<1> QED BY <1>6, <1>8, <1>9 DEF OnceInv

LEMMA OncePublish ==
    ASSUME BusFacts, OnceInv, NEW t \in Threads, Publish(t)
    PROVE  OnceInv'
<1> DEFINE s == outbox[t]
           n == Len(published)
<1>1. /\ outbox \in Outboxes /\ s # <<>> /\ s \in Seq(SessionEvent)
      /\ published \in Seq(BusEvent) /\ pulled' = pulled
      /\ published' = Append(published, Head(s))
      /\ outbox' = [outbox EXCEPT ![t] = Tail(s)]
  BY DEF Publish, sessionVars, BusFacts, TypeOK, Outboxes
<1>2. /\ 1 \in DOMAIN s /\ Head(s) = s[1] /\ Head(s) \in SessionEvent
      /\ \A i \in DOMAIN Tail(s) : i + 1 \in DOMAIN s /\ Tail(s)[i] = s[i + 1] /\ i + 1 # 1
      /\ DOMAIN Tail(s) \subseteq Nat /\ Tail(s) \in Seq(SessionEvent)
  BY <1>1, HeadTailProperties
<1>3. /\ \A i \in DOMAIN published' :
             \/ i \in DOMAIN published /\ published'[i] = published[i]
             \/ i = n + 1 /\ published'[i] = s[1]
      /\ n + 1 \notin DOMAIN published /\ n + 1 \in DOMAIN published'
  <2>1. Head(s) \in BusEvent
    BY <1>2 DEF BusEvent
  <2> QED BY <1>1, <1>2, <2>1
<1>4. /\ outbox'[t] = Tail(s)
      /\ \A u \in Threads : u # t => outbox'[u] = outbox[u]
  BY <1>1 DEF Outboxes
<1>5. /\ Distinct(published) /\ FromPulled(published)
      /\ Distinct(s) /\ FromPulled(s) /\ Apart(published, s)
      /\ \A u \in Threads : u # t => Apart(s, outbox[u]) /\ Apart(outbox[u], s)
  BY DEF OnceInv
<1> HIDE DEF s, n
<1>6. Distinct(published)'
  <2> SUFFICES ASSUME NEW i \in DOMAIN published', NEW j \in DOMAIN published',
                      published'[i] \in SessionEvent, Unique(published'[i]),
                      published'[i] = published'[j]
               PROVE  i = j
    BY DEF Distinct
  <2>1. CASE i \in DOMAIN published /\ j \in DOMAIN published
    BY <1>3, <1>5, <2>1 DEF Distinct
  <2>2. CASE i = n + 1 \/ j = n + 1
    BY <1>2, <1>3, <1>5, <2>2 DEF Apart
  <2> QED BY <1>3, <2>1, <2>2
<1>7. FromPulled(published)'
  BY <1>1, <1>2, <1>3, <1>5 DEF FromPulled
<1>8. ASSUME NEW u \in Threads
      PROVE  /\ Distinct(outbox[u])' /\ FromPulled(outbox[u])'
             /\ Apart(published, outbox[u])'
  <2>1. CASE u = t
    <3>1. Distinct(outbox[u])'
      <4>1. ASSUME NEW i \in DOMAIN Tail(s), NEW j \in DOMAIN Tail(s),
                   Tail(s)[i] \in SessionEvent, Unique(Tail(s)[i]),
                   Tail(s)[i] = Tail(s)[j]
            PROVE  i = j
        <5>1. /\ i + 1 \in DOMAIN s /\ Tail(s)[i] = s[i + 1]
              /\ j + 1 \in DOMAIN s /\ Tail(s)[j] = s[j + 1]
              /\ i \in Nat /\ j \in Nat
          BY <1>2
        <5>2. s[i + 1] \in SessionEvent /\ Unique(s[i + 1]) /\ s[i + 1] = s[j + 1]
          BY <4>1, <5>1
        <5>3. i + 1 = j + 1
          BY <1>5, <5>1, <5>2 DEF Distinct
        <5> QED BY <5>1, <5>3
      <4>2. outbox'[u] = Tail(s)
        BY <1>4, <2>1
      <4>3. Distinct(Tail(s))
        BY <4>1 DEF Distinct
      <4> QED BY <4>2, <4>3 DEF Distinct
    <3>2. FromPulled(outbox[u])'
      BY <1>1, <1>2, <1>4, <1>5, <2>1 DEF FromPulled
    <3>3. \A j \in DOMAIN Tail(s) : Unique(Tail(s)[j]) => s[1] # Tail(s)[j]
      BY <1>2, <1>5 DEF Distinct
    <3>4. \A i \in DOMAIN published, j \in DOMAIN Tail(s) :
              Unique(Tail(s)[j]) => published[i] # Tail(s)[j]
      BY <1>2, <1>5 DEF Apart
    <3>5. Apart(published, outbox[u])'
      <4> SUFFICES ASSUME NEW i \in DOMAIN published', NEW j \in DOMAIN Tail(s),
                          Unique(Tail(s)[j])
                   PROVE  published'[i] # Tail(s)[j]
        BY <1>4, <2>1 DEF Apart
      <4> QED BY <1>3, <3>3, <3>4
    <3> QED BY <3>1, <3>2, <3>5
  <2>2. CASE u # t
    <3>1. Distinct(outbox[u])' /\ FromPulled(outbox[u])'
      BY <1>1, <1>4, <2>2 DEF OnceInv, Distinct, FromPulled
    <3>2. Apart(published, outbox[u])'
      BY <1>2, <1>3, <1>4, <1>5, <2>2 DEF OnceInv, Apart
    <3> QED BY <3>1, <3>2
  <2> QED BY <2>1, <2>2
<1>9. ASSUME NEW u \in Threads, NEW v \in Threads, u # v
      PROVE  Apart(outbox[u], outbox[v])'
  <2>1. CASE u # t /\ v # t
    BY <1>4, <1>9, <2>1 DEF OnceInv, Apart
  <2>2. CASE u = t
    BY <1>2, <1>4, <1>5, <1>9, <2>2 DEF Apart
  <2>3. CASE v = t
    BY <1>2, <1>4, <1>5, <1>9, <2>3 DEF Apart
  <2> QED BY <2>1, <2>2, <2>3
<1> QED BY <1>6, <1>7, <1>8, <1>9 DEF OnceInv

LEMMA OnceStep ==
    ASSUME BusFacts, OnceInv, [Next]_vars
    PROVE  OnceInv'
<1>1. CASE Elsewhere
  <2>1. published \in Seq(BusEvent)
    BY DEF BusFacts, TypeOK
  <2>2. \A i \in DOMAIN published' :
            \/ i \in DOMAIN published /\ published'[i] = published[i]
            \/ published'[i] \notin SessionEvent
    <3>1. CASE UNCHANGED published
      BY <3>1
    <3>2. ASSUME NEW e \in {CapabilityInvoked, BudgetExceeded},
                 published' = Append(published, e)
          PROVE  <2>2!:
      <4>1. e \in BusEvent /\ e \notin SessionEvent
        BY BusEventsDiffer DEF BusEvent
      <4> QED BY <2>1, <3>2, <4>1
    <3> QED BY <1>1, <3>1, <3>2 DEF Elsewhere
  <2>3. outbox \in Outboxes /\ UNCHANGED <<outbox, pulled>>
    BY <1>1 DEF Elsewhere, BusFacts, TypeOK, Outboxes
  <2>4. Distinct(published)' /\ FromPulled(published)'
    BY <2>2, <2>3 DEF OnceInv, Distinct, FromPulled
  <2>5. ASSUME NEW t \in Threads
        PROVE  Apart(published, outbox[t])'
    <3>1. \A j \in DOMAIN outbox[t] : outbox[t][j] \in SessionEvent
      BY <2>3 DEF Outboxes
    <3> QED BY <2>2, <2>3, <3>1 DEF OnceInv, Apart
  <2>6. \A t \in Threads : Distinct(outbox[t])' /\ FromPulled(outbox[t])'
    BY <2>3 DEF OnceInv, Distinct, FromPulled
  <2>7. \A t, u \in Threads : t # u => Apart(outbox[t], outbox[u])'
    BY <2>3 DEF OnceInv, Apart
  <2> QED BY <2>4, <2>5, <2>6, <2>7 DEF OnceInv
<1>2. ASSUME NEW t \in Threads, PublisherPanics(t)
      PROVE  OnceInv'
  <2>1. /\ outbox \in Outboxes /\ outbox' = [outbox EXCEPT ![t] = <<>>]
        /\ UNCHANGED <<published, pulled>>
    BY <1>2 DEF PublisherPanics, sessionVars, BusFacts, TypeOK, Outboxes
  <2>2. /\ DOMAIN outbox'[t] = {}
        /\ \A u \in Threads : u # t => outbox'[u] = outbox[u]
    BY <2>1 DEF Outboxes
  <2>3. Distinct(published)' /\ FromPulled(published)'
    BY <2>1 DEF OnceInv, Distinct, FromPulled
  <2>4. \A u \in Threads : Distinct(outbox[u])' /\ FromPulled(outbox[u])'
    BY <2>1, <2>2 DEF OnceInv, Distinct, FromPulled
  <2>5. \A u \in Threads : Apart(published, outbox[u])'
    BY <2>1, <2>2 DEF OnceInv, Apart
  <2>6. \A v, u \in Threads : v # u => Apart(outbox[v], outbox[u])'
    BY <2>2 DEF OnceInv, Apart
  <2> QED BY <2>3, <2>4, <2>5, <2>6 DEF OnceInv
<1> QED BY <1>1, <1>2, EventMoves, OncePull, OncePublish

LEMMA KernelRaisesOnce == Spec => []RaisedOnceInv
BY ImplementsSession, RaisesOnce, PTL

LEMMA BusFactsHold == Spec => []BusFacts
<1>1. TypeOK /\ RaisedOnceInv => BusFacts
  BY DEF BusFacts
<1> QED BY Typed, KernelRaisesOnce, <1>1, PTL

LEMMA OnceHolds == Spec => []OnceInv
<1>1. Init => OnceInv
  <2> SUFFICES ASSUME Init PROVE OnceInv
    OBVIOUS
  <2>1. DOMAIN published = {} /\ \A t \in Threads : DOMAIN outbox[t] = {}
    BY DEF Init
  <2> QED BY <2>1 DEF OnceInv, Distinct, FromPulled, Apart
<1>2. BusFacts /\ OnceInv /\ [Next]_vars => OnceInv'
  BY OnceStep
<1> QED BY BusFactsHold, <1>1, <1>2, PTL DEF Spec

\* A set any two elements of which are equal has one element at most.
LEMMA OneElement ==
    ASSUME NEW S, \A x, y \in S : x = y
    PROVE  /\ Cardinality(S) \in {0, 1}
           /\ Cardinality(S) = 0 <=> S = {}
<1>1. CASE S = {}
  BY <1>1, FS_EmptySet
<1>2. CASE S # {}
  <2>1. PICK x \in S : S = {x}
    BY <1>2
  <2> QED BY <2>1, FS_Singleton
<1> QED BY <1>1, <1>2

\* No event is lost track of between the session, the goroutines that pull and
\* the publisher: none is ever in two of these places or twice in one, however
\* the drains of concurrent calls interleave and wherever one panics.
THEOREM NeverTwice == Spec => []NoEventTwice
<1>1. BusFacts /\ OnceInv => NoEventTwice
  <2> SUFFICES ASSUME BusFacts, OnceInv, NEW e \in SessionEvent, Unique(e)
               PROVE  occurrences(e, published) + occurrences(e, pendingEvents)
                          + Cardinality({t \in Threads : occurrences(e, outbox[t]) > 0}) <= 1
    BY DEF NoEventTwice, Unique
  <2> DEFINE in(s) == {i \in DOMAIN s : s[i] = e}
             hands == {t \in Threads : occurrences(e, outbox[t]) > 0}
  <2>1. \A s : Distinct(s) =>
            /\ occurrences(e, s) \in {0, 1}
            /\ occurrences(e, s) = 0 <=> in(s) = {}
    <3> SUFFICES ASSUME NEW s, Distinct(s)
                 PROVE  /\ occurrences(e, s) \in {0, 1}
                        /\ occurrences(e, s) = 0 <=> in(s) = {}
      OBVIOUS
    <3>1. \A i, j \in in(s) : i = j
      BY DEF Distinct
    <3> QED BY <3>1, OneElement DEF occurrences
  <2>2. /\ Distinct(published) /\ Distinct(pendingEvents)
        /\ Apart(published, pendingEvents)
        /\ \A t \in Threads : /\ Distinct(outbox[t]) /\ Apart(published, outbox[t])
                              /\ Apart(outbox[t], pendingEvents)
    BY PendingIsNew DEF OnceInv
  <2>3. \A t \in hands : in(outbox[t]) # {}
    BY <2>1, <2>2
  <2>4. \A t, u \in hands : t = u
    BY <2>3 DEF OnceInv, Apart
  <2>5. Cardinality(hands) \in {0, 1} /\ (Cardinality(hands) = 0 <=> hands = {})
    BY <2>4, OneElement
  <2>6. in(published) # {} => in(pendingEvents) = {} /\ hands = {}
    BY <2>2, <2>3 DEF Apart
  <2>7. in(pendingEvents) # {} => hands = {}
    BY <2>2, <2>3 DEF Apart
  <2>8. /\ occurrences(e, published) \in {0, 1} /\ occurrences(e, pendingEvents) \in {0, 1}
        /\ occurrences(e, published) = 0 <=> in(published) = {}
        /\ occurrences(e, pendingEvents) = 0 <=> in(pendingEvents) = {}
    <3> HIDE DEF in
    <3>1. /\ occurrences(e, published) \in {0, 1}
          /\ occurrences(e, published) = 0 <=> in(published) = {}
      BY <2>1, <2>2
    <3>2. /\ occurrences(e, pendingEvents) \in {0, 1}
          /\ occurrences(e, pendingEvents) = 0 <=> in(pendingEvents) = {}
      BY <2>1, <2>2
    <3> QED BY <3>1, <3>2
  <2> HIDE DEF hands, in
  <2>9. occurrences(e, published) + occurrences(e, pendingEvents) + Cardinality(hands) <= 1
    <3>1. occurrences(e, published) # 0 =>
              occurrences(e, pendingEvents) = 0 /\ Cardinality(hands) = 0
      BY <2>5, <2>6, <2>8
    <3>2. occurrences(e, pendingEvents) # 0 => Cardinality(hands) = 0
      BY <2>5, <2>7, <2>8
    <3> QED BY <2>5, <2>8, <3>1, <3>2
  <2> QED BY <2>9 DEF hands
<1> QED BY BusFactsHold, OnceHolds, <1>1, PTL

-----------------------------------------------------------------------------
(* What is delivered at rest.                                              *)

\* A goroutine holds events only while it is publishing them, and the places
\* after Execute that look at the session again are those of ExecuteAsync.
HandsInv ==
    /\ \A t \in Threads : pc[t] \notin {"announcing", "flushing"} => outbox[t] = <<>>
    /\ pc[Runner] \in {"checking", "rechecking", "recovering", "aborting"} => mode = "async"

LEMMA HandsStep ==
    ASSUME ControlTypeOK, outbox \in Outboxes, HandsInv, [Next]_vars
    PROVE  HandsInv'
<1> USE ExecutionAssumption
    DEF ControlTypeOK, Outboxes, HandsInv, Threads, Places, goto, leave, at, fixed, steady,
        quiet
<1>1. ASSUME NEW t \in Threads, UNCHANGED <<outbox, mode>>,
             pc[t] \notin {"announcing", "flushing"} \/ outbox[t] = <<>>,
             NEW place \in Places, pc' = [pc EXCEPT ![t] = place],
             place \in {"checking", "rechecking", "recovering", "aborting"} /\ t = Runner =>
                 mode = "async"
      PROVE  HandsInv'
  BY <1>1
<1>2. CASE UNCHANGED <<outbox, mode, pc>>
  BY <1>2
<1>3. CASE Admit \/ Resolve \/ Gate \/ CheckSettled \/ Recover \/ AbortSession
  BY <1>1, <1>3 DEF Admit, Resolve, Gate, CheckSettled, Recover, AbortSession
<1>4. ASSUME NEW t \in Threads, NEW from, NEW to, Pull(t, from, to),
             to \in {"announcing", "flushing"}
      PROVE  HandsInv'
  BY <1>4 DEF Pull
<1>5. ASSUME NEW t \in Threads, WorkStep(t)
      PROVE  HandsInv'
  <2>1. CASE EmitChunk(t) \/ InvokeCapability(t) \/ RecordEvidence(t)
    BY <1>2, <2>1 DEF EmitChunk, InvokeCapability, RecordEvidence
  <2>2. CASE Build(t) \/ Begin(t) \/ Dispatch(t) \/ ExecutorNotFound(t)
    BY <1>1, <2>2 DEF Build, Begin, Dispatch, ExecutorNotFound
  <2>3. CASE ExecutorReturns(t) \/ ExecutorPanics(t) \/ Judge(t) \/ Conclude(t)
    BY <1>1, <2>3 DEF ExecutorReturns, ExecutorPanics, Judge, Conclude
  <2> QED BY <1>5, <2>1, <2>2, <2>3 DEF WorkStep
<1>6. ASSUME NEW t \in Threads, Publish(t)
      PROVE  HandsInv'
  BY <1>6 DEF Publish
<1>7. ASSUME NEW t \in Threads, PublisherPanics(t)
      PROVE  HandsInv'
  <2>1. /\ pc' = [pc EXCEPT ![t] = "leaving"] \/ pc' = [pc EXCEPT ![t] = "returned"]
        /\ outbox' = [outbox EXCEPT ![t] = <<>>] /\ UNCHANGED mode
    BY <1>7 DEF PublisherPanics
  <2> QED BY <2>1
<1>8. ASSUME NEW t \in Threads, Published(t)
      PROVE  HandsInv'
  BY <1>1, <1>8 DEF Published
<1>9. ASSUME NEW t \in Threads, Return(t)
      PROVE  HandsInv'
  <2>1. pc[t] = "returned" /\ UNCHANGED <<outbox, mode>>
    BY <1>9 DEF Return
  <2>2. CASE pc' = [pc EXCEPT ![t] = "done"] \/ pc' = [pc EXCEPT ![t] = "idle"]
    BY <1>1, <2>1, <2>2
  <2>3. CASE mode = "async" /\ pc' = [pc EXCEPT ![t] = afterExecute(exit[t])]
    <3>1. afterExecute(exit[t]) \in {"done", "checking", "recovering"}
      BY DEF afterExecute
    <3> QED BY <1>1, <2>1, <2>3, <3>1
  <2> QED BY <1>9, <2>2, <2>3 DEF Return
<1>10. ASSUME NEW t \in Callers, Resume(t) \/ ApproveSession(t) \/ RejectSession(t)
       PROVE  HandsInv'
  BY <1>1, <1>2, <1>10 DEF Resume, ApproveSession, RejectSession
<1>11. CASE UNCHANGED vars
  BY <1>2, <1>11 DEF vars
<1> QED BY <1>3, <1>4, <1>5, <1>6, <1>7, <1>8, <1>9, <1>10, <1>11
        DEF Next, RunnerStep, ServiceStep, CallerStep, DrainStarted, DeferredDrain

\* Without a panic, everything pulled is on its way or has arrived.
Conveyed ==
    faults = 0 =>
        \A k \in DOMAIN pulled :
            \/ \E i \in DOMAIN published : published[i] = pulled[k]
            \/ \E t \in Threads : \E i \in DOMAIN outbox[t] : outbox[t][i] = pulled[k]

LEMMA FaultsStay ==
    ASSUME faults \in Nat, [Next]_vars
    PROVE  faults' \in Nat /\ (faults' = 0 => faults = 0)
BY DEF Next, RunnerStep, WorkStep, ServiceStep, CallerStep, vars, Admit, DrainStarted,
   DeferredDrain, Pull, Publish, Published, PublisherPanics, Resolve, Gate, Resume, Build,
   Begin, Dispatch, ExecutorNotFound, EmitChunk, InvokeCapability, ExecutorReturns,
   ExecutorPanics, RecordEvidence, Judge, Conclude, Return, CheckSettled, Recover,
   AbortSession, ApproveSession, RejectSession, quiet, fault

LEMMA ConveyedStep ==
    ASSUME TypeOK, HandsInv, Conveyed, [Next]_vars
    PROVE  Conveyed'
<1> SUFFICES ASSUME faults' = 0, NEW k \in DOMAIN pulled'
             PROVE  \/ \E i \in DOMAIN published' : published'[i] = pulled'[k]
                    \/ \E t \in Threads : \E i \in DOMAIN outbox'[t] : outbox'[t][i] = pulled'[k]
  BY DEF Conveyed
<1>1. faults = 0 /\ faults \in Nat
  BY FaultsStay, ExecutionAssumption DEF TypeOK
<1>2. /\ outbox \in Outboxes /\ published \in Seq(BusEvent)
      /\ pulled \in Seq(SessionEvent) /\ pendingEvents \in Seq(SessionEvent)
  BY DEF TypeOK, SessionTypeOK, Outboxes
<1>3. ASSUME \E i \in DOMAIN published : published[i] = pulled'[k], NEW e \in BusEvent,
             published' = published \/ published' = Append(published, e)
      PROVE  \E i \in DOMAIN published' : published'[i] = pulled'[k]
  <2>1. CASE published' = published
    BY <1>3, <2>1
  <2>2. CASE published' = Append(published, e)
    <3>1. \A i \in DOMAIN published : i \in DOMAIN published' /\ published'[i] = published[i]
      BY <1>2, <2>2
    <3> QED BY <1>3, <3>1
  <2> QED BY <1>3, <2>1, <2>2
<1>4. CASE Elsewhere
  <2>1. k \in DOMAIN pulled /\ pulled'[k] = pulled[k] /\ outbox' = outbox
    BY <1>4 DEF Elsewhere
  <2>2. CASE \E i \in DOMAIN published : published[i] = pulled[k]
    BY <1>3, <1>4, <2>1, <2>2 DEF Elsewhere, BusEvent
  <2> QED BY <1>1, <2>1, <2>2 DEF Conveyed
<1>5. ASSUME NEW t \in Threads, NEW from, NEW to, Pull(t, from, to),
             from \notin {"announcing", "flushing"}
      PROVE  \/ \E i \in DOMAIN published' : published'[i] = pulled'[k]
             \/ \E u \in Threads : \E i \in DOMAIN outbox'[u] : outbox'[u][i] = pulled'[k]
  <2>1. /\ pulled' = pulled \o pendingEvents /\ published' = published
        /\ outbox'[t] = pendingEvents /\ outbox[t] = <<>>
        /\ \A u \in Threads : u # t => outbox'[u] = outbox[u]
    BY <1>2, <1>5 DEF Pull, PullEvents, HandsInv, at, Outboxes
  <2>2. CASE k \in DOMAIN pulled
    <3>1. pulled'[k] = pulled[k]
      BY <1>2, <2>1, <2>2
    <3> QED BY <1>1, <2>1, <2>2, <3>1 DEF Conveyed
  <2>3. CASE k \notin DOMAIN pulled
    <3>1. k - Len(pulled) \in DOMAIN pendingEvents /\ pulled'[k] = pendingEvents[k - Len(pulled)]
      BY <1>2, <2>1, <2>3
    <3> QED BY <2>1, <3>1
  <2> QED BY <2>2, <2>3
<1>6. ASSUME NEW t \in Threads, Publish(t)
      PROVE  \/ \E i \in DOMAIN published' : published'[i] = pulled'[k]
             \/ \E u \in Threads : \E i \in DOMAIN outbox'[u] : outbox'[u][i] = pulled'[k]
  <2>1. /\ pulled' = pulled /\ outbox[t] # <<>> /\ outbox[t] \in Seq(SessionEvent)
        /\ published' = Append(published, Head(outbox[t]))
        /\ outbox'[t] = Tail(outbox[t])
        /\ \A u \in Threads : u # t => outbox'[u] = outbox[u]
    BY <1>2, <1>6 DEF Publish, sessionVars, Outboxes
  <2>2. Head(outbox[t]) \in BusEvent
    BY <2>1 DEF BusEvent
  <2>3. CASE \E i \in DOMAIN published : published[i] = pulled[k]
    BY <1>3, <2>1, <2>2, <2>3
  <2>4. ASSUME NEW i \in DOMAIN outbox[t], outbox[t][i] = pulled[k]
        PROVE  \/ \E j \in DOMAIN published' : published'[j] = pulled'[k]
               \/ \E j \in DOMAIN outbox'[t] : outbox'[t][j] = pulled'[k]
    <3>1. CASE i = 1
      <4>1. Len(published) + 1 \in DOMAIN published' /\ published'[Len(published) + 1] = outbox[t][1]
        BY <1>2, <2>1, <2>2
      <4> QED BY <2>1, <2>4, <3>1, <4>1
    <3>2. CASE i # 1
      <4>1. i - 1 \in DOMAIN outbox'[t] /\ outbox'[t][i - 1] = outbox[t][i]
        BY <2>1, <3>2
      <4> QED BY <2>1, <2>4, <4>1
    <3> QED BY <3>1, <3>2
  <2>5. ASSUME NEW u \in Threads, u # t, NEW i \in DOMAIN outbox[u], outbox[u][i] = pulled[k]
        PROVE  \E j \in DOMAIN outbox'[u] : outbox'[u][j] = pulled'[k]
    BY <2>1, <2>5
  <2>6. ASSUME NEW u \in Threads, NEW i \in DOMAIN outbox[u], outbox[u][i] = pulled[k]
        PROVE  \/ \E j \in DOMAIN published' : published'[j] = pulled'[k]
               \/ \E v \in Threads : \E j \in DOMAIN outbox'[v] : outbox'[v][j] = pulled'[k]
    <3>1. CASE u = t
      <4>1. i \in DOMAIN outbox[t] /\ outbox[t][i] = pulled[k]
        BY <2>6, <3>1
      <4> QED BY <2>4, <4>1
    <3>2. CASE u # t
      BY <2>5, <2>6, <3>2
    <3> QED BY <3>1, <3>2
  <2>7. \/ \E i \in DOMAIN published : published[i] = pulled[k]
        \/ \E u \in Threads : \E i \in DOMAIN outbox[u] : outbox[u][i] = pulled[k]
    BY <1>1, <2>1 DEF Conveyed
  <2> QED BY <2>3, <2>6, <2>7
<1>7. ASSUME NEW t \in Threads, PublisherPanics(t)
      PROVE  FALSE
  BY <1>1, <1>7 DEF PublisherPanics, fault
<1> QED BY <1>4, <1>5, <1>6, <1>7, EventMoves

\* Where a thread is before the drain at the end of Execute or Resume.
BeforeDrain == {"admitting", "validated", "announcing", "resolving", "resolved",
                "resuming", "building", "marking", "dispatching", "executing", "recording",
                "concluding", "leaving"}

\* What no drain comes after: RejectSession has none, and the Abort of
\* ExecuteAsync comes after the last one.
Leftover ==
    /\ status = "rejected" \/ (mode = "async" /\ exit[Runner] = "error")
    /\ Len(pendingEvents) = 1
    /\ IsCompletion(pendingEvents[1])

Buffered ==
    faults = 0 =>
        \/ pendingEvents = <<>>
        \/ \E t \in Threads : pc[t] \in BeforeDrain
        \/ Leftover

\* A call goes on to its drain, or touches nothing of the session, or is one of
\* the few steps that come after a drain.
LEMMA DrainAhead ==
    ASSUME ControlTypeOK, [Next]_vars
    PROVE  \/ pendingEvents' = <<>>
           \/ \E t \in Threads : pc'[t] \in BeforeDrain
           \/ Recover \/ AbortSession
           \/ \E t \in Callers : RejectSession(t)
           \/ \E t \in Threads : PublisherPanics(t)
           \/ /\ UNCHANGED <<sessionVars, mode, exit>>
              /\ \A t \in Threads : pc[t] \notin BeforeDrain
<1> SUFFICES ASSUME \A t \in Threads : pc'[t] \notin BeforeDrain
             PROVE  \/ pendingEvents' = <<>>
                    \/ Recover \/ AbortSession
                    \/ \E t \in Callers : RejectSession(t)
                    \/ \E t \in Threads : PublisherPanics(t)
                    \/ /\ UNCHANGED <<sessionVars, mode, exit>>
                       /\ \A t \in Threads : pc[t] \notin BeforeDrain
  OBVIOUS
<1> USE DEF ControlTypeOK, Threads, BeforeDrain, goto, leave, at, fixed, steady, quiet
<1>1. CASE Admit \/ Resolve \/ Gate
  BY <1>1 DEF Admit, Resolve, Gate
<1>2. ASSUME NEW t \in Threads, WorkStep(t)
      PROVE  FALSE
  <2>1. CASE Build(t) \/ Begin(t) \/ Dispatch(t) \/ ExecutorNotFound(t)
    BY <2>1 DEF Build, Begin, Dispatch, ExecutorNotFound
  <2>2. CASE EmitChunk(t) \/ InvokeCapability(t) \/ RecordEvidence(t)
    BY <2>2 DEF EmitChunk, InvokeCapability, RecordEvidence
  <2>3. CASE ExecutorReturns(t) \/ ExecutorPanics(t) \/ Judge(t) \/ Conclude(t)
    BY <2>3 DEF ExecutorReturns, ExecutorPanics, Judge, Conclude
  <2> QED BY <1>2, <2>1, <2>2, <2>3 DEF WorkStep
<1>3. ASSUME NEW t \in Callers, Resume(t) \/ ApproveSession(t)
      PROVE  FALSE
  BY <1>3 DEF Resume, ApproveSession
<1>4. ASSUME NEW t \in Threads, NEW from, NEW to, Pull(t, from, to)
      PROVE  pendingEvents' = <<>>
  BY <1>4 DEF Pull, PullEvents
<1>5. ASSUME NEW t \in Threads, Publish(t)
      PROVE  /\ UNCHANGED <<sessionVars, mode, exit>>
             /\ \A u \in Threads : pc[u] \notin BeforeDrain
  BY <1>5 DEF Publish
<1>6. ASSUME NEW t \in Threads, Published(t)
      PROVE  /\ UNCHANGED <<sessionVars, mode, exit>>
             /\ \A u \in Threads : pc[u] \notin BeforeDrain
  BY <1>6 DEF Published
<1>7. ASSUME NEW t \in Threads, Return(t)
      PROVE  /\ UNCHANGED <<sessionVars, mode, exit>>
             /\ \A u \in Threads : pc[u] \notin BeforeDrain
  BY <1>7 DEF Return
<1>8. CASE CheckSettled \/ UNCHANGED vars
  BY <1>8 DEF CheckSettled, vars
<1> QED BY <1>1, <1>2, <1>3, <1>4, <1>5, <1>6, <1>7, <1>8
        DEF Next, RunnerStep, ServiceStep, CallerStep, DrainStarted, DeferredDrain

LEMMA BufferedStep ==
    ASSUME TypeOK, Facts, RunnerInv, HandsInv, CompletedExactlyOnce, Buffered, [Next]_vars
    PROVE  Buffered'
<1> SUFFICES ASSUME faults' = 0
             PROVE  \/ pendingEvents' = <<>>
                    \/ \E t \in Threads : pc'[t] \in BeforeDrain
                    \/ Leftover'
  BY DEF Buffered
<1>1. faults = 0 /\ faults \in Nat
  BY FaultsStay, ExecutionAssumption DEF TypeOK
<1>2. Leftover => status \in Terminal
  <2> SUFFICES ASSUME Leftover PROVE status \in Terminal
    OBVIOUS
  <2>1. Len(pulled) + 1 \in DOMAIN Raised /\ Raised[Len(pulled) + 1] = pendingEvents[1]
    BY RaisedParts DEF TypeOK, SessionTypeOK, Leftover
  <2> QED BY <2>1 DEF Leftover, CompletedExactlyOnce
<1>3. \A st, b : IsCompletion(SessionCompleted(st, b))
  BY DEF IsCompletion, SessionCompleted
<1>4. CASE Recover \/ \E t \in Threads : PublisherPanics(t)
  BY <1>1, <1>4 DEF Recover, at, RunnerInv, PublisherPanics, fault
<1>5. CASE AbortSession
  <2>1. /\ mode = "async" /\ exit[Runner] = "error"
        /\ UNCHANGED <<mode, exit>> /\ \A t \in Threads : pc[t] \in BeforeDrain => pc'[t] \in BeforeDrain
    BY <1>1, <1>5
       DEF AbortSession, at, goto, fixed, RunnerInv, Aftermath, HandsInv, Facts, ControlTypeOK, Threads,
           BeforeDrain
  <2>2. CASE pendingEvents = <<>> /\ status \notin Terminal
    <3>1. pendingEvents' = <<SessionCompleted("failed", started)>>
      BY <1>5, <2>2 DEF AbortSession, Abort, forceFail, recordCompletion, recordEvent
    <3> QED BY <1>3, <2>1, <3>1 DEF Leftover
  <2>3. CASE status \in Terminal
    BY <1>1, <1>5, <2>1, <2>3
       DEF AbortSession, Abort, forceFail, sessionVars, Buffered, Leftover
  <2> QED BY <1>1, <1>2, <2>1, <2>2, <2>3 DEF Buffered
<1>6. ASSUME NEW t \in Callers, RejectSession(t)
      PROVE  \/ pendingEvents' = <<>>
             \/ \E u \in Threads : pc'[u] \in BeforeDrain
             \/ Leftover'
  <2>1. /\ UNCHANGED pc /\ status = "awaiting_approval" /\ status' = "rejected"
        /\ pendingEvents' = Append(pendingEvents, SessionCompleted("rejected", started))
    BY <1>6 DEF RejectSession, Reject, awaitsDecision, recordCompletion, recordEvent
  <2>2. CASE pendingEvents = <<>>
    BY <1>3, <2>1, <2>2 DEF Leftover
  <2> QED BY <1>1, <1>2, <2>1, <2>2 DEF Buffered, Terminal
<1>7. CASE /\ UNCHANGED <<sessionVars, mode, exit>>
           /\ \A t \in Threads : pc[t] \notin BeforeDrain
  BY <1>1, <1>7 DEF Buffered, Leftover, sessionVars
<1> QED BY <1>4, <1>5, <1>6, <1>7, DrainAhead DEF Facts

RestInv == HandsInv /\ Conveyed /\ Buffered

LEMMA RestHolds == Spec => []RestInv
<1>1. Init => RestInv
  <2> SUFFICES ASSUME Init PROVE RestInv
    OBVIOUS
  <2>1. HandsInv
    BY DEF Init, HandsInv, Threads
  <2>2. Conveyed /\ Buffered
    BY DEF Init, SessionInit, Conveyed, Buffered
  <2> QED BY <2>1, <2>2 DEF RestInv
<1>2. /\ TypeOK /\ Facts /\ SettleInv /\ CompletedExactlyOnce
      /\ RestInv /\ [Next]_vars
      => RestInv'
  <2> SUFFICES ASSUME TypeOK, Facts, SettleInv, CompletedExactlyOnce, RestInv, [Next]_vars
               PROVE  RestInv'
    OBVIOUS
  <2>1. outbox \in Outboxes
    BY DEF TypeOK, Outboxes
  <2>2. HandsInv'
    BY <2>1, HandsStep DEF RestInv, Facts
  <2>3. Conveyed'
    BY ConveyedStep DEF RestInv
  <2>4. Buffered'
    BY BufferedStep DEF RestInv, SettleInv
  <2> QED BY <2>2, <2>3, <2>4 DEF RestInv
<1> QED BY <1>1, <1>2, Typed, SettleHolds, KernelCompletesOnce, PTL DEF Spec

\* At rest and without a panic, whatever the session raised has reached the
\* publisher, but for a completion after which the code has no drain.
THEOREM DeliversAtRest == Spec => []DeliveredAtRest
<1>1. TypeOK /\ RestInv => DeliveredAtRest
  <2> SUFFICES ASSUME TypeOK, RestInv, Quiescent, faults = 0
               PROVE  /\ \A i \in DOMAIN pulled : occurrences(pulled[i], published) > 0
                      /\ pendingEvents = <<>> \/ Leftover
    BY DEF DeliveredAtRest, Leftover
  <2>1. \A t \in Threads : pc[t] \notin BeforeDrain /\ outbox[t] = <<>>
    BY DEF Quiescent, RestInv, HandsInv, BeforeDrain
  <2>2. pendingEvents = <<>> \/ Leftover
    BY <2>1 DEF RestInv, Buffered
  <2>3. ASSUME NEW k \in DOMAIN pulled
        PROVE  occurrences(pulled[k], published) > 0
    <3> DEFINE S == {i \in DOMAIN published : published[i] = pulled[k]}
    <3>1. S # {}
      BY <2>1 DEF RestInv, Conveyed
    <3>2. IsFiniteSet(DOMAIN published)
      BY FS_Interval DEF TypeOK
    <3>3. IsFiniteSet(S)
      BY <3>2, FS_Subset
    <3>4. Cardinality(S) \in Nat /\ Cardinality(S) # 0
      BY <3>1, <3>3, FS_CardinalityType, FS_EmptySet
    <3> QED BY <3>4 DEF occurrences
  <2> QED BY <2>2, <2>3
<1> QED BY Typed, RestHolds, <1>1, PTL

-----------------------------------------------------------------------------
(* The order of delivery.                                                  *)

\* One caller takes a session over, as nobody approves twice, and nobody
\* approves one of a synchronous Execute before Execute has saved it.
AloneInv ==
    /\ \A t, u \in Callers : pc[t] # "idle" /\ pc[u] # "idle" => t = u
    /\ mode = "sync" /\ stored => pc[Runner] = "done"
    /\ mode = "sync" /\ ~stored => \A t \in Callers : pc[t] = "idle"

LEMMA AloneStep ==
    ASSUME Facts, GateInv, AloneInv, [Next]_vars
    PROVE  AloneInv'
<1> USE ExecutionAssumption
    DEF Facts, ControlTypeOK, AloneInv, Threads, Places, goto, leave, at, fixed, steady, quiet
<1>1. ASSUME NEW t \in Threads, pc[t] \notin {"idle", "done"}, NEW place \in Places,
             pc' = [pc EXCEPT ![t] = place], UNCHANGED <<mode, stored>>
      PROVE  AloneInv'
  <2>1. \A u \in Callers : pc'[u] # "idle" => pc[u] # "idle"
    BY <1>1
  <2>2. pc[Runner] = "done" => pc'[Runner] = "done"
    BY <1>1
  <2> QED BY <1>1, <2>1, <2>2
<1>2. CASE UNCHANGED <<mode, stored, pc>>
  BY <1>2
<1>3. CASE Admit \/ Resolve \/ Gate \/ CheckSettled \/ Recover \/ AbortSession
  BY <1>1, <1>3 DEF Admit, Resolve, Gate, CheckSettled, Recover, AbortSession
<1>4. ASSUME NEW t \in Threads, WorkStep(t)
      PROVE  AloneInv'
  <2>1. CASE Build(t) \/ Begin(t) \/ Dispatch(t) \/ ExecutorNotFound(t)
    BY <1>1, <2>1 DEF Build, Begin, Dispatch, ExecutorNotFound
  <2>2. CASE EmitChunk(t) \/ InvokeCapability(t) \/ RecordEvidence(t)
    BY <1>2, <2>2 DEF EmitChunk, InvokeCapability, RecordEvidence
  <2>3. CASE ExecutorReturns(t) \/ ExecutorPanics(t) \/ Judge(t) \/ Conclude(t)
    BY <1>1, <2>3 DEF ExecutorReturns, ExecutorPanics, Judge, Conclude
  <2> QED BY <1>4, <2>1, <2>2, <2>3 DEF WorkStep
<1>5. CASE DrainStarted
  BY <1>1, <1>5 DEF DrainStarted, Pull
<1>6. ASSUME NEW t \in Threads, DeferredDrain(t) \/ Publish(t) \/ Published(t) \/ PublisherPanics(t)
      PROVE  AloneInv'
  BY <1>1, <1>2, <1>6 DEF DeferredDrain, Pull, Publish, Published, PublisherPanics
<1>7. ASSUME NEW t \in Threads, Return(t)
      PROVE  AloneInv'
  <2>1. CASE t = Runner /\ mode = "sync"
    BY <1>7, <2>1 DEF Return
  <2>2. CASE ~(t = Runner /\ mode = "sync")
    <3>1. afterExecute(exit[t]) \in Places
      BY DEF afterExecute
    <3> QED BY <1>1, <1>7, <2>2, <3>1 DEF Return
  <2> QED BY <2>1, <2>2
<1>8. ASSUME NEW t \in Callers, Resume(t)
      PROVE  AloneInv'
  BY <1>1, <1>8 DEF Resume
<1>9. ASSUME NEW t \in Callers, ApproveSession(t)
      PROVE  AloneInv'
  <2>1. /\ status = "awaiting_approval" /\ stored
        /\ pc' = [pc EXCEPT ![t] = "resuming"] /\ UNCHANGED <<mode, stored>>
    BY <1>9 DEF ApproveSession, Approve, awaitsDecision
  <2>2. \A u \in Callers : pc[u] = "idle"
    BY <2>1 DEF GateInv
  <2> QED BY <2>1, <2>2
<1>10. ASSUME NEW t \in Callers, RejectSession(t)
       PROVE  AloneInv'
  BY <1>2, <1>10 DEF RejectSession
<1>11. CASE UNCHANGED vars
  BY <1>2, <1>11 DEF vars
<1> QED BY <1>3, <1>4, <1>5, <1>6, <1>7, <1>8, <1>9, <1>10, <1>11
        DEF Next, RunnerStep, ServiceStep, CallerStep

\* Unless the two drains overlapped, the runner has nothing left to publish of
\* a session that a caller has taken over.
BehindInv ==
    ~overlapped =>
        \A t \in Callers :
            pc[t] # "idle" => pc[Runner] \notin BeforeDrain /\ outbox[Runner] = <<>>

LEMMA BehindStep ==
    ASSUME ControlTypeOK, outbox \in Outboxes, GateInv, HandsInv, AloneInv, BehindInv,
           [Next]_vars
    PROVE  BehindInv'
<1> SUFFICES ASSUME ~overlapped', NEW w \in Callers, pc'[w] # "idle"
             PROVE  pc'[Runner] \notin BeforeDrain /\ outbox'[Runner] = <<>>
  BY DEF BehindInv
<1> USE ExecutionAssumption
    DEF ControlTypeOK, Outboxes, Threads, Places, goto, leave, at, fixed, steady, quiet
<1>1. ASSUME NEW t \in Threads, pc[t] # "idle", NEW place \in Places,
             pc' = [pc EXCEPT ![t] = place], UNCHANGED overlapped,
             t = Runner /\ place \in BeforeDrain => pc[t] \in BeforeDrain,
             outbox'[Runner] \in {outbox[Runner], <<>>} \/ (t = Runner /\ pc[t] \in BeforeDrain)
      PROVE  pc'[Runner] \notin BeforeDrain /\ outbox'[Runner] = <<>>
  <2>1. pc[w] # "idle"
    BY <1>1
  <2>2. pc[Runner] \notin BeforeDrain /\ outbox[Runner] = <<>>
    BY <1>1, <2>1 DEF BehindInv
  <2> QED BY <1>1, <2>2
<1>2. ASSUME UNCHANGED <<pc, overlapped>>, outbox[Runner] = <<>> => outbox'[Runner] = <<>>
      PROVE  pc'[Runner] \notin BeforeDrain /\ outbox'[Runner] = <<>>
  BY <1>2 DEF BehindInv
<1>3. CASE Admit \/ Resolve \/ Gate \/ CheckSettled \/ Recover \/ AbortSession
  BY <1>1, <1>3
     DEF Admit, Resolve, Gate, CheckSettled, Recover, AbortSession, BeforeDrain
<1>4. ASSUME NEW t \in Threads, WorkStep(t)
      PROVE  pc'[Runner] \notin BeforeDrain /\ outbox'[Runner] = <<>>
  <2>1. CASE Build(t) \/ Begin(t) \/ Dispatch(t) \/ ExecutorNotFound(t)
    BY <1>1, <2>1 DEF Build, Begin, Dispatch, ExecutorNotFound, BeforeDrain
  <2>2. CASE EmitChunk(t) \/ InvokeCapability(t) \/ RecordEvidence(t)
    BY <1>2, <2>2 DEF EmitChunk, InvokeCapability, RecordEvidence
  <2>3. CASE ExecutorReturns(t) \/ ExecutorPanics(t) \/ Judge(t) \/ Conclude(t)
    BY <1>1, <2>3 DEF ExecutorReturns, ExecutorPanics, Judge, Conclude, BeforeDrain
  <2> QED BY <1>4, <2>1, <2>2, <2>3 DEF WorkStep
<1>5. ASSUME NEW t \in Threads, NEW from \in {"validated", "leaving"},
             NEW to \in {"announcing", "flushing"}, Pull(t, from, to)
      PROVE  pc'[Runner] \notin BeforeDrain /\ outbox'[Runner] = <<>>
  <2>1. /\ pc[t] \in BeforeDrain /\ pc[t] # "idle" /\ to \in Places
        /\ pc' = [pc EXCEPT ![t] = to] /\ UNCHANGED overlapped
        /\ outbox' = [outbox EXCEPT ![t] = pendingEvents]
    BY <1>5 DEF Pull, BeforeDrain
  <2> QED BY <1>1, <2>1
<1>6. ASSUME NEW t \in Threads, Publish(t)
      PROVE  pc'[Runner] \notin BeforeDrain /\ outbox'[Runner] = <<>>
  BY <1>2, <1>6 DEF Publish
<1>7. ASSUME NEW t \in Threads, Published(t) \/ PublisherPanics(t)
      PROVE  pc'[Runner] \notin BeforeDrain /\ outbox'[Runner] = <<>>
  BY <1>1, <1>7 DEF Published, PublisherPanics, BeforeDrain
<1>8. ASSUME NEW t \in Threads, Return(t)
      PROVE  pc'[Runner] \notin BeforeDrain /\ outbox'[Runner] = <<>>
  <2>1. afterExecute(exit[t]) \in Places \ BeforeDrain
    BY DEF afterExecute, BeforeDrain
  <2> QED BY <1>1, <1>8, <2>1 DEF Return, BeforeDrain
<1>9. ASSUME NEW t \in Callers, Resume(t)
      PROVE  pc'[Runner] \notin BeforeDrain /\ outbox'[Runner] = <<>>
  BY <1>1, <1>9 DEF Resume
<1>10. ASSUME NEW t \in Callers, ApproveSession(t)
       PROVE  pc'[Runner] \notin BeforeDrain /\ outbox'[Runner] = <<>>
  <2>1. /\ status = "awaiting_approval" /\ stored /\ ~DrainUnderway
        /\ pc'[Runner] = pc[Runner] /\ outbox' = outbox
    BY <1>10 DEF ApproveSession, Approve, awaitsDecision
  <2>2. pc[Runner] \notin BeforeDrain \ {"leaving"}
    BY <2>1 DEF GateInv, Ungated, InExecutor, BeforeDrain
  <2>3. CASE mode = "sync"
    <3>1. pc[Runner] = "done"
      BY <2>1, <2>3 DEF AloneInv
    <3> QED BY <2>1, <3>1 DEF HandsInv, BeforeDrain
  <2>4. CASE mode = "async"
    BY <2>1, <2>2, <2>4 DEF DrainUnderway
  <2> QED BY <2>3, <2>4
<1>11. ASSUME NEW t \in Callers, RejectSession(t)
       PROVE  pc'[Runner] \notin BeforeDrain /\ outbox'[Runner] = <<>>
  BY <1>2, <1>11 DEF RejectSession
<1>12. CASE UNCHANGED vars
  BY <1>2, <1>12 DEF vars
<1> QED BY <1>3, <1>4, <1>5, <1>6, <1>7, <1>8, <1>9, <1>10, <1>11, <1>12
        DEF Next, RunnerStep, ServiceStep, CallerStep, DrainStarted, DeferredDrain

\* No two drains overlap.
InTurn == faults = 0 /\ ~overlapped

LEMMA OneHolds ==
    ASSUME ControlTypeOK, AloneInv, HandsInv, BehindInv, ~overlapped,
           NEW t \in Threads, pc[t] \notin {"idle", "done"},
           t = Runner => pc[t] \in BeforeDrain \/ outbox[t] # <<>>,
           NEW u \in Threads, u # t
    PROVE  outbox[u] = <<>>
<1>1. CASE t = Runner
  <2>1. u \in Callers /\ pc[u] = "idle"
    BY <1>1 DEF BehindInv, Threads
  <2> QED BY <2>1 DEF HandsInv, Threads
<1>2. CASE t \in Callers /\ u = Runner
  BY <1>2 DEF BehindInv
<1>3. CASE t \in Callers /\ u \in Callers
  <2>1. pc[u] = "idle"
    BY <1>3 DEF AloneInv
  <2> QED BY <2>1 DEF HandsInv
<1> QED BY <1>1, <1>2, <1>3 DEF Threads

\* The session's events among the first k of s.
SeenIn(s, k) == {j \in 1 .. k : s[j] \in SessionEvent}

Seen(s, k) == Cardinality(SeenIn(s, k))

LEMMA SeenGrows ==
    ASSUME NEW s \in Seq(BusEvent), NEW e \in BusEvent
    PROVE  /\ \A k \in 0 .. Len(s) : Seen(s, k) \in Nat /\ Seen(Append(s, e), k) = Seen(s, k)
           /\ e \in SessionEvent => Seen(Append(s, e), Len(s) + 1) = Seen(s, Len(s)) + 1
           /\ e \notin SessionEvent => Seen(Append(s, e), Len(s) + 1) = Seen(s, Len(s))
<1> DEFINE r == Append(s, e)
           n == Len(s)
<1>1. /\ n \in Nat /\ Len(r) = n + 1 /\ r[n + 1] = e
      /\ \A j \in 1 .. n : r[j] = s[j]
  OBVIOUS
<1> HIDE DEF r, n
<1>2. ASSUME NEW k \in 0 .. n
      PROVE  SeenIn(r, k) = SeenIn(s, k) /\ IsFiniteSet(SeenIn(s, k)) /\ Seen(s, k) \in Nat
  <2>1. SeenIn(r, k) = SeenIn(s, k)
    BY <1>1 DEF SeenIn
  <2>2. IsFiniteSet(1 .. k)
    BY <1>1, FS_Interval
  <2>3. IsFiniteSet(SeenIn(s, k))
    BY <2>2, FS_Subset DEF SeenIn
  <2> QED BY <2>1, <2>3, FS_CardinalityType DEF Seen
<1>3. CASE e \in SessionEvent
  <2>1. SeenIn(r, n + 1) = SeenIn(s, n) \union {n + 1} /\ n + 1 \notin SeenIn(s, n)
    BY <1>1, <1>3 DEF SeenIn
  <2>2. n \in 0 .. n
    BY <1>1
  <2> QED BY <1>2, <1>3, <2>1, <2>2, FS_AddElement DEF Seen, r, n
<1>4. CASE e \notin SessionEvent
  <2>1. SeenIn(r, n + 1) = SeenIn(s, n)
    BY <1>1, <1>4 DEF SeenIn
  <2> QED BY <1>2, <1>4, <2>1 DEF Seen, r, n
<1> QED BY <1>2, <1>3, <1>4 DEF Seen, r, n

\* What has been published, and then what one goroutine still holds, is what
\* was pulled.
OrderInv ==
    InTurn =>
        LET n == Seen(published, Len(published))
        IN  /\ \A i \in DOMAIN published :
                   published[i] \in SessionEvent =>
                       /\ Seen(published, i) \in DOMAIN pulled
                       /\ published[i] = pulled[Seen(published, i)]
            /\ \A t \in Threads :
                   outbox[t] # <<>> =>
                       /\ Len(pulled) = n + Len(outbox[t])
                       /\ \A k \in DOMAIN outbox[t] : outbox[t][k] = pulled[n + k]
            /\ (\A t \in Threads : outbox[t] = <<>>) => n = Len(pulled)

LEMMA OrderStep ==
    ASSUME TypeOK, AloneInv, BehindInv, HandsInv, OrderInv, [Next]_vars
    PROVE  OrderInv'
<1> SUFFICES ASSUME InTurn' PROVE OrderInv'
  BY DEF OrderInv
<1> DEFINE n == Seen(published, Len(published))
           m == Len(published)
<1>1. /\ outbox \in Outboxes /\ published \in Seq(BusEvent) /\ ControlTypeOK
      /\ pulled \in Seq(SessionEvent) /\ pendingEvents \in Seq(SessionEvent)
      /\ m \in Nat /\ n \in Nat
  <2>1. published \in Seq(BusEvent) /\ m \in 0 .. m /\ CapabilityInvoked \in BusEvent
    BY DEF TypeOK, BusEvent
  <2>2. n \in Nat
    BY <2>1, SeenGrows
  <2> QED BY <2>1, <2>2 DEF TypeOK, SessionTypeOK, Outboxes, ControlTypeOK
<1>2. InTurn /\ faults = 0
  <2>1. ~overlapped
    <3>1. CASE UNCHANGED overlapped
      BY <3>1 DEF InTurn
    <3>2. ASSUME NEW t \in Callers, ApproveSession(t)
          PROVE  ~overlapped
      BY <3>2 DEF ApproveSession, InTurn
    <3> QED BY <3>1, <3>2 DEF Next, RunnerStep, WorkStep, ServiceStep, CallerStep, vars, Admit,
       DrainStarted, DeferredDrain, Pull, Publish, Published, PublisherPanics, Resolve, Gate,
       Resume, Build, Begin, Dispatch, ExecutorNotFound, EmitChunk, InvokeCapability,
       ExecutorReturns, ExecutorPanics, RecordEvidence, Judge, Conclude, Return, CheckSettled,
       Recover, AbortSession, RejectSession, fixed
  <2> QED BY <2>1, FaultsStay, ExecutionAssumption DEF InTurn, TypeOK
<1>3. CASE Elsewhere
  <2>1. UNCHANGED <<outbox, pulled>>
    BY <1>3 DEF Elsewhere
  <2>2. CASE UNCHANGED published
    BY <1>2, <2>1, <2>2 DEF OrderInv
  <2>3. ASSUME NEW e \in {CapabilityInvoked, BudgetExceeded}, published' = Append(published, e)
        PROVE  OrderInv'
    <3>1. e \in BusEvent /\ e \notin SessionEvent
      BY BusEventsDiffer DEF BusEvent
    <3>2. /\ Seen(published', m + 1) = n /\ Len(published') = m + 1
          /\ DOMAIN published' = 1 .. m + 1 /\ published'[m + 1] = e
          /\ \A i \in 1 .. m : /\ published'[i] = published[i]
                               /\ Seen(published', i) = Seen(published, i)
      BY <1>1, <2>3, <3>1, SeenGrows
    <3> HIDE DEF n, m
    <3>3. ASSUME NEW i \in DOMAIN published', published'[i] \in SessionEvent
          PROVE  /\ Seen(published', i) \in DOMAIN pulled
                 /\ published'[i] = pulled[Seen(published', i)]
      <4>1. i \in 1 .. m /\ i \in DOMAIN published
        BY <1>1, <3>1, <3>2, <3>3 DEF m
      <4> QED BY <1>2, <3>2, <3>3, <4>1 DEF OrderInv
    <3>4. Seen(published', Len(published')) = n
      BY <3>2
    <3> QED BY <1>2, <2>1, <3>3, <3>4 DEF OrderInv, n
  <2> QED BY <1>3, <2>2, <2>3 DEF Elsewhere
<1>4. ASSUME NEW t \in Threads, NEW from \in {"validated", "leaving"}, NEW to, Pull(t, from, to)
      PROVE  OrderInv'
  <2>1. /\ pc[t] \notin {"idle", "done", "announcing", "flushing"} /\ pc[t] \in BeforeDrain
        /\ pulled' = pulled \o pendingEvents /\ published' = published
        /\ outbox'[t] = pendingEvents
        /\ \A u \in Threads : u # t => outbox'[u] = outbox[u]
    BY <1>1, <1>4 DEF Pull, PullEvents, at, Outboxes, BeforeDrain
  <2>2. \A u \in Threads : outbox[u] = <<>>
    BY <1>1, <1>2, <2>1, OneHolds DEF InTurn, HandsInv
  <2>3. n = Len(pulled)
    BY <1>2, <2>2 DEF OrderInv
  <2>4. /\ Len(pulled') = n + Len(pendingEvents)
        /\ \A k \in DOMAIN pulled : k \in DOMAIN pulled' /\ pulled'[k] = pulled[k]
        /\ \A k \in DOMAIN pendingEvents : pendingEvents[k] = pulled'[n + k]
    BY <1>1, <2>1, <2>3
  <2> HIDE DEF n, m
  <2>5. ASSUME NEW i \in DOMAIN published', published'[i] \in SessionEvent
        PROVE  /\ Seen(published', i) \in DOMAIN pulled'
               /\ published'[i] = pulled'[Seen(published', i)]
    BY <1>2, <2>1, <2>4, <2>5 DEF OrderInv
  <2>6. ASSUME NEW u \in Threads, outbox'[u] # <<>>
        PROVE  /\ Len(pulled') = n + Len(outbox'[u])
               /\ \A k \in DOMAIN outbox'[u] : outbox'[u][k] = pulled'[n + k]
    BY <2>1, <2>2, <2>4, <2>6
  <2>7. (\A u \in Threads : outbox'[u] = <<>>) => n = Len(pulled')
    BY <1>1, <2>1, <2>4
  <2> QED BY <2>1, <2>5, <2>6, <2>7 DEF OrderInv, n
<1>5. ASSUME NEW t \in Threads, Publish(t)
      PROVE  OrderInv'
  <2> DEFINE s == outbox[t]
             r == Tail(s)
  <2>1. /\ pc[t] \notin {"idle", "done"} /\ s # <<>> /\ s \in Seq(SessionEvent)
        /\ pulled' = pulled /\ published' = Append(published, Head(s))
        /\ outbox'[t] = r
        /\ \A u \in Threads : u # t => outbox'[u] = outbox[u]
    BY <1>1, <1>5 DEF Publish, sessionVars, Outboxes
  <2>2. \A u \in Threads : u # t => outbox[u] = <<>>
    BY <1>1, <1>2, <2>1, OneHolds DEF InTurn
  <2>3. /\ Len(pulled) = n + Len(s)
        /\ \A k \in DOMAIN s : s[k] = pulled[n + k]
    BY <1>2, <2>1 DEF OrderInv
  <2>4. /\ Head(s) \in SessionEvent /\ Head(s) \in BusEvent /\ Head(s) = s[1] /\ 1 \in DOMAIN s
        /\ Len(s) \in Nat /\ Len(s) >= 1 /\ Len(r) = Len(s) - 1
        /\ \A k \in DOMAIN r : k \in Nat /\ k + 1 \in DOMAIN s /\ r[k] = s[k + 1]
    BY <2>1, HeadTailProperties DEF BusEvent
  <2>5. /\ Seen(published', m + 1) = n + 1 /\ Len(published') = m + 1
        /\ DOMAIN published' = 1 .. m + 1 /\ published'[m + 1] = Head(s)
        /\ \A i \in 1 .. m : /\ published'[i] = published[i]
                             /\ Seen(published', i) = Seen(published, i)
    BY <1>1, <2>1, <2>4, SeenGrows
  <2> HIDE DEF n, m, s, r
  <2>6. /\ n \in Nat /\ Len(s) \in Nat /\ Len(s) >= 1 /\ Len(pulled) = n + Len(s)
        /\ DOMAIN pulled = 1 .. Len(pulled) /\ Len(r) = Len(s) - 1
    BY <1>1, <2>3, <2>4
  <2>7. ASSUME NEW i \in DOMAIN published', published'[i] \in SessionEvent
        PROVE  /\ Seen(published', i) \in DOMAIN pulled
               /\ published'[i] = pulled[Seen(published', i)]
    <3>1. CASE i = m + 1
      <4>1. n + 1 \in DOMAIN pulled
        BY <2>6
      <4>2. Head(s) = pulled[n + 1]
        BY <2>3, <2>4
      <4> QED BY <2>5, <3>1, <4>1, <4>2
    <3>2. CASE i # m + 1
      <4>1. i \in 1 .. m /\ i \in DOMAIN published
        BY <1>1, <2>5, <2>7, <3>2 DEF m
      <4> QED BY <1>2, <2>5, <2>7, <4>1 DEF OrderInv
    <3> QED BY <3>1, <3>2
  <2>8. ASSUME NEW u \in Threads, outbox'[u] # <<>>
        PROVE  /\ Len(pulled) = n + 1 + Len(outbox'[u])
               /\ \A k \in DOMAIN outbox'[u] : outbox'[u][k] = pulled[n + 1 + k]
    <3>1. outbox'[u] = r
      BY <2>1, <2>2, <2>8
    <3>2. \A k \in DOMAIN r : r[k] = pulled[n + 1 + k]
      <4> SUFFICES ASSUME NEW k \in DOMAIN r PROVE r[k] = pulled[n + 1 + k]
        OBVIOUS
      <4>1. n + (k + 1) = n + 1 + k
        BY <1>1, <2>4
      <4> QED BY <2>3, <2>4, <4>1
    <3> QED BY <2>6, <3>1, <3>2
  <2>9. (\A u \in Threads : outbox'[u] = <<>>) => n + 1 = Len(pulled)
    <3>1. Len(r) = 0 => n + 1 = Len(pulled)
      <4>1. Len(r) = 0 => Len(s) = 1
        BY <2>6
      <4> QED BY <2>6, <4>1
    <3> SUFFICES ASSUME r = <<>> PROVE n + 1 = Len(pulled)
      BY <2>1
    <3>2. Len(r) = 0
      <4>1. Len(<<>>) = 0
        OBVIOUS
      <4> QED BY <4>1, Zenon
    <3> QED BY <3>1, <3>2, Zenon
  <2>10. Seen(published', Len(published')) = n + 1
    BY <2>5
  <2> QED BY <2>1, <2>7, <2>8, <2>9, <2>10 DEF OrderInv
<1>6. ASSUME NEW t \in Threads, PublisherPanics(t)
      PROVE  FALSE
  BY <1>2, <1>6, FaultsStay DEF PublisherPanics, fault, InTurn
<1> QED BY <1>3, <1>4, <1>5, <1>6, EventMoves

LEMMA OrderHolds == Spec => []OrderInv
<1> DEFINE Line == AloneInv /\ BehindInv /\ OrderInv
<1>1. Init => Line
  <2> SUFFICES ASSUME Init PROVE Line
    OBVIOUS
  <2>1. AloneInv
    BY ExecutionAssumption DEF Init, savesFirst, AloneInv, Threads
  <2>2. SeenIn(published, Len(published)) = {}
    BY DEF Init, SeenIn
  <2>3. Seen(published, Len(published)) = 0
    BY <2>2, FS_EmptySet DEF Seen
  <2>4. OrderInv
    BY <2>3 DEF Init, SessionInit, OrderInv
  <2>5. BehindInv
    BY ExecutionAssumption DEF Init, BehindInv, Threads
  <2> QED BY <2>1, <2>4, <2>5
<1>2. TypeOK /\ Facts /\ GateInv /\ RestInv /\ Line /\ [Next]_vars => Line'
  <2> SUFFICES ASSUME TypeOK, Facts, GateInv, RestInv, Line, [Next]_vars
               PROVE  Line'
    OBVIOUS
  <2>1. ControlTypeOK /\ HandsInv /\ outbox \in Outboxes
    BY DEF Facts, RestInv, TypeOK, Outboxes
  <2>2. AloneInv'
    BY AloneStep
  <2>3. BehindInv'
    BY <2>1, BehindStep
  <2>4. OrderInv'
    BY <2>1, OrderStep
  <2> QED BY <2>2, <2>3, <2>4
<1> HIDE DEF Line
<1>3. Line => OrderInv
  BY DEF Line
<1> QED BY <1>1, <1>2, <1>3, Typed, GateHolds, RestHolds, PTL DEF Spec

\* Without a panic, a session's events reach the publisher in the order it
\* raised them, by however many goroutines, unless it was approved before the
\* goroutine of ExecuteAsync had published what it pulls on leaving Execute.
THEOREM DeliversInOrder == Spec => []DeliveredInOrder
<1>1. TypeOK /\ OrderInv => DeliveredInOrder
  <2> SUFFICES ASSUME TypeOK, OrderInv, InTurn, NEW i \in DOMAIN published,
                      i \in SeenIn(published, i)
               PROVE  /\ Seen(published, i) <= Len(Raised)
                      /\ published[i] = Raised[Seen(published, i)]
    BY DEF DeliveredInOrder, InTurn, SeenIn, Seen
  <2>1. Seen(published, i) \in DOMAIN pulled /\ published[i] = pulled[Seen(published, i)]
    BY DEF OrderInv, SeenIn
  <2>2. /\ Seen(published, i) \in 1 .. Len(Raised)
        /\ published[i] = Raised[Seen(published, i)]
    BY <2>1, RaisedParts DEF TypeOK, SessionTypeOK, Raised
  <2> QED BY <2>2 DEF TypeOK, SessionTypeOK, Raised
<1> QED BY Typed, OrderHolds, <1>1, PTL
=============================================================================
