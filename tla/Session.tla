------------------------------- MODULE Session -------------------------------
(***************************************************************************)
(* The ExecutionSession aggregate (domain/session.go).                     *)
(*                                                                         *)
(* Every exported method of the aggregate takes the session's mutex, so    *)
(* each is one atomic action.  A method that returns an error leaves the   *)
(* aggregate as it was; such a call is a stuttering step and has no action.*)
(* SessionNext lets any caller call any method at any time: this is the contract  *)
(* of the exported API.  Module Execution restricts the order to the one   *)
(* in which the services call it.                                          *)
(***************************************************************************)
EXTENDS Evidence, FiniteSets

CONSTANTS
    Principals,     \* who may sign an ApprovalDecision
    NoPrincipal,    \* the empty principal ""; as a decision: nil
    Capabilities,   \* names that CapabilityResolutionService can return
    FailureCodes,   \* FailureReason.Code values
    NoFailure,      \* failure == nil
    MaxChunks,      \* bound: chunks one session emits
    MaxEvidence     \* bound: evidence records one session holds

ASSUME SessionAssumption ==
    /\ NoPrincipal \notin Principals
    /\ NoFailure \notin FailureCodes
    /\ Encodable \subseteq Values
    /\ NoHash \in Hashes
    /\ \A v \in Values, h \in Hashes : Hash(v, h) \in Hashes \ {NoHash}
    /\ MaxChunks \in Nat
    /\ MaxEvidence \in Nat

VARIABLES
    status,                 \* ExecutionStatus
    requiresApproval,
    resolvedCapabilities,
    evidence,               \* sequence of EvidenceRecord
    result,                 \* TRUE when the result pointer is set
    failure,                \* code of the FailureReason, or NoFailure
    approvalDecision,       \* principal of the decision, or NoPrincipal
    started,                \* TRUE when startedAt is set
    resultChunks,           \* sequence of the chunks' stamped indices
    pendingEvents,          \* domain events raised and not yet pulled
    pulled                  \* history: every event PullEvents has returned

sessionVars == <<status, requiresApproval, resolvedCapabilities, evidence,
                 result, failure, approvalDecision, started, resultChunks,
                 pendingEvents, pulled>>

Terminal == {"succeeded", "failed", "rejected"}

Statuses == {"pending", "validated", "resolved", "awaiting_approval",
             "running"} \union Terminal

(***************************************************************************)
(* The domain events the aggregate raises, reduced to what tells them      *)
(* apart.  "timed" says that Duration was measured from startedAt.         *)
(***************************************************************************)
SessionStarted == [type |-> "session.started"]
SessionAwaitingApproval == [type |-> "session.awaiting_approval"]
SessionApproved(p) == [type |-> "session.approved", principal |-> p]
SessionCompleted(st, timed) ==
    [type |-> "session.completed", status |-> st, timed |-> timed]
ResultChunkEmitted(i) == [type |-> "result.chunk.emitted", index |-> i]
EvidenceRecorded(h) == [type |-> "evidence.recorded", hash |-> h]

SessionEvent ==
    {SessionStarted, SessionAwaitingApproval}
        \union {SessionApproved(p) : p \in Principals}
        \union {SessionCompleted(st, b) : st \in Terminal, b \in BOOLEAN}
        \union {ResultChunkEmitted(i) : i \in 0 .. MaxChunks - 1}
        \union {EvidenceRecorded(h) : h \in Hashes}

-----------------------------------------------------------------------------
SessionInit ==
    /\ status = "pending"
    /\ requiresApproval = FALSE
    /\ resolvedCapabilities = {}
    /\ evidence = <<>>
    /\ result = FALSE
    /\ failure = NoFailure
    /\ approvalDecision = NoPrincipal
    /\ started = FALSE
    /\ resultChunks = <<>>
    /\ pendingEvents = <<>>
    /\ pulled = <<>>

\* The primary transitions, as the table of the code has them: the entry of
\* AwaitingApproval is meant for "after approval" but carries no condition.
validTransitions ==
    [pending |-> "validated", validated |-> "resolved",
     resolved |-> "running", awaiting_approval |-> "running",
     running |-> "succeeded"]

transitionTo(target) ==
    /\ status \in DOMAIN validTransitions
    /\ validTransitions[status] = target
    /\ status' = target

recordEvent(e) == pendingEvents' = Append(pendingEvents, e)

recordCompletionUntimed(st) == recordEvent(SessionCompleted(st, TRUE))  \* mutant
recordCompletion(st) == recordEvent(SessionCompleted(st, started))

MarkValidated ==
    /\ transitionTo("validated")
    /\ started' = TRUE
    /\ recordEvent(SessionStarted)
    /\ UNCHANGED <<requiresApproval, resolvedCapabilities, evidence, result,
                   failure, approvalDecision, resultChunks, pulled>>

MarkResolved(caps) ==
    /\ transitionTo("resolved")
    /\ resolvedCapabilities' = caps
    /\ UNCHANGED <<requiresApproval, evidence, result, failure,
                   approvalDecision, started, resultChunks, pendingEvents,
                   pulled>>

MarkAwaitingApproval ==
    /\ status = "resolved"
    /\ status' = "awaiting_approval"
    /\ requiresApproval' = TRUE
    /\ recordEvent(SessionAwaitingApproval)
    /\ UNCHANGED <<resolvedCapabilities, evidence, result, failure,
                   approvalDecision, started, resultChunks, pulled>>

\* A decision carries a principal.
signed(p) == p # NoPrincipal

\* The status check of Approve and Reject.
decidesRunning == status \in {"awaiting_approval", "running"}   \* mutant
awaitsDecision == status = "awaiting_approval"

Approve(p) ==
    /\ signed(p)
    /\ awaitsDecision
    /\ status' = "running"
    /\ approvalDecision' = p
    /\ recordEvent(SessionApproved(p))
    /\ UNCHANGED <<requiresApproval, resolvedCapabilities, evidence, result,
                   failure, started, resultChunks, pulled>>

Reject(reason, p) ==
    /\ signed(p)
    /\ awaitsDecision
    /\ status' = "rejected"
    /\ approvalDecision' = p
    /\ failure' = reason
    /\ recordCompletion("rejected")
    /\ UNCHANGED <<requiresApproval, resolvedCapabilities, evidence, result,
                   started, resultChunks, pulled>>

MarkRunning ==
    /\ transitionTo("running")
    /\ UNCHANGED <<requiresApproval, resolvedCapabilities, evidence, result,
                   failure, approvalDecision, started, resultChunks,
                   pendingEvents, pulled>>

Succeed ==
    /\ transitionTo("succeeded")
    /\ result' = TRUE
    /\ recordCompletion("succeeded")
    /\ UNCHANGED <<requiresApproval, resolvedCapabilities, evidence, failure,
                   approvalDecision, started, resultChunks, pulled>>

\* What Fail and Abort do once their check of the status has passed.
forceFail(reason) ==
    /\ status' = "failed"
    /\ failure' = reason
    /\ recordCompletion("failed")
    /\ UNCHANGED <<requiresApproval, resolvedCapabilities, evidence, result,
                   approvalDecision, started, resultChunks, pulled>>

Fail(reason) ==
    /\ status = "running"
    /\ forceFail(reason)

abortsAlways(reason) == forceFail(reason)                        \* mutant
abortsUnlessFailed(reason) == status # "failed" /\ forceFail(reason)  \* mutant

Abort(reason) ==
    \/ /\ status \in Terminal
       /\ UNCHANGED sessionVars
    \/ /\ status \notin Terminal
       /\ forceFail(reason)

IsChunk(e) == e.type = "result.chunk.emitted"

\* The index stamped on the next chunk.
indexSincePull == Len(SelectSeq(pendingEvents, IsChunk))     \* mutant
nextIndex == Len(resultChunks)

\* Emit and AppendEvidence do not look at the status: they are legal in any.
Emit ==
    /\ Len(resultChunks) < MaxChunks
    /\ resultChunks' = Append(resultChunks, nextIndex)
    /\ recordEvent(ResultChunkEmitted(nextIndex))
    /\ UNCHANGED <<status, requiresApproval, resolvedCapabilities, evidence,
                   result, failure, approvalDecision, started, pulled>>

AppendEvidence(v) ==
    /\ Len(evidence) < MaxEvidence
    /\ LET record == chained(evidence, v)
       IN  /\ evidence' = Append(evidence, record)
           /\ recordEvent(EvidenceRecorded(record.hash))
    /\ UNCHANGED <<status, requiresApproval, resolvedCapabilities, result,
                   failure, approvalDecision, started, resultChunks, pulled>>

pullsWithoutClearing ==     \* mutant
    /\ pulled' = pulled \o pendingEvents
    /\ UNCHANGED <<status, requiresApproval, resolvedCapabilities, evidence,
                   result, failure, approvalDecision, started, resultChunks,
                   pendingEvents>>

PullEvents ==
    /\ pulled' = pulled \o pendingEvents
    /\ pendingEvents' = <<>>
    /\ UNCHANGED <<status, requiresApproval, resolvedCapabilities, evidence,
                   result, failure, approvalDecision, started, resultChunks>>

Decide ==
    \E p \in Principals \union {NoPrincipal} :
        \/ Approve(p)
        \/ \E r \in FailureCodes : Reject(r, p)

Finish ==
    \/ Succeed
    \/ \E r \in FailureCodes : Fail(r) \/ Abort(r)

SessionNext ==
    \/ MarkValidated
    \/ \E caps \in SUBSET Capabilities : MarkResolved(caps)
    \/ MarkAwaitingApproval
    \/ Decide
    \/ MarkRunning
    \/ Finish
    \/ Emit
    \/ \E v \in Values : AppendEvidence(v)
    \/ PullEvents

SessionSpec == SessionInit /\ [][SessionNext]_sessionVars

-----------------------------------------------------------------------------
(* Correctness.                                                            *)

\* Everything the aggregate has ever raised, in the order it was raised.
Raised == pulled \o pendingEvents

IsCompletion(e) == e.type = "session.completed"

\* Every variable has its type, and the bounds hold.
SessionTypeOK ==
    /\ status \in Statuses
    /\ requiresApproval \in BOOLEAN
    /\ resolvedCapabilities \subseteq Capabilities
    /\ evidence \in Seq(EvidenceRecord) /\ Len(evidence) <= MaxEvidence
    /\ result \in BOOLEAN
    /\ failure \in FailureCodes \union {NoFailure}
    /\ approvalDecision \in Principals \union {NoPrincipal}
    /\ started \in BOOLEAN
    /\ resultChunks \in Seq(Nat) /\ Len(resultChunks) <= MaxChunks
    /\ pendingEvents \in Seq(SessionEvent)
    /\ pulled \in Seq(SessionEvent)

\* "What happened?" can be answered from the status alone (docs/CONCEPTS.md):
\* a result exactly in Succeeded, a failure exactly in Failed and Rejected,
\* an open approval exactly in AwaitingApproval, a signature under every
\* rejection.
StatusTellsOutcome ==
    /\ result <=> status = "succeeded"
    /\ failure # NoFailure <=> status \in {"failed", "rejected"}
    /\ status = "awaiting_approval" =>
           requiresApproval /\ approvalDecision = NoPrincipal
    /\ status = "rejected" => requiresApproval /\ approvalDecision # NoPrincipal

\* Whatever order Succeed, Fail, Reject and Abort are called in, the session
\* raises SessionCompleted exactly once if it has reached a terminal status
\* and never before, the event names that status, and its Duration is
\* measured exactly when SessionStarted was raised.
CompletedExactlyOnce ==
    /\ status \in Terminal <=> \E i \in DOMAIN Raised : IsCompletion(Raised[i])
    /\ \A i, j \in DOMAIN Raised :
           IsCompletion(Raised[i]) /\ IsCompletion(Raised[j]) => i = j
    /\ \A i \in DOMAIN Raised :
           IsCompletion(Raised[i]) =>
               /\ Raised[i].status = status
               /\ Raised[i].timed <=>
                      \E j \in 1 .. i : Raised[j] = SessionStarted

\* Subscribers can rebuild the chunk trail from the events alone: the k-th
\* chunk event raised carries index k - 1, none is skipped or repeated, and
\* the trail itself is numbered the same way.
ChunkTrailRebuilds ==
    LET chunks(k) == {i \in 1 .. k : IsChunk(Raised[i])}
        nth(i) == Cardinality(chunks(i))
    IN  /\ Cardinality(chunks(Len(Raised))) = Len(resultChunks)
        /\ \A i \in chunks(Len(Raised)) : Raised[i].index = nth(i) - 1
        /\ \A k \in DOMAIN resultChunks : resultChunks[k] = k - 1

\* The trail the aggregate builds always verifies, records whose payload
\* cannot be encoded included, whoever appends and in whatever order.
EvidenceVerifies == VerifyEvidenceChain(evidence)

\* What is settled stays.  A terminal session is immutable (domain/values.go on
\* IsTerminal): no call, Abort included, changes its status, outcome or approval
\* flag; and a decision once made is never replaced, terminal or not.
SettledIsFinal ==
    [][/\ status \in Terminal =>
              UNCHANGED <<status, result, failure, approvalDecision,
                          requiresApproval, resolvedCapabilities>>
       /\ approvalDecision # NoPrincipal =>
              approvalDecision' = approvalDecision]_sessionVars

\* What the comment on MarkRunning and the table of transitions say: a
\* session that needed approval runs only "after approval".
RunningOnlyAfterApproval ==
    status \in {"running", "succeeded"} /\ requiresApproval =>
        approvalDecision # NoPrincipal
=============================================================================
