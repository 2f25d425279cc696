---------------------------- MODULE SessionProofs ----------------------------
(***************************************************************************)
(* Theorems about the aggregate, for every set of principals, payloads,    *)
(* codes and capabilities, every hash function, every bound and every      *)
(* order in which its methods are called.                                  *)
(***************************************************************************)
EXTENDS Session, FiniteSetTheorems, SequenceTheorems, WellFoundedInduction,
        TLAPS

\* The events the aggregate raises are events.
LEMMA EventsTyped ==
    /\ SessionStarted \in SessionEvent
    /\ SessionAwaitingApproval \in SessionEvent
    /\ \A p \in Principals : SessionApproved(p) \in SessionEvent
    /\ \A st \in Terminal, b \in BOOLEAN :
           SessionCompleted(st, b) \in SessionEvent
    /\ \A i \in 0 .. MaxChunks - 1 : ResultChunkEmitted(i) \in SessionEvent
    /\ \A h \in Hashes : EvidenceRecorded(h) \in SessionEvent
BY DEF SessionEvent

\* The hash a record gets, and the one it is chained to, are hashes.
LEMMA HashesTyped ==
    ASSUME SessionTypeOK, NEW v \in Values
    PROVE  /\ anchor(evidence) \in Hashes
           /\ computeEvidenceHash(v, anchor(evidence)) \in Hashes
<1>1. anchor(evidence) \in Hashes
  <2>1. CASE evidence = <<>>
    BY <2>1, SessionAssumption DEF anchor
  <2>2. CASE evidence # <<>>
    <3>1. /\ evidence \in Seq(EvidenceRecord)
          /\ Len(evidence) \in 1 .. Len(evidence)
      BY <2>2, EmptySeq DEF SessionTypeOK
    <3>2. evidence[Len(evidence)] \in EvidenceRecord
      BY <3>1, ElementOfSeq
    <3> QED BY <2>2, <3>2 DEF anchor, EvidenceRecord
  <2> QED BY <2>1, <2>2
<1> QED BY <1>1, SessionAssumption DEF computeEvidenceHash

LEMMA SessionTypeInit == SessionInit => SessionTypeOK
<1> SUFFICES ASSUME SessionInit PROVE SessionTypeOK
  OBVIOUS
<1>1. /\ evidence \in Seq(EvidenceRecord) /\ Len(evidence) <= MaxEvidence
      /\ resultChunks \in Seq(Nat) /\ Len(resultChunks) <= MaxChunks
      /\ pendingEvents \in Seq(SessionEvent)
      /\ pulled \in Seq(SessionEvent)
  BY SessionAssumption, EmptySeq DEF SessionInit
<1> QED BY <1>1 DEF SessionInit, SessionTypeOK, Statuses, Terminal

LEMMA SessionTypeStep ==
    ASSUME SessionTypeOK, [SessionNext]_sessionVars
    PROVE  SessionTypeOK'
<1> USE SessionAssumption, EventsTyped
    DEF SessionTypeOK, Statuses, Terminal, transitionTo, validTransitions,
        recordEvent, recordCompletion
<1>1. CASE MarkValidated
  BY <1>1 DEF MarkValidated
<1>2. ASSUME NEW caps \in SUBSET Capabilities, MarkResolved(caps)
      PROVE  SessionTypeOK'
  BY <1>2 DEF MarkResolved
<1>3. CASE MarkAwaitingApproval
  BY <1>3 DEF MarkAwaitingApproval
<1>4. ASSUME NEW p \in Principals \union {NoPrincipal}, Approve(p)
      PROVE  SessionTypeOK'
  BY <1>4 DEF Approve, signed, awaitsDecision
<1>5. ASSUME NEW p \in Principals \union {NoPrincipal},
             NEW r \in FailureCodes, Reject(r, p)
      PROVE  SessionTypeOK'
  BY <1>5 DEF Reject, signed, awaitsDecision
<1>6. CASE MarkRunning
  BY <1>6 DEF MarkRunning
<1>7. CASE Succeed
  BY <1>7 DEF Succeed
<1>8. ASSUME NEW r \in FailureCodes, Fail(r) \/ Abort(r)
      PROVE  SessionTypeOK'
  <2>1. CASE forceFail(r)
    BY <2>1 DEF forceFail
  <2>2. CASE UNCHANGED sessionVars
    BY <2>2 DEF sessionVars
  <2> QED BY <1>8, <2>1, <2>2 DEF Fail, Abort
<1>9. CASE Emit
  BY <1>9 DEF Emit, nextIndex
<1>10. ASSUME NEW v \in Values, AppendEvidence(v)
       PROVE  SessionTypeOK'
  <2>1. [value |-> v, prev |-> anchor(evidence),
         hash |-> computeEvidenceHash(v, anchor(evidence))] \in EvidenceRecord
    BY HashesTyped DEF EvidenceRecord
  <2> QED BY <1>10, <2>1, HashesTyped DEF AppendEvidence, chained
<1>11. CASE PullEvents
  <2>1. pulled \o pendingEvents \in Seq(SessionEvent)
    BY ConcatProperties
  <2>2. <<>> \in Seq(SessionEvent)
    BY EmptySeq
  <2> QED BY <1>11, <2>1, <2>2 DEF PullEvents
<1>12. CASE UNCHANGED sessionVars
  BY <1>12 DEF sessionVars
<1> QED BY <1>1, <1>2, <1>3, <1>4, <1>5, <1>6, <1>7, <1>8, <1>9, <1>10,
           <1>11, <1>12 DEF SessionNext, Decide, Finish

\* The type invariant of the aggregate.
THEOREM SessionTyped == SessionSpec => []SessionTypeOK
<1>1. SessionTypeOK /\ [SessionNext]_sessionVars => SessionTypeOK'
  BY SessionTypeStep
<1> QED BY SessionTypeInit, <1>1, PTL DEF SessionSpec

-----------------------------------------------------------------------------
(* The outcome fields.                                                     *)

\* StatusTellsOutcome is not inductive: that a session waiting for approval
\* has no decision yet rests on no earlier status having one.
OutcomeInv ==
    /\ StatusTellsOutcome
    /\ approvalDecision # NoPrincipal => status \in {"running"} \union Terminal

LEMMA OutcomeInit == SessionInit => OutcomeInv
BY DEF SessionInit, OutcomeInv, StatusTellsOutcome, Terminal

LEMMA OutcomeStep ==
    ASSUME SessionTypeOK, OutcomeInv, [SessionNext]_sessionVars
    PROVE  OutcomeInv'
<1> USE SessionAssumption
    DEF SessionTypeOK, Statuses, Terminal, OutcomeInv, StatusTellsOutcome,
        transitionTo, validTransitions
<1>1. CASE MarkValidated
  BY <1>1 DEF MarkValidated
<1>2. ASSUME NEW caps \in SUBSET Capabilities, MarkResolved(caps)
      PROVE  OutcomeInv'
  BY <1>2 DEF MarkResolved
<1>3. CASE MarkAwaitingApproval
  BY <1>3 DEF MarkAwaitingApproval
<1>4. ASSUME NEW p \in Principals \union {NoPrincipal}, Approve(p)
      PROVE  OutcomeInv'
  BY <1>4 DEF Approve, signed, awaitsDecision
<1>5. ASSUME NEW p \in Principals \union {NoPrincipal},
             NEW r \in FailureCodes, Reject(r, p)
      PROVE  OutcomeInv'
  BY <1>5 DEF Reject, signed, awaitsDecision
<1>6. CASE MarkRunning
  BY <1>6 DEF MarkRunning
<1>7. CASE Succeed
  BY <1>7 DEF Succeed
<1>8. ASSUME NEW r \in FailureCodes, status \notin Terminal, forceFail(r)
      PROVE  OutcomeInv'
  BY <1>8 DEF forceFail
<1>9. CASE UNCHANGED <<status, requiresApproval, result, failure,
                       approvalDecision>>
  BY <1>9
<1> QED BY <1>1, <1>2, <1>3, <1>4, <1>5, <1>6, <1>7, <1>8, <1>9
        DEF SessionNext, Decide, Finish, Fail, Abort, Emit, AppendEvidence,
            PullEvents, sessionVars

\* The status alone tells the outcome, in every reachable state.
THEOREM OutcomeFromStatus == SessionSpec => []StatusTellsOutcome
<1>1. SessionTypeOK /\ OutcomeInv /\ [SessionNext]_sessionVars => OutcomeInv'
  BY OutcomeStep
<1>2. OutcomeInv => StatusTellsOutcome
  BY DEF OutcomeInv
<1> QED BY SessionTyped, OutcomeInit, <1>1, <1>2, PTL DEF SessionSpec

\* No later call changes what a terminal session has settled, nor replaces a
\* decision once somebody has made it.
THEOREM SettledStays == SessionSpec => SettledIsFinal
<1> DEFINE settled == <<status, result, failure, approvalDecision,
                        requiresApproval, resolvedCapabilities>>
           Stays == /\ status \in Terminal => UNCHANGED settled
                    /\ approvalDecision # NoPrincipal =>
                           approvalDecision' = approvalDecision
<1>1. ASSUME SessionTypeOK, status \in Terminal, [SessionNext]_sessionVars
      PROVE  UNCHANGED settled
  BY <1>1 DEF SessionNext, Decide, Finish, sessionVars, Terminal,
     transitionTo, validTransitions, MarkValidated, MarkResolved,
     MarkAwaitingApproval, Approve, Reject, awaitsDecision, MarkRunning, Succeed, Fail, Abort,
     Emit, AppendEvidence, PullEvents
<1>2. ASSUME SessionTypeOK, OutcomeInv, approvalDecision # NoPrincipal,
             [SessionNext]_sessionVars
      PROVE  approvalDecision' = approvalDecision
  BY <1>2 DEF OutcomeInv, SessionNext, Decide, Finish, sessionVars, Terminal,
     MarkValidated, MarkResolved, MarkAwaitingApproval, Approve, Reject,
     awaitsDecision,
     MarkRunning, Succeed, Fail, Abort, forceFail, Emit, AppendEvidence,
     PullEvents
<1>3. SessionTypeOK /\ OutcomeInv /\ [SessionNext]_sessionVars => [Stays]_sessionVars
  BY <1>1, <1>2
<1>4. SessionTypeOK /\ OutcomeInv /\ [SessionNext]_sessionVars => OutcomeInv'
  BY OutcomeStep
<1> QED BY SessionTyped, OutcomeInit, <1>3, <1>4, PTL
        DEF SessionSpec, SettledIsFinal

-----------------------------------------------------------------------------
(* The evidence chain.                                                     *)

\* A verifying trail still verifies after a record chained to its anchor.
LEMMA ChainAppend ==
    ASSUME NEW trail \in Seq(EvidenceRecord), VerifyEvidenceChain(trail),
           NEW rec \in EvidenceRecord,
           rec.prev = anchor(trail),
           rec.hash = computeEvidenceHash(rec.value, anchor(trail))
    PROVE  VerifyEvidenceChain(Append(trail, rec))
<1> DEFINE n == Len(trail)
           longer == Append(trail, rec)
           before(i) == IF i = 1 THEN NoHash ELSE longer[i - 1].hash
           linked(i) == longer[i].hash # NoHash =>
               /\ longer[i].prev = before(i)
               /\ longer[i].hash =
                      computeEvidenceHash(longer[i].value, before(i))
<1>1. /\ n \in Nat
      /\ DOMAIN trail = 1 .. n
      /\ DOMAIN longer = 1 .. n + 1
      /\ \A i \in 1 .. n : longer[i] = trail[i]
      /\ longer[n + 1] = rec
  BY AppendProperties, LenProperties
<1>2. anchor(trail) = before(n + 1)
  <2>1. CASE trail = <<>>
    <3>1. n + 1 = 1
      BY <2>1
    <3> QED BY <2>1, <3>1 DEF anchor
  <2>2. CASE trail # <<>>
    <3>1. n \in 1 .. n
      BY <2>2, EmptySeq
    <3>2. n + 1 # 1 /\ n + 1 - 1 = n
      BY <3>1
    <3> QED BY <2>2, <3>1, <3>2, <1>1 DEF anchor
  <2> QED BY <2>1, <2>2
<1> HIDE DEF n, longer
<1>3. ASSUME NEW i \in 1 .. n PROVE linked(i)
  BY <1>1, <1>3 DEF VerifyEvidenceChain
<1>4. linked(n + 1)
  BY <1>1, <1>2
<1>5. \A i \in DOMAIN longer : linked(i)
  BY <1>1, <1>3, <1>4
<1> QED BY <1>5 DEF VerifyEvidenceChain, longer

LEMMA ChainStep ==
    ASSUME SessionTypeOK, EvidenceVerifies, NEW v \in Values, AppendEvidence(v)
    PROVE  EvidenceVerifies'
<1> DEFINE rec == [value |-> v, prev |-> anchor(evidence),
                   hash |-> computeEvidenceHash(v, anchor(evidence))]
<1>1. rec \in EvidenceRecord /\ evidence' = Append(evidence, rec)
  BY HashesTyped DEF EvidenceRecord, AppendEvidence, chained
<1>2. VerifyEvidenceChain(Append(evidence, rec))
  BY <1>1, ChainAppend DEF SessionTypeOK, EvidenceVerifies
<1> QED BY <1>1, <1>2 DEF EvidenceVerifies

\* The chain the aggregate builds verifies, whatever is appended and when.
THEOREM ChainVerifies == SessionSpec => []EvidenceVerifies
<1>1. SessionInit => EvidenceVerifies
  BY DEF SessionInit, EvidenceVerifies, VerifyEvidenceChain
<1>2. ASSUME SessionTypeOK, EvidenceVerifies, [SessionNext]_sessionVars
      PROVE  EvidenceVerifies'
  <2>1. CASE UNCHANGED evidence
    BY <1>2, <2>1 DEF EvidenceVerifies
  <2>2. ASSUME NEW v \in Values, AppendEvidence(v)
        PROVE  EvidenceVerifies'
    BY <1>2, <2>2, ChainStep
  <2> QED BY <1>2, <2>1, <2>2
          DEF SessionNext, Decide, Finish, sessionVars, MarkValidated,
              MarkResolved, MarkAwaitingApproval, Approve, Reject, MarkRunning,
              Succeed, Fail, Abort, forceFail, Emit, PullEvents
<1> QED BY SessionTyped, <1>1, <1>2, PTL DEF SessionSpec

-----------------------------------------------------------------------------
(* The events.                                                             *)

\* What CompletedExactlyOnce says of a sequence of events, a status and a
\* start time; that startedAt is set exactly when SessionStarted was raised
\* is what makes it inductive.
CompletedOnceIn(raised, st, begun) ==
    /\ st \in Terminal <=> \E i \in DOMAIN raised : IsCompletion(raised[i])
    /\ \A i, j \in DOMAIN raised :
           IsCompletion(raised[i]) /\ IsCompletion(raised[j]) => i = j
    /\ \A i \in DOMAIN raised :
           IsCompletion(raised[i]) =>
               /\ raised[i].status = st
               /\ raised[i].timed <=>
                      \E j \in 1 .. i : raised[j] = SessionStarted
    /\ begun \in BOOLEAN
    /\ begun <=> \E i \in DOMAIN raised : raised[i] = SessionStarted

CompletionInv == CompletedOnceIn(Raised, status, started)

\* Only SessionCompleted is a completion, and only SessionStarted a start.
LEMMA CompletionsAreCompleted ==
    /\ ~IsCompletion(SessionStarted)
    /\ ~IsCompletion(SessionAwaitingApproval)
    /\ SessionAwaitingApproval # SessionStarted
    /\ \A p : ~IsCompletion(SessionApproved(p))
              /\ SessionApproved(p) # SessionStarted
    /\ \A i : ~IsCompletion(ResultChunkEmitted(i))
              /\ ResultChunkEmitted(i) # SessionStarted
    /\ \A h : ~IsCompletion(EvidenceRecorded(h))
              /\ EvidenceRecorded(h) # SessionStarted
    /\ \A st, b : /\ IsCompletion(SessionCompleted(st, b))
                  /\ SessionCompleted(st, b) # SessionStarted
                  /\ SessionCompleted(st, b).status = st
                  /\ SessionCompleted(st, b).timed = b
BY DEF IsCompletion, SessionStarted, SessionAwaitingApproval, SessionApproved,
       SessionCompleted, ResultChunkEmitted, EvidenceRecorded

\* Raising an event extends Raised by it; pulling leaves Raised as it is.
LEMMA RecordRaises ==
    ASSUME SessionTypeOK, NEW e \in SessionEvent, recordEvent(e),
           UNCHANGED pulled
    PROVE  Raised' = Append(Raised, e)
<1>1. pulled \o Append(pendingEvents, e) = Append(pulled \o pendingEvents, e)
  <2>1. /\ <<e>> \in Seq(SessionEvent)
        /\ pulled \o pendingEvents \in Seq(SessionEvent)
    BY ConcatProperties DEF SessionTypeOK
  <2>2. /\ Append(pendingEvents, e) = pendingEvents \o <<e>>
        /\ Append(pulled \o pendingEvents, e)
             = (pulled \o pendingEvents) \o <<e>>
    BY <2>1, AppendIsConcat DEF SessionTypeOK
  <2>3. (pulled \o pendingEvents) \o <<e>> = pulled \o (pendingEvents \o <<e>>)
    BY <2>1, ConcatAssociative DEF SessionTypeOK
  <2> QED BY <2>2, <2>3
<1> QED BY <1>1 DEF Raised, recordEvent

LEMMA PullKeepsRaised ==
    ASSUME SessionTypeOK, PullEvents
    PROVE  Raised' = Raised
<1>1. pulled \o pendingEvents \in Seq(SessionEvent)
  BY ConcatProperties DEF SessionTypeOK
<1>2. (pulled \o pendingEvents) \o <<>> = pulled \o pendingEvents
  BY <1>1, ConcatEmptySeq
<1> QED BY <1>2 DEF PullEvents, Raised

LEMMA RaisedTyped == SessionTypeOK => Raised \in Seq(SessionEvent)
BY ConcatProperties DEF SessionTypeOK, Raised

\* An event that neither starts nor completes disturbs nothing, as long as
\* the status changes between statuses that are not terminal, if at all.
LEMMA PlainEvent ==
    ASSUME NEW raised \in Seq(SessionEvent), NEW st, NEW begun,
           CompletedOnceIn(raised, st, begun),
           NEW e \in SessionEvent, ~IsCompletion(e), e # SessionStarted,
           NEW st2, st2 = st \/ (st \notin Terminal /\ st2 \notin Terminal)
    PROVE  CompletedOnceIn(Append(raised, e), st2, begun)
<1> DEFINE n == Len(raised)
           longer == Append(raised, e)
<1>1. /\ n \in Nat
      /\ DOMAIN raised = 1 .. n
      /\ DOMAIN longer = 1 .. n + 1
      /\ \A i \in 1 .. n : longer[i] = raised[i]
      /\ longer[n + 1] = e
  BY AppendProperties, LenProperties
<1> HIDE DEF n, longer
<1>2. CompletedOnceIn(longer, st2, begun)
  BY <1>1 DEF CompletedOnceIn
<1> QED BY <1>2 DEF longer

LEMMA StartEvent ==
    ASSUME NEW raised \in Seq(SessionEvent), NEW st, NEW begun,
           CompletedOnceIn(raised, st, begun), st \notin Terminal,
           NEW st2, st2 \notin Terminal
    PROVE  CompletedOnceIn(Append(raised, SessionStarted), st2, TRUE)
<1> DEFINE n == Len(raised)
           longer == Append(raised, SessionStarted)
<1>1. /\ n \in Nat
      /\ DOMAIN raised = 1 .. n
      /\ DOMAIN longer = 1 .. n + 1
      /\ \A i \in 1 .. n : longer[i] = raised[i]
      /\ longer[n + 1] = SessionStarted
  BY AppendProperties, LenProperties, EventsTyped
<1> HIDE DEF n, longer
<1>2. \A i \in DOMAIN longer : ~IsCompletion(longer[i])
  BY <1>1, CompletionsAreCompleted DEF CompletedOnceIn
<1>3. CompletedOnceIn(longer, st2, TRUE)
  BY <1>1, <1>2 DEF CompletedOnceIn
<1> QED BY <1>3 DEF longer

LEMMA CompletionEvent ==
    ASSUME NEW raised \in Seq(SessionEvent), NEW st, NEW begun,
           CompletedOnceIn(raised, st, begun), st \notin Terminal,
           NEW st2 \in Terminal
    PROVE  CompletedOnceIn(Append(raised, SessionCompleted(st2, begun)),
                           st2, begun)
<1> DEFINE n == Len(raised)
           e == SessionCompleted(st2, begun)
           longer == Append(raised, e)
<1>1. begun \in BOOLEAN /\ e \in SessionEvent
  BY EventsTyped DEF CompletedOnceIn
<1>2. /\ n \in Nat
      /\ DOMAIN raised = 1 .. n
      /\ DOMAIN longer = 1 .. n + 1
      /\ \A i \in 1 .. n : longer[i] = raised[i]
      /\ longer[n + 1] = e
  BY <1>1, AppendProperties, LenProperties
<1>3. /\ IsCompletion(e)
      /\ e # SessionStarted
      /\ e.status = st2
      /\ e.timed = begun
  BY CompletionsAreCompleted
<1> HIDE DEF n, e, longer
<1>4. \A i \in 1 .. n : ~IsCompletion(longer[i])
  BY <1>2 DEF CompletedOnceIn
<1>5. (\E i \in DOMAIN longer : longer[i] = SessionStarted) <=> begun
  BY <1>2, <1>3 DEF CompletedOnceIn
<1>6. CompletedOnceIn(longer, st2, begun)
  BY <1>1, <1>2, <1>3, <1>4, <1>5 DEF CompletedOnceIn
<1> QED BY <1>6 DEF longer, e

LEMMA CompletionStep ==
    ASSUME SessionTypeOK, CompletionInv, [SessionNext]_sessionVars
    PROVE  CompletionInv'
<1> USE RaisedTyped, EventsTyped, CompletionsAreCompleted DEF CompletionInv
<1>1. CASE MarkValidated
  <2>1. /\ Raised' = Append(Raised, SessionStarted)
        /\ status \notin Terminal /\ status' \notin Terminal /\ started' = TRUE
    BY <1>1, RecordRaises
       DEF MarkValidated, transitionTo, validTransitions, Terminal
  <2> QED BY <2>1, StartEvent
<1>2. ASSUME UNCHANGED <<pendingEvents, pulled, started>>,
             status' = status
                 \/ (status \notin Terminal /\ status' \notin Terminal)
      PROVE  CompletionInv'
  <2>1. Raised' = Raised
    BY <1>2 DEF Raised
  <2> QED BY <1>2, <2>1 DEF CompletedOnceIn
<1>3. ASSUME NEW e \in SessionEvent, ~IsCompletion(e), e # SessionStarted,
             recordEvent(e), UNCHANGED <<pulled, started>>,
             status' = status
                 \/ (status \notin Terminal /\ status' \notin Terminal)
      PROVE  CompletionInv'
  <2>1. Raised' = Append(Raised, e)
    BY <1>3, RecordRaises
  <2> QED BY <1>3, <2>1, PlainEvent
<1>4. ASSUME NEW st \in Terminal, status \notin Terminal, status' = st,
             recordCompletion(st), UNCHANGED <<pulled, started>>
      PROVE  CompletionInv'
  <2>1. SessionCompleted(st, started) \in SessionEvent
    BY DEF SessionTypeOK
  <2>2. Raised' = Append(Raised, SessionCompleted(st, started))
    BY <1>4, <2>1, RecordRaises DEF recordCompletion
  <2> QED BY <1>4, <2>2, CompletionEvent
<1>5. ASSUME NEW caps \in SUBSET Capabilities,
             MarkResolved(caps) \/ MarkRunning
      PROVE  CompletionInv'
  BY <1>2, <1>5 DEF MarkResolved, MarkRunning, transitionTo, validTransitions,
                    Terminal
<1>6. CASE MarkAwaitingApproval
  BY <1>3, <1>6 DEF MarkAwaitingApproval, Terminal
<1>7. ASSUME NEW p \in Principals \union {NoPrincipal}, Approve(p)
      PROVE  CompletionInv'
  <2>1. p \in Principals
    BY <1>7 DEF Approve, signed, awaitsDecision
  <2> QED BY <1>3, <1>7, <2>1 DEF Approve, signed, awaitsDecision, Terminal
<1>8. ASSUME NEW p \in Principals \union {NoPrincipal},
             NEW r \in FailureCodes, Reject(r, p)
      PROVE  CompletionInv'
  BY <1>4, <1>8 DEF Reject, signed, awaitsDecision, Terminal
<1>9. CASE Succeed
  BY <1>4, <1>9 DEF Succeed, transitionTo, validTransitions, Terminal
<1>10. ASSUME NEW r \in FailureCodes, status \notin Terminal, forceFail(r)
       PROVE  CompletionInv'
  BY <1>4, <1>10 DEF forceFail, Terminal
<1>11. CASE Emit
  <2>1. Len(resultChunks) \in 0 .. MaxChunks - 1
    BY <1>11, SessionAssumption, LenProperties DEF Emit, nextIndex, SessionTypeOK
  <2> QED BY <1>3, <1>11, <2>1 DEF Emit, nextIndex
<1>12. ASSUME NEW v \in Values, AppendEvidence(v)
       PROVE  CompletionInv'
  BY <1>3, <1>12, HashesTyped DEF AppendEvidence, chained
<1>13. CASE PullEvents
  <2>1. Raised' = Raised
    BY <1>13, PullKeepsRaised
  <2> QED BY <1>13, <2>1 DEF PullEvents, CompletedOnceIn
<1>14. CASE UNCHANGED sessionVars
  BY <1>2, <1>14 DEF sessionVars
<1>15. ASSUME NEW r \in FailureCodes, Fail(r) \/ Abort(r)
       PROVE  CompletionInv'
  BY <1>10, <1>14, <1>15 DEF Fail, Abort, Terminal
<1> QED BY <1>1, <1>5, <1>6, <1>7, <1>8, <1>9, <1>11, <1>12, <1>13, <1>14,
           <1>15 DEF SessionNext, Decide, Finish

\* One SessionCompleted for every session that ends, none for one that does
\* not, in whatever order the methods are called.
THEOREM CompletesOnce == SessionSpec => []CompletedExactlyOnce
<1>1. SessionInit => CompletionInv
  <2> SUFFICES ASSUME SessionInit PROVE CompletionInv
    OBVIOUS
  <2>1. DOMAIN Raised = {}
    BY DEF SessionInit, Raised
  <2>2. status \notin Terminal /\ started = FALSE
    BY DEF SessionInit, Terminal
  <2> QED BY <2>1, <2>2 DEF CompletionInv, CompletedOnceIn
<1>2. SessionTypeOK /\ CompletionInv /\ [SessionNext]_sessionVars
        => CompletionInv'
  BY CompletionStep
<1>3. CompletionInv => CompletedExactlyOnce
  BY DEF CompletionInv, CompletedOnceIn, CompletedExactlyOnce
<1> QED BY SessionTyped, <1>1, <1>2, <1>3, PTL DEF SessionSpec

-----------------------------------------------------------------------------
(* What has been raised cannot be raised again.                            *)

\* Evidence events alone may repeat: two records may have the same hash.
Unique(e) == e.type # "evidence.recorded"

\* What the state shows once event e has been raised.
Spent(e) ==
    /\ e = SessionStarted => started
    /\ e = SessionAwaitingApproval => requiresApproval
    /\ e.type = "session.approved" => approvalDecision # NoPrincipal
    /\ IsCompletion(e) => status \in Terminal
    /\ IsChunk(e) => e.index < Len(resultChunks)

\* A session starts once and asks for approval once, because the statuses in
\* which it does are never entered again.
EarlyInv ==
    /\ status = "pending" => ~started
    /\ status \in {"pending", "validated", "resolved"} => ~requiresApproval

EventFacts == SessionTypeOK /\ OutcomeInv /\ EarlyInv

LEMMA EarlyInit == SessionInit => EarlyInv
BY DEF SessionInit, EarlyInv

LEMMA EarlyStep ==
    ASSUME SessionTypeOK, EarlyInv, [SessionNext]_sessionVars
    PROVE  EarlyInv'
<1> USE DEF SessionTypeOK, Statuses, Terminal, EarlyInv, transitionTo, validTransitions
<1>1. CASE MarkValidated \/ MarkRunning \/ MarkAwaitingApproval \/ Succeed
  BY <1>1 DEF MarkValidated, MarkRunning, MarkAwaitingApproval, Succeed
<1>2. ASSUME NEW caps \in SUBSET Capabilities, MarkResolved(caps)
      PROVE  EarlyInv'
  BY <1>2 DEF MarkResolved
<1>3. ASSUME NEW p \in Principals \union {NoPrincipal}, NEW r \in FailureCodes,
             Approve(p) \/ Reject(r, p) \/ Fail(r) \/ Abort(r)
      PROVE  EarlyInv'
  BY <1>3 DEF Approve, Reject, Fail, Abort, forceFail, sessionVars
<1>4. ASSUME NEW p \in Principals \union {NoPrincipal}, Approve(p)
      PROVE  EarlyInv'
  BY <1>4 DEF Approve
<1>5. CASE UNCHANGED <<status, started, requiresApproval>>
  BY <1>5
<1> QED BY <1>1, <1>2, <1>3, <1>4, <1>5
        DEF SessionNext, Decide, Finish, Emit, AppendEvidence, PullEvents, sessionVars

\* The kinds of event exclude each other.
LEMMA KindsDiffer ==
    /\ SessionStarted # SessionAwaitingApproval
    /\ SessionStarted.type = "session.started" /\ ~IsChunk(SessionStarted)
    /\ SessionAwaitingApproval.type = "session.awaiting_approval"
    /\ ~IsChunk(SessionAwaitingApproval)
    /\ \A p : /\ SessionApproved(p).type = "session.approved"
              /\ ~IsChunk(SessionApproved(p))
              /\ SessionApproved(p) # SessionAwaitingApproval
    /\ \A st, b : /\ SessionCompleted(st, b).type = "session.completed"
                  /\ ~IsChunk(SessionCompleted(st, b))
                  /\ SessionCompleted(st, b) # SessionAwaitingApproval
    /\ \A i : /\ ResultChunkEmitted(i).type = "result.chunk.emitted"
              /\ IsChunk(ResultChunkEmitted(i)) /\ ResultChunkEmitted(i).index = i
              /\ ResultChunkEmitted(i) # SessionAwaitingApproval
    /\ \A h : /\ EvidenceRecorded(h).type = "evidence.recorded"
              /\ ~IsChunk(EvidenceRecorded(h))
              /\ EvidenceRecorded(h) # SessionAwaitingApproval
BY DEF SessionStarted, SessionAwaitingApproval, SessionApproved, SessionCompleted,
       ResultChunkEmitted, EvidenceRecorded, IsChunk

\* The event a step raises, if it raises one, was not spent and is now, and
\* only Emit raises a chunk event, the one of the index it stamps.
LEMMA StepRaises ==
    ASSUME EventFacts, [SessionNext]_sessionVars
    PROVE  \/ Raised' = Raised /\ UNCHANGED resultChunks
           \/ \E e \in SessionEvent :
                  /\ recordEvent(e) /\ UNCHANGED pulled
                  /\ Raised' = Append(Raised, e)
                  /\ Unique(e) => ~Spent(e) /\ Spent(e)'
                  /\ \/ ~IsChunk(e) /\ UNCHANGED resultChunks
                     \/ /\ e = ResultChunkEmitted(Len(resultChunks))
                        /\ resultChunks' = Append(resultChunks, Len(resultChunks))
<1> USE EventsTyped, KindsDiffer, CompletionsAreCompleted, SessionAssumption
<1> DEFINE Goal == \E e \in SessionEvent :
               /\ recordEvent(e) /\ UNCHANGED pulled
               /\ Raised' = Append(Raised, e)
               /\ Unique(e) => ~Spent(e) /\ Spent(e)'
               /\ \/ ~IsChunk(e) /\ UNCHANGED resultChunks
                  \/ /\ e = ResultChunkEmitted(Len(resultChunks))
                     /\ resultChunks' = Append(resultChunks, Len(resultChunks))
<1>1. ASSUME NEW e \in SessionEvent, recordEvent(e), UNCHANGED pulled,
             Unique(e) => ~Spent(e) /\ Spent(e)',
             \/ ~IsChunk(e) /\ UNCHANGED resultChunks
             \/ /\ e = ResultChunkEmitted(Len(resultChunks))
                /\ resultChunks' = Append(resultChunks, Len(resultChunks))
      PROVE  Goal
  <2>1. Raised' = Append(Raised, e)
    BY <1>1, RecordRaises DEF EventFacts
  <2> QED BY <1>1, <2>1
<1>0. SUFFICES Goal \/ (Raised' = Raised /\ UNCHANGED resultChunks)
  OBVIOUS
<1> HIDE DEF Goal
<1>2. CASE MarkValidated
  <2>1. recordEvent(SessionStarted) /\ UNCHANGED <<pulled, resultChunks>> /\ ~started /\ started'
    BY <1>2 DEF MarkValidated, EventFacts, EarlyInv, transitionTo, validTransitions
  <2>0. PICK e \in SessionEvent : e = SessionStarted
    OBVIOUS
  <2>2. ~Spent(e) /\ Spent(e)' /\ ~IsChunk(e) /\ recordEvent(e)
    BY <2>0, <2>1 DEF Spent
  <2> QED BY <1>1, <2>1, <2>2
<1>3. CASE MarkAwaitingApproval
  <2>1. /\ recordEvent(SessionAwaitingApproval) /\ UNCHANGED <<pulled, resultChunks>>
        /\ ~requiresApproval /\ requiresApproval'
    BY <1>3 DEF MarkAwaitingApproval, EventFacts, EarlyInv
  <2>0. PICK e \in SessionEvent : e = SessionAwaitingApproval
    OBVIOUS
  <2>2. ~Spent(e) /\ Spent(e)' /\ ~IsChunk(e) /\ recordEvent(e)
    BY <2>0, <2>1 DEF Spent
  <2> QED BY <1>1, <2>1, <2>2
<1>4. ASSUME NEW p \in Principals \union {NoPrincipal}, Approve(p)
      PROVE  Goal
  <2>1. /\ p \in Principals /\ recordEvent(SessionApproved(p))
        /\ UNCHANGED <<pulled, resultChunks>>
        /\ approvalDecision = NoPrincipal /\ approvalDecision' = p /\ p # NoPrincipal
    BY <1>4 DEF Approve, signed, awaitsDecision, EventFacts, OutcomeInv, StatusTellsOutcome
  <2>2. ~Spent(SessionApproved(p)) /\ Spent(SessionApproved(p))'
    BY <2>1 DEF Spent
  <2> QED BY <1>1, <2>1, <2>2
<1>5. ASSUME NEW st \in Terminal, recordCompletion(st), status \notin Terminal,
             status' = st, UNCHANGED <<pulled, resultChunks>>
      PROVE  Goal
  <2>1. PICK b \in BOOLEAN : b = started
    BY DEF EventFacts, SessionTypeOK
  <2>2. recordEvent(SessionCompleted(st, b)) /\ SessionCompleted(st, b) \in SessionEvent
    BY <1>5, <2>1 DEF recordCompletion
  <2>3. ~Spent(SessionCompleted(st, b)) /\ Spent(SessionCompleted(st, b))'
    BY <1>5 DEF Spent
  <2> QED BY <1>1, <1>5, <2>2, <2>3
<1>6. CASE Emit
  <2>1. PICK k \in 0 .. MaxChunks - 1 : k = Len(resultChunks)
    BY <1>6, LenProperties DEF Emit, EventFacts, SessionTypeOK
  <2>2. /\ recordEvent(ResultChunkEmitted(k)) /\ UNCHANGED pulled
        /\ resultChunks' = Append(resultChunks, Len(resultChunks))
    BY <1>6, <2>1 DEF Emit, nextIndex
  <2>3. Len(resultChunks') = k + 1
    BY <2>1, <2>2 DEF EventFacts, SessionTypeOK
  <2>0. PICK e \in SessionEvent : e = ResultChunkEmitted(k)
    OBVIOUS
  <2>4. ~Spent(e) /\ Spent(e)'
    <3>1. ~(k < Len(resultChunks)) /\ k < Len(resultChunks')
      BY <2>1, <2>3
    <3> QED BY <2>0, <3>1 DEF Spent
  <2>5. recordEvent(e) /\ e = ResultChunkEmitted(Len(resultChunks))
    BY <2>0, <2>1, <2>2
  <2> QED BY <1>1, <2>2, <2>4, <2>5
<1>7. ASSUME NEW v \in Values, AppendEvidence(v)
      PROVE  Goal
  <2>1. PICK h \in Hashes : h = computeEvidenceHash(v, anchor(evidence))
    BY HashesTyped DEF EventFacts
  <2>2. recordEvent(EvidenceRecorded(h)) /\ UNCHANGED <<pulled, resultChunks>>
    BY <1>7, <2>1 DEF AppendEvidence, chained
  <2> QED BY <1>1, <2>2 DEF Unique
<1>8. ASSUME UNCHANGED <<pendingEvents, pulled, resultChunks>>
      PROVE  Raised' = Raised /\ UNCHANGED resultChunks
  BY <1>8 DEF Raised
<1>9. CASE PullEvents
  BY <1>9, PullKeepsRaised DEF EventFacts, PullEvents
<1>10. ASSUME NEW p \in Principals \union {NoPrincipal}, NEW r \in FailureCodes, Reject(r, p)
       PROVE  Goal
  BY <1>5, <1>10 DEF Reject, awaitsDecision, Terminal
<1>11. CASE Succeed
  <2>1. status = "running" /\ status' = "succeeded"
    BY <1>11 DEF Succeed, transitionTo, validTransitions, EventFacts, SessionTypeOK, Statuses
  <2> QED BY <1>5, <1>11, <2>1 DEF Succeed, Terminal
<1>12. ASSUME NEW r \in FailureCodes, status \notin Terminal, forceFail(r)
       PROVE  Goal
  BY <1>5, <1>12 DEF forceFail, Terminal
<1>13. ASSUME NEW r \in FailureCodes, Fail(r) \/ Abort(r)
       PROVE  Goal \/ (Raised' = Raised /\ UNCHANGED resultChunks)
  BY <1>8, <1>12, <1>13 DEF Fail, Abort, Terminal, sessionVars
<1>14. ASSUME NEW caps \in SUBSET Capabilities, MarkResolved(caps) \/ MarkRunning
       PROVE  Raised' = Raised /\ UNCHANGED resultChunks
  BY <1>8, <1>14 DEF MarkResolved, MarkRunning
<1>15. CASE UNCHANGED sessionVars
  BY <1>8, <1>15 DEF sessionVars
<1>16. CASE Decide
  BY <1>4, <1>10, <1>16 DEF Decide
<1>17. CASE Finish
  BY <1>11, <1>13, <1>17 DEF Finish
<1>18. CASE \E v \in Values : AppendEvidence(v)
  BY <1>7, <1>18
<1>19. CASE MarkRunning \/ \E caps \in SUBSET Capabilities : MarkResolved(caps)
  BY <1>14, <1>19
<1> QED BY <1>2, <1>3, <1>6, <1>9, <1>15, <1>16, <1>17, <1>18, <1>19 DEF SessionNext

\* Nothing spent is ever unspent.
LEMMA SpentStays ==
    ASSUME EventFacts, [SessionNext]_sessionVars, NEW e \in SessionEvent, Spent(e)
    PROVE  Spent(e)'
<1> USE DEF EventFacts, SessionTypeOK
<1>1. started => started'
  BY DEF SessionNext, Decide, Finish, sessionVars, MarkValidated, MarkResolved,
     MarkAwaitingApproval, Approve, Reject, MarkRunning, Succeed, Fail, Abort, forceFail,
     Emit, AppendEvidence, PullEvents
<1>2. requiresApproval => requiresApproval'
  BY DEF SessionNext, Decide, Finish, sessionVars, MarkValidated, MarkResolved,
     MarkAwaitingApproval, Approve, Reject, MarkRunning, Succeed, Fail, Abort, forceFail,
     Emit, AppendEvidence, PullEvents
<1>3. approvalDecision # NoPrincipal => approvalDecision' # NoPrincipal
  BY DEF SessionNext, Decide, Finish, sessionVars, MarkValidated, MarkResolved,
     MarkAwaitingApproval, Approve, Reject, MarkRunning, Succeed, Fail, Abort, forceFail,
     Emit, AppendEvidence, PullEvents, signed
<1>4. status \in Terminal => status' \in Terminal
  BY DEF SessionNext, Decide, Finish, sessionVars, MarkValidated, MarkResolved,
     MarkAwaitingApproval, Approve, Reject, MarkRunning, Succeed, Fail, Abort, forceFail,
     Emit, AppendEvidence, PullEvents, transitionTo, validTransitions, Terminal,
     awaitsDecision
<1>5. Len(resultChunks) \in Nat /\ Len(resultChunks') \in {Len(resultChunks), Len(resultChunks) + 1}
  BY DEF SessionNext, Decide, Finish, sessionVars, MarkValidated, MarkResolved,
     MarkAwaitingApproval, Approve, Reject, MarkRunning, Succeed, Fail, Abort, forceFail,
     Emit, AppendEvidence, PullEvents, nextIndex
<1>6. IsChunk(e) => e.index \in Int
  BY SessionAssumption DEF SessionEvent, IsChunk, SessionStarted, SessionAwaitingApproval,
     SessionApproved, SessionCompleted, ResultChunkEmitted, EvidenceRecorded
<1> QED BY <1>1, <1>2, <1>3, <1>4, <1>5, <1>6 DEF Spent

RaisedOnceInv ==
    /\ \A i \in DOMAIN Raised : Unique(Raised[i]) => Spent(Raised[i])
    /\ \A i, j \in DOMAIN Raised :
           Unique(Raised[i]) /\ Raised[i] = Raised[j] => i = j

LEMMA RaisedOnceInit == SessionInit => RaisedOnceInv
<1> SUFFICES ASSUME SessionInit PROVE RaisedOnceInv
  OBVIOUS
<1>1. DOMAIN Raised = {}
  BY DEF SessionInit, Raised
<1> QED BY <1>1 DEF RaisedOnceInv

LEMMA RaisedOnceStep ==
    ASSUME EventFacts, RaisedOnceInv, [SessionNext]_sessionVars
    PROVE  RaisedOnceInv'
<1>1. Raised \in Seq(SessionEvent)
  BY RaisedTyped DEF EventFacts
<1>2. \A i \in DOMAIN Raised : Spent(Raised[i]) => \A e : e = Raised[i] => Spent(e)'
  <2> SUFFICES ASSUME NEW i \in DOMAIN Raised, Spent(Raised[i]), NEW e, e = Raised[i]
               PROVE  Spent(e)'
    OBVIOUS
  <2>1. e \in SessionEvent /\ Spent(e)
    BY <1>1
  <2> QED BY <2>1, SpentStays
<1>3. CASE Raised' = Raised
  BY <1>2, <1>3 DEF RaisedOnceInv
<1>4. ASSUME NEW e \in SessionEvent, Raised' = Append(Raised, e),
             Unique(e) => ~Spent(e) /\ Spent(e)'
      PROVE  RaisedOnceInv'
  <2>1. /\ Len(Raised) \in Nat /\ DOMAIN Raised = 1 .. Len(Raised)
        /\ DOMAIN Raised' = 1 .. Len(Raised) + 1
        /\ \A i \in DOMAIN Raised : Raised'[i] = Raised[i]
        /\ Raised'[Len(Raised) + 1] = e
    BY <1>1, <1>4, AppendProperties, LenProperties
  <2>2. ASSUME NEW i \in DOMAIN Raised', NEW x, x = Raised'[i], Unique(x)
        PROVE  Spent(x)'
    BY <1>2, <1>4, <2>1, <2>2 DEF RaisedOnceInv
  <2>3. ASSUME NEW i \in DOMAIN Raised', NEW j \in DOMAIN Raised',
               Unique(Raised'[i]), Raised'[i] = Raised'[j]
        PROVE  i = j
    <3>1. CASE i \in DOMAIN Raised /\ j \in DOMAIN Raised
      BY <2>1, <2>3, <3>1 DEF RaisedOnceInv
    <3>2. ASSUME Unique(e), NEW k \in DOMAIN Raised
          PROVE  Raised[k] # e
      BY <1>4, <3>2 DEF RaisedOnceInv
    <3> QED BY <2>1, <2>3, <3>1, <3>2
  <2>4. \A i \in DOMAIN Raised' : Unique(Raised'[i]) => Spent(Raised[i])'
    BY <2>2 DEF Spent
  <2> QED BY <2>3, <2>4 DEF RaisedOnceInv, Unique
<1> QED BY <1>3, <1>4, StepRaises

LEMMA EventFactsHold == SessionSpec => []EventFacts
<1>1. SessionTypeOK /\ OutcomeInv /\ [SessionNext]_sessionVars => OutcomeInv'
  BY OutcomeStep
<1>2. SessionTypeOK /\ EarlyInv /\ [SessionNext]_sessionVars => EarlyInv'
  BY EarlyStep
<1>3. SessionTypeOK /\ OutcomeInv /\ EarlyInv => EventFacts
  BY DEF EventFacts
<1> QED BY SessionTyped, OutcomeInit, EarlyInit, <1>1, <1>2, <1>3, PTL DEF SessionSpec

\* No lifecycle or chunk event is raised twice, in whatever order the methods
\* are called.
THEOREM RaisesOnce == SessionSpec => []RaisedOnceInv
<1>1. EventFacts /\ RaisedOnceInv /\ [SessionNext]_sessionVars => RaisedOnceInv'
  BY RaisedOnceStep
<1> QED BY EventFactsHold, RaisedOnceInit, <1>1, PTL DEF SessionSpec

-----------------------------------------------------------------------------
(* The chunk trail.                                                        *)

chunksOf(raised, k) == {i \in 1 .. k : IsChunk(raised[i])}

\* What ChunkTrailRebuilds says of a sequence of events and a number of chunks.
TrailIn(raised, n) ==
    /\ Cardinality(chunksOf(raised, Len(raised))) = n
    /\ \A i \in chunksOf(raised, Len(raised)) :
           raised[i].index = Cardinality(chunksOf(raised, i)) - 1

\* Appending an event leaves the count up to any earlier event alone.
LEMMA ChunksOfAppend ==
    ASSUME NEW raised \in Seq(SessionEvent), NEW e \in SessionEvent
    PROVE  /\ \A i \in 0 .. Len(raised) :
                  chunksOf(Append(raised, e), i) = chunksOf(raised, i)
           /\ chunksOf(Append(raised, e), Len(raised) + 1) =
                  chunksOf(raised, Len(raised))
                      \union (IF IsChunk(e) THEN {Len(raised) + 1} ELSE {})
           /\ Len(Append(raised, e)) = Len(raised) + 1
           /\ Len(raised) + 1 \notin chunksOf(raised, Len(raised))
           /\ IsFiniteSet(chunksOf(raised, Len(raised)))
           /\ Len(raised) \in Nat
<1> DEFINE n == Len(raised)
           longer == Append(raised, e)
<1>1. /\ n \in Nat /\ Len(longer) = n + 1
      /\ \A i \in 1 .. n : longer[i] = raised[i]
      /\ longer[n + 1] = e
  BY AppendProperties, LenProperties
<1>2. IsFiniteSet(1 .. n)
  BY <1>1, FS_Interval
<1>3. chunksOf(raised, n) \subseteq 1 .. n
  BY DEF chunksOf
<1>4. IsFiniteSet(chunksOf(raised, n))
  BY <1>2, <1>3, FS_Subset
<1> HIDE DEF n, longer
<1>5. \A i \in 0 .. n : chunksOf(longer, i) = chunksOf(raised, i)
  BY <1>1 DEF chunksOf
<1>6. chunksOf(longer, n + 1) =
          chunksOf(raised, n) \union (IF IsChunk(e) THEN {n + 1} ELSE {})
  BY <1>1 DEF chunksOf
<1>7. n + 1 \notin chunksOf(raised, n)
  BY <1>1, <1>3
<1> QED BY <1>1, <1>4, <1>5, <1>6, <1>7 DEF n, longer

LEMMA TrailPlain ==
    ASSUME NEW raised \in Seq(SessionEvent), NEW n, TrailIn(raised, n),
           NEW e \in SessionEvent, ~IsChunk(e)
    PROVE  TrailIn(Append(raised, e), n)
<1> DEFINE longer == Append(raised, e)
<1>1. /\ Len(longer) = Len(raised) + 1 /\ Len(raised) \in Nat
      /\ chunksOf(longer, Len(longer)) = chunksOf(raised, Len(raised))
      /\ \A i \in 1 .. Len(raised) :
             longer[i] = raised[i] /\ chunksOf(longer, i) = chunksOf(raised, i)
  <2> HIDE DEF longer
  <2>1. Len(longer) = Len(raised) + 1 /\ Len(raised) \in Nat
    BY ChunksOfAppend DEF longer
  <2>2. chunksOf(longer, Len(raised) + 1) = chunksOf(raised, Len(raised))
    BY ChunksOfAppend DEF longer
  <2>3. \A i \in 1 .. Len(raised) : longer[i] = raised[i]
    BY AppendProperties, LenProperties DEF longer
  <2>4. \A i \in 1 .. Len(raised) : chunksOf(longer, i) = chunksOf(raised, i)
    <3>1. \A i \in 0 .. Len(raised) : chunksOf(longer, i) = chunksOf(raised, i)
      BY ChunksOfAppend DEF longer
    <3> QED BY <2>1, <3>1
  <2> QED BY <2>1, <2>2, <2>3, <2>4
<1>2. chunksOf(raised, Len(raised)) \subseteq 1 .. Len(raised)
  BY DEF chunksOf
<1> HIDE DEF longer
<1>3. TrailIn(longer, n)
  BY <1>1, <1>2 DEF TrailIn
<1> QED BY <1>3 DEF longer

LEMMA TrailNext ==
    ASSUME NEW raised \in Seq(SessionEvent), NEW n \in Nat, TrailIn(raised, n),
           ResultChunkEmitted(n) \in SessionEvent
    PROVE  TrailIn(Append(raised, ResultChunkEmitted(n)), n + 1)
<1> DEFINE e == ResultChunkEmitted(n)
           longer == Append(raised, e)
           last == Len(raised) + 1
<1>1. e \in SessionEvent /\ IsChunk(e) /\ e.index = n
  BY KindsDiffer
<1>2. /\ Len(longer) = last /\ Len(raised) \in Nat
      /\ chunksOf(longer, last) = chunksOf(raised, Len(raised)) \union {last}
      /\ last \notin chunksOf(raised, Len(raised))
      /\ IsFiniteSet(chunksOf(raised, Len(raised)))
      /\ longer[last] = e
      /\ \A i \in 1 .. Len(raised) :
             longer[i] = raised[i] /\ chunksOf(longer, i) = chunksOf(raised, i)
  <2> HIDE DEF e, longer
  <2>1. /\ Len(longer) = Len(raised) + 1 /\ Len(raised) \in Nat
        /\ last \notin chunksOf(raised, Len(raised))
        /\ IsFiniteSet(chunksOf(raised, Len(raised)))
    BY <1>1, ChunksOfAppend DEF longer
  <2>2. chunksOf(longer, last) = chunksOf(raised, Len(raised)) \union {last}
    BY <1>1, ChunksOfAppend DEF longer
  <2>3. longer[last] = e /\ \A i \in 1 .. Len(raised) : longer[i] = raised[i]
    BY <1>1, AppendProperties, LenProperties DEF longer
  <2>4. \A i \in 1 .. Len(raised) : chunksOf(longer, i) = chunksOf(raised, i)
    <3>1. \A i \in 0 .. Len(raised) : chunksOf(longer, i) = chunksOf(raised, i)
      BY <1>1, ChunksOfAppend DEF longer
    <3> QED BY <2>1, <3>1
  <2> QED BY <2>1, <2>2, <2>3, <2>4
<1>3. chunksOf(raised, Len(raised)) \subseteq 1 .. Len(raised)
  BY DEF chunksOf
<1> HIDE DEF e, longer, last
<1>4. Cardinality(chunksOf(longer, last)) = n + 1
  BY <1>2, FS_AddElement DEF TrailIn
<1>5. \A i \in chunksOf(longer, last) :
          longer[i].index = Cardinality(chunksOf(longer, i)) - 1
  <2>1. ASSUME NEW i \in chunksOf(raised, Len(raised))
        PROVE  longer[i].index = Cardinality(chunksOf(longer, i)) - 1
    BY <1>2, <1>3 DEF TrailIn
  <2>2. longer[last].index = Cardinality(chunksOf(longer, last)) - 1
    BY <1>1, <1>2, <1>4
  <2> QED BY <1>2, <2>1, <2>2
<1>6. TrailIn(longer, n + 1)
  BY <1>2, <1>4, <1>5 DEF TrailIn
<1> QED BY <1>6 DEF e, longer

ChunkInv ==
    /\ TrailIn(Raised, Len(resultChunks))
    /\ \A k \in DOMAIN resultChunks : resultChunks[k] = k - 1

LEMMA ChunkStep ==
    ASSUME EventFacts, ChunkInv, [SessionNext]_sessionVars
    PROVE  ChunkInv'
<1>1. Raised \in Seq(SessionEvent) /\ resultChunks \in Seq(Nat)
  BY RaisedTyped DEF EventFacts, SessionTypeOK
<1>2. CASE Raised' = Raised /\ UNCHANGED resultChunks
  BY <1>2 DEF ChunkInv, TrailIn
<1>3. ASSUME NEW e \in SessionEvent, Raised' = Append(Raised, e), ~IsChunk(e),
             UNCHANGED resultChunks
      PROVE  ChunkInv'
  <2>1. TrailIn(Append(Raised, e), Len(resultChunks))
    BY <1>1, <1>3, TrailPlain DEF ChunkInv
  <2> QED BY <1>3, <2>1 DEF ChunkInv, TrailIn
<1>4. ASSUME NEW e \in SessionEvent, Raised' = Append(Raised, e),
             e = ResultChunkEmitted(Len(resultChunks)),
             resultChunks' = Append(resultChunks, Len(resultChunks))
      PROVE  ChunkInv'
  <2>1. PICK n \in Nat : n = Len(resultChunks)
    BY <1>1, LenProperties
  <2>2. TrailIn(Append(Raised, e), n + 1)
    BY <1>1, <1>4, <2>1, TrailNext DEF ChunkInv
  <2>3. /\ Len(resultChunks') = n + 1
        /\ \A k \in DOMAIN resultChunks' : resultChunks'[k] = k - 1
    BY <1>1, <1>4, <2>1 DEF ChunkInv
  <2> QED BY <1>4, <2>2, <2>3 DEF ChunkInv, TrailIn
<1> QED BY <1>2, <1>3, <1>4, StepRaises

\* The chunk trail can be rebuilt from the events, wherever pulls fall and
\* whatever else is called in between.
THEOREM ChunksRebuild == SessionSpec => []ChunkTrailRebuilds
<1>1. SessionInit => ChunkInv
  <2> SUFFICES ASSUME SessionInit PROVE ChunkInv
    OBVIOUS
  <2>1. Raised = <<>> /\ Len(Raised) = 0
    BY DEF SessionInit, Raised
  <2>2. chunksOf(Raised, 0) = {}
    BY DEF chunksOf
  <2>3. TrailIn(Raised, 0)
    BY <2>1, <2>2, FS_EmptySet DEF TrailIn
  <2> QED BY <2>3 DEF SessionInit, ChunkInv
<1>2. EventFacts /\ ChunkInv /\ [SessionNext]_sessionVars => ChunkInv'
  BY ChunkStep
<1>3. ChunkInv => ChunkTrailRebuilds
  BY DEF ChunkInv, TrailIn, chunksOf, ChunkTrailRebuilds
<1> QED BY EventFactsHold, <1>1, <1>2, <1>3, PTL DEF SessionSpec

-----------------------------------------------------------------------------
(* What a verifying trail says of its past.                                *)

\* Every record of the trail carries a hash: VerifyEvidenceChain skips none.
hashed(trail) == \A i \in DOMAIN trail : trail[i].hash # NoHash

\* The hash function tells the records of the two trails apart.
tellsApart(s, t) ==
    \A i \in DOMAIN s, j \in DOMAIN t :
        Hash(s[i].value, s[i].prev) = Hash(t[j].value, t[j].prev)
            => s[i].value = t[j].value /\ s[i].prev = t[j].prev

\* A set of naturals has a least element.
LEMMA LeastNatural ==
    ASSUME NEW T, T \subseteq Nat, T # {}
    PROVE  \E x \in T : \A y \in T : x <= y
<1> DEFINE R == OpToRel(<, Nat)
<1>1. IsWellFoundedOn(R, Nat)
  BY NatLessThanWellFounded, Zenon
<1>2. \A a, b \in Nat : a < b => <<a, b>> \in R
  BY Zenon DEF OpToRel
<1> HIDE DEF R
<1>3. PICK x \in T : \A y \in T : <<y, x>> \notin R
  BY <1>1, WFMin
<1>4. ASSUME NEW y \in T PROVE x <= y
  <2>1. x \in Nat /\ y \in Nat /\ ~(y < x)
    BY <1>2, <1>3
  <2> QED BY <2>1
<1> QED BY <1>4

\* A record of a hashed, verifying trail has the hash of its own fields and
\* is chained to the record before it.
LEMMA RecordVerified ==
    ASSUME NEW s \in Seq(EvidenceRecord), VerifyEvidenceChain(s), hashed(s),
           NEW i \in 1 .. Len(s)
    PROVE  /\ s[i] \in EvidenceRecord
           /\ s[i].hash = Hash(s[i].value, s[i].prev)
           /\ s[i].prev = (IF i = 1 THEN NoHash ELSE s[i - 1].hash)
<1>1. i \in DOMAIN s /\ s[i].hash # NoHash /\ s[i] \in EvidenceRecord
  BY LenProperties DEF hashed
<1> DEFINE before == IF i = 1 THEN NoHash ELSE s[i - 1].hash
<1>2. s[i].prev = before /\ s[i].hash = computeEvidenceHash(s[i].value, before)
  BY <1>1 DEF VerifyEvidenceChain
<1> QED BY <1>1, <1>2 DEF computeEvidenceHash

\* Trails with one anchor agree, record by record, from the end.
LEMMA AgreeFromTheEnd ==
    ASSUME NEW s \in Seq(EvidenceRecord), VerifyEvidenceChain(s), hashed(s),
           NEW t \in Seq(EvidenceRecord), VerifyEvidenceChain(t), hashed(t),
           anchor(s) = anchor(t), tellsApart(s, t),
           NEW k \in Nat, k < Len(s), k < Len(t)
    PROVE  s[Len(s) - k] = t[Len(t) - k]
<1> DEFINE Differ == {d \in Nat : /\ d < Len(s) /\ d < Len(t)
                                  /\ s[Len(s) - d] # t[Len(t) - d]}
<1>0. Len(s) \in Nat /\ Len(t) \in Nat
  BY LenProperties
<1>1. SUFFICES ASSUME Differ # {} PROVE FALSE
  BY <1>0
<1>2. PICK d \in Differ : \A e \in Differ : d <= e
  BY <1>1, LeastNatural
<1>3. PICK i \in 1 .. Len(s), j \in 1 .. Len(t) :
          /\ i = Len(s) - d /\ j = Len(t) - d
          /\ s[i] # t[j]
  BY <1>0, <1>2
<1>4. /\ s[i] \in EvidenceRecord /\ s[i].hash = Hash(s[i].value, s[i].prev)
      /\ t[j] \in EvidenceRecord /\ t[j].hash = Hash(t[j].value, t[j].prev)
  BY RecordVerified
<1>5. s[i].hash = t[j].hash
  <2>1. CASE d = 0
    <3>1. i = Len(s) /\ j = Len(t) /\ s # <<>> /\ t # <<>>
      BY <1>0, <1>3, <2>1, EmptySeq
    <3> QED BY <3>1 DEF anchor
  <2>2. CASE d # 0
    <3>1. d - 1 \in Nat /\ d - 1 < Len(s) /\ d - 1 < Len(t) /\ ~(d <= d - 1)
      BY <1>0, <1>2, <2>2
    <3>2. s[Len(s) - (d - 1)] = t[Len(t) - (d - 1)]
      BY <1>2, <3>1
    <3>3. /\ i + 1 \in 1 .. Len(s) /\ j + 1 \in 1 .. Len(t)
          /\ i + 1 = Len(s) - (d - 1) /\ j + 1 = Len(t) - (d - 1)
          /\ i + 1 # 1 /\ j + 1 # 1 /\ i + 1 - 1 = i /\ j + 1 - 1 = j
      <4>1. /\ i + 1 = Len(s) - (d - 1) /\ j + 1 = Len(t) - (d - 1)
            /\ i \in Nat /\ j \in Nat /\ i >= 1 /\ j >= 1
        BY <1>0, <1>2, <1>3
      <4>2. i + 1 <= Len(s) /\ j + 1 <= Len(t)
        BY <1>0, <3>1, <4>1
      <4> QED BY <1>0, <4>1, <4>2
    <3>4. s[i + 1].prev = s[i].hash
      BY <3>3, RecordVerified
    <3>5. t[j + 1].prev = t[j].hash
      BY <3>3, RecordVerified
    <3> QED BY <3>2, <3>3, <3>4, <3>5
  <2> QED BY <2>1, <2>2
<1>6. s[i].value = t[j].value /\ s[i].prev = t[j].prev
  <2>1. i \in DOMAIN s /\ j \in DOMAIN t
    BY LenProperties
  <2> QED BY <1>4, <1>5, <2>1 DEF tellsApart
<1>7. s[i] = t[j]
  BY <1>4, <1>5, <1>6 DEF EvidenceRecord
<1> QED BY <1>3, <1>7

\* The first record of a trail is chained to no hash, so that a trail with the
\* same anchor has nothing before it.
LEMMA NothingBefore ==
    ASSUME NEW s \in Seq(EvidenceRecord), VerifyEvidenceChain(s), hashed(s),
           NEW t \in Seq(EvidenceRecord), VerifyEvidenceChain(t), hashed(t),
           anchor(s) = anchor(t), tellsApart(s, t)
    PROVE  Len(s) <= Len(t)
<1>0. Len(s) \in Nat /\ Len(t) \in Nat
  BY LenProperties
<1>1. SUFFICES ASSUME Len(t) < Len(s) PROVE FALSE
  BY <1>0
<1>2. CASE Len(t) = 0
  <2>1. t = <<>> /\ s # <<>> /\ Len(s) \in DOMAIN s
    BY <1>0, <1>1, <1>2, EmptySeq, LenProperties
  <2> QED BY <2>1 DEF anchor, hashed
<1>3. CASE Len(t) # 0
  <2>1. PICK i \in 1 .. Len(s) : i = Len(s) - (Len(t) - 1)
    <3>1. Len(s) - (Len(t) - 1) \in 1 .. Len(s)
      BY <1>0, <1>1, <1>3
    <3> QED BY <3>1
  <2>2. s[i] = t[1]
    <3>1. Len(t) - 1 \in Nat /\ Len(t) - 1 < Len(s) /\ Len(t) - 1 < Len(t)
      BY <1>0, <1>1, <1>3
    <3>2. s[Len(s) - (Len(t) - 1)] = t[Len(t) - (Len(t) - 1)]
      BY <3>1, AgreeFromTheEnd
    <3>3. Len(t) - (Len(t) - 1) = 1
      BY <1>0
    <3> QED BY <2>1, <3>2, <3>3
  <2>3. t[1].prev = NoHash
    <3>1. 1 \in 1 .. Len(t)
      BY <1>0, <1>3
    <3> QED BY <3>1, RecordVerified
  <2>4. i # 1 /\ i - 1 \in DOMAIN s
    BY <1>0, <1>1, <1>3, <2>1, LenProperties
  <2>5. s[i].prev = s[i - 1].hash
    BY <2>4, RecordVerified
  <2> QED BY <2>2, <2>3, <2>4, <2>5 DEF hashed
<1> QED BY <1>2, <1>3

\* Whoever keeps the hash of the last record keeps the whole trail: two trails
\* that VerifyEvidenceChain accepts and that end in the same hash are the same
\* trail, unless some record was left without a hash or the hash function
\* takes two of their records for one.  A record changed, dropped, put in or
\* moved after the fact therefore fails the verification or shows in the last
\* hash (VerifyEvidenceChain of domain/session.go).
THEOREM AnchorTellsTrail ==
    ASSUME NEW s \in Seq(EvidenceRecord), VerifyEvidenceChain(s), hashed(s),
           NEW t \in Seq(EvidenceRecord), VerifyEvidenceChain(t), hashed(t),
           anchor(s) = anchor(t), tellsApart(s, t)
    PROVE  s = t
<1>0. Len(s) \in Nat /\ Len(t) \in Nat
  BY LenProperties
<1>1. tellsApart(t, s)
  BY DEF tellsApart
<1>2. Len(s) <= Len(t)
  BY NothingBefore
<1>3. Len(t) <= Len(s)
  BY <1>1, NothingBefore
<1>4. Len(s) = Len(t)
  BY <1>0, <1>2, <1>3
<1>5. ASSUME NEW i \in 1 .. Len(s) PROVE s[i] = t[i]
  <2>1. PICK k \in Nat : k = Len(s) - i /\ k < Len(s) /\ k < Len(t)
    <3>1. Len(s) - i \in Nat /\ Len(s) - i < Len(s)
      BY <1>0
    <3> QED BY <1>4, <3>1
  <2>2. s[Len(s) - k] = t[Len(t) - k]
    BY <2>1, AgreeFromTheEnd
  <2> QED BY <1>0, <1>4, <2>1, <2>2
<1> QED BY <1>4, <1>5, SeqEqual

\* A session whose payloads can all be marshalled has a hash in every record,
\* so that its trails are ones AnchorTellsTrail speaks of.
THEOREM EveryRecordHashed ==
    ASSUME Values \subseteq Encodable
    PROVE  SessionSpec => []hashed(evidence)
<1>1. SessionInit => hashed(evidence)
  BY DEF SessionInit, hashed
<1>2. ASSUME SessionTypeOK, hashed(evidence), [SessionNext]_sessionVars
      PROVE  hashed(evidence)'
  <2>1. CASE UNCHANGED evidence
    BY <1>2, <2>1 DEF hashed
  <2>2. ASSUME NEW v \in Values, AppendEvidence(v)
        PROVE  hashed(evidence)'
    <3> DEFINE rec == chained(evidence, v)
    <3>1. evidence' = Append(evidence, rec)
      BY <2>2 DEF AppendEvidence
    <3>2. rec.hash # NoHash
      BY SessionAssumption, HashesTyped, <1>2
         DEF chained, computeEvidenceHash
    <3>3. /\ Len(evidence) \in Nat
          /\ DOMAIN evidence = 1 .. Len(evidence)
          /\ DOMAIN evidence' = 1 .. Len(evidence) + 1
          /\ \A i \in 1 .. Len(evidence) : evidence'[i] = evidence[i]
          /\ evidence'[Len(evidence) + 1] = rec
      BY <1>2, <3>1, AppendProperties, LenProperties DEF SessionTypeOK
    <3> HIDE DEF rec
    <3>4. ASSUME NEW i \in DOMAIN evidence' PROVE evidence'[i].hash # NoHash
      BY <1>2, <3>2, <3>3 DEF hashed
    <3> QED BY <3>4 DEF hashed
  <2> QED BY <1>2, <2>1, <2>2
          DEF SessionNext, Decide, Finish, sessionVars, MarkValidated,
              MarkResolved, MarkAwaitingApproval, Approve, Reject, MarkRunning,
              awaitsDecision, Succeed, Fail, Abort, forceFail, Emit, PullEvents
<1> QED BY SessionTyped, <1>1, <1>2, PTL DEF SessionSpec
=============================================================================
