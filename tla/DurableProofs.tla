---------------------------- MODULE DurableProofs ----------------------------
(***************************************************************************)
(* Theorems about a session in the snapshot store, for every set of        *)
(* callers, payloads and principals and any number of decisions, crashes   *)
(* and failed writes.                                                      *)
(***************************************************************************)
EXTENDS Durable, FiniteSets, FiniteSetTheorems, SequenceTheorems, TLAPS

-----------------------------------------------------------------------------
(* Snapshots.                                                              *)

\* What is in the file, or on its way there, was marshalled.
Marshalled ==
    /\ file # <<>> => marshals(file[1])
    /\ writer # Nobody => marshals(copy[writer])

\* Who may be where.
PlacesInv ==
    /\ pc[Runner] \notin {"idle", "resuming"}
    /\ \A t \in Callers : pc[t] \in {"idle", "resuming", "working", "saving"}

TypeInv == TypeOK /\ Marshalled /\ PlacesInv

LEMMA SnapshotFields ==
    /\ NewExecutionSession \in Snapshot
    /\ \A snap \in Snapshot, st \in Statuses :
           /\ [snap EXCEPT !.status = st] \in Snapshot
           /\ [snap EXCEPT !.status = st].status = st
           /\ [snap EXCEPT !.status = st].approver = snap.approver
           /\ [snap EXCEPT !.status = st].evidence = snap.evidence
<1>1. NewExecutionSession \in Snapshot
  <2>1. <<>> \in Seq(EvidenceRecord)
    BY EmptySeq
  <2> QED BY <2>1 DEF NewExecutionSession, Snapshot, Statuses
<1>2. ASSUME NEW snap \in Snapshot, NEW st \in Statuses
      PROVE  /\ [snap EXCEPT !.status = st] \in Snapshot
             /\ [snap EXCEPT !.status = st].status = st
             /\ [snap EXCEPT !.status = st].approver = snap.approver
             /\ [snap EXCEPT !.status = st].evidence = snap.evidence
  BY DEF Snapshot
<1> QED BY <1>1, <1>2

\* A snapshot that has been in the file is a snapshot again.
LEMMA ReloadedTyped ==
    ASSUME NEW snap \in Snapshot, marshals(snap)
    PROVE  /\ SessionFromSnapshot(snap) \in Snapshot
           /\ SessionFromSnapshot(snap).status = snap.status
           /\ SessionFromSnapshot(snap).approver = snap.approver
<1> DEFINE ev == snap.evidence
           again == [i \in DOMAIN ev |-> [ev[i] EXCEPT !.value = Reloaded(@)]]
<1>1. ev \in Seq(EvidenceRecord)
  BY DEF Snapshot
<1>2. DOMAIN ev = 1 .. Len(ev) /\ Len(ev) \in Nat
  BY <1>1
<1>3. ASSUME NEW i \in DOMAIN ev
      PROVE  [ev[i] EXCEPT !.value = Reloaded(@)] \in EvidenceRecord
  <2>1. ev[i] \in EvidenceRecord /\ ev[i].value \in Encodable
    BY <1>1, <1>2 DEF marshals
  <2>2. Reloaded(ev[i].value) \in Values
    BY <2>1, DurableAssumption
  <2> QED BY <2>1, <2>2 DEF EvidenceRecord
<1>4. again \in Seq(EvidenceRecord)
  <2>1. again \in [1 .. Len(ev) -> EvidenceRecord]
    BY <1>2, <1>3
  <2> HIDE DEF again
  <2> QED BY <1>2, <2>1
<1>5. SessionFromSnapshot(snap) = [snap EXCEPT !.evidence = again]
  BY DEF SessionFromSnapshot
<1> HIDE DEF again
<1> QED BY <1>4, <1>5 DEF Snapshot

\* A trail grows by a record.
LEMMA ChainedTyped ==
    ASSUME NEW trail \in Seq(EvidenceRecord), NEW v \in Values
    PROVE  Append(trail, chained(trail, v)) \in Seq(EvidenceRecord)
<1>1. anchor(trail) \in Hashes
  <2>1. CASE trail = <<>>
    BY <2>1, DurableAssumption DEF anchor
  <2>2. CASE trail # <<>>
    <3>1. trail[Len(trail)] \in EvidenceRecord
      BY <2>2, EmptySeq, ElementOfSeq
    <3> QED BY <2>2, <3>1 DEF anchor, EvidenceRecord
  <2> QED BY <2>1, <2>2
<1>2. computeEvidenceHash(v, anchor(trail)) \in Hashes
  BY <1>1, DurableAssumption DEF computeEvidenceHash
<1> QED BY <1>1, <1>2 DEF chained, EvidenceRecord

-----------------------------------------------------------------------------
(* The end of an Execute or Resume, in one form.                           *)

Ending(t, snap, how) ==
    /\ pc[t] \in {"executing", "resuming", "working"}
    /\ ends(t, snap, how)
    /\ fixed /\ noStore /\ noHistory /\ UNCHANGED runs

\* The copy it ends with is the one that was worked on, interrupted by an error
\* of Resume or a panic, or one in a new status.
EndsWith(t, snap, how) ==
    /\ Ending(t, snap, how)
    /\ snap.approver = copy[t].approver
    /\ \/ /\ snap = copy[t] /\ pc[t] \in {"resuming", "working"}
          /\ pc[t] = "working" => how = "panic"
       \/ /\ snap.status \notin {"running", "rejected"}
          /\ pc[t] = "executing" => t = Runner
          /\ snap.status = "awaiting_approval" =>
                 t = Runner /\ external /\ how # "error"
          /\ pc[t] = "executing" /\ snap.status = "succeeded" => ~external

LEMMA EndingSteps ==
    ASSUME TypeOK, NEW t \in Threads,
           \/ t = Runner /\ (FailEarly \/ Pause)
           \/ ExecutorNotFound(t) \/ RefuseResume(t) \/ Finish(t) \/ PanicWorking(t)
    PROVE  \E how \in {"ok", "error", "panic"}, snap \in Snapshot :
               EndsWith(t, snap, how)
<1>0. /\ copy[t] \in Snapshot
      /\ \A st \in Statuses :
             LET snap == [copy[t] EXCEPT !.status = st]
             IN  snap \in Snapshot /\ snap.status = st
                 /\ snap.approver = copy[t].approver
  BY SnapshotFields DEF TypeOK
<1> DEFINE Status(st) == [copy[t] EXCEPT !.status = st]
           Hows == {"ok", "error", "panic"}
<1>1. ASSUME NEW st \in Statuses \ {"running", "rejected"}, NEW how \in Hows,
             Ending(t, Status(st), how),
             pc[t] = "executing" => t = Runner,
             st = "awaiting_approval" => t = Runner /\ external /\ how # "error",
             pc[t] = "executing" /\ st = "succeeded" => ~external
      PROVE  \E h \in Hows, snap \in Snapshot : EndsWith(t, snap, h)
  BY <1>0, <1>1 DEF EndsWith
<1>2. ASSUME NEW how \in Hows, Ending(t, copy[t], how),
             pc[t] \in {"resuming", "working"}, pc[t] = "working" => how = "panic"
      PROVE  \E h \in Hows, snap \in Snapshot : EndsWith(t, snap, h)
  BY <1>0, <1>2 DEF EndsWith
<1> HIDE DEF Status
<1>3. CASE t = Runner /\ FailEarly
  <2>1. PICK st \in {"pending", "validated", "resolved"}, how \in {"error", "panic"} :
            ends(t, Status(st), how)
    BY <1>3 DEF FailEarly, Status
  <2> QED BY <1>1, <1>3, <2>1 DEF FailEarly, Ending, Statuses
<1>4. CASE t = Runner /\ Pause
  <2>1. PICK how \in {"ok", "panic"} : ends(t, Status("awaiting_approval"), how)
    BY <1>4 DEF Pause, Status
  <2> QED BY <1>1, <1>4, <2>1 DEF Pause, Ending, Statuses
<1>5. CASE ExecutorNotFound(t)
  <2>1. PICK how \in {"error", "panic"} : ends(t, Status("failed"), how)
    BY <1>5 DEF ExecutorNotFound, Status
  <2> QED BY <1>1, <1>5, <2>1
          DEF ExecutorNotFound, mayEnter, Ending, Statuses, Terminal
<1>6. CASE RefuseResume(t)
  <2>1. PICK how \in {"error", "panic"} : ends(t, copy[t], how)
    BY <1>6 DEF RefuseResume
  <2> QED BY <1>2, <1>6, <2>1 DEF RefuseResume, Ending
<1>7. CASE Finish(t)
  <2>1. PICK st \in {"succeeded", "failed"}, how \in {"ok", "panic"} :
            ends(t, Status(st), how)
    BY <1>7 DEF Finish, Status
  <2> QED BY <1>1, <1>7, <2>1 DEF Finish, Ending, Statuses, Terminal
<1>8. CASE PanicWorking(t)
  BY <1>2, <1>8 DEF PanicWorking, Ending
<1> QED BY <1>3, <1>4, <1>5, <1>6, <1>7, <1>8

\* What an ending leaves behind: a copy to be saved, or one that is lost.
LEMMA EndingLeaves ==
    ASSUME NEW t \in Threads, NEW how \in {"ok", "error", "panic"},
           NEW snap \in Snapshot, copy \in [Threads -> Snapshot],
           mode \in {"sync", "async"}, lost \in BOOLEAN, Ending(t, snap, how)
    PROVE  \E new \in Snapshot, place \in {"saving", "done", "idle"} :
               /\ copy' = [copy EXCEPT ![t] = new]
               /\ pc' = [pc EXCEPT ![t] = place]
               /\ exit' = [exit EXCEPT ![t] = how]
               /\ lost' \in BOOLEAN
               /\ \/ new = snap
                  \/ t = Runner /\ new = [snap EXCEPT !.status = "failed"]
               /\ place \in {"saving", IF t = Runner THEN "done" ELSE "idle"}
               /\ place = "saving" /\ how = "panic" => new.status \in Terminal
<1> USE DEF Ending, goto
<1>1. lost' \in BOOLEAN /\ exit' = [exit EXCEPT ![t] = how]
  BY DEF ends
<1>2. CASE t = Runner /\ mode = "async"
  <2>1. /\ copy' = [copy EXCEPT ![t] = settled(snap, how)]
        /\ pc' = [pc EXCEPT ![t] = "saving"]
    BY <1>2 DEF ends
  <2>2. settled(snap, how) \in {snap, [snap EXCEPT !.status = "failed"]}
    BY DEF settled
  <2>3. settled(snap, how) \in Snapshot
    <3>1. "failed" \in Statuses
      BY DEF Statuses, Terminal
    <3>2. [snap EXCEPT !.status = "failed"] \in Snapshot
      BY <3>1, SnapshotFields
    <3> QED BY <2>2, <3>2
  <2>4. how = "panic" => settled(snap, how).status \in Terminal
    BY SnapshotFields DEF settled, Statuses, Terminal
  <2> QED BY <1>1, <1>2, <2>1, <2>2, <2>3, <2>4
<1>3. CASE ~(t = Runner /\ mode = "async") /\ how # "panic"
  BY <1>1, <1>3 DEF ends
<1>4. CASE ~(t = Runner /\ mode = "async") /\ how = "panic"
  BY <1>1, <1>4 DEF ends
<1> QED BY <1>2, <1>3, <1>4

-----------------------------------------------------------------------------
(* Types.                                                                  *)

LEMMA TypeInit == Init => TypeInv
<1> SUFFICES ASSUME Init
             PROVE  TypeInv
  OBVIOUS
<1>1. /\ file \in Seq(Snapshot) /\ Len(file) = 0
      /\ copy \in [Threads -> Snapshot]
  BY SnapshotFields, EmptySeq DEF Init
<1>2. pc \in [Threads -> Places]
  BY DEF Init, Places
<1>3. PlacesInv
  BY DurableAssumption DEF Init, PlacesInv, Threads
<1>4. TypeOK
  <2>1. /\ exit \in [Threads -> {"ok", "error", "panic"}]
        /\ told \subseteq Statuses /\ writer = Nobody
    BY DEF Init
  <2>2. decisions \in 0 .. MaxDecisions /\ crashes \in 0 .. MaxCrashes /\ runs \in Nat
    BY DurableAssumption DEF Init
  <2>3. /\ mode \in {"sync", "async"} /\ external \in BOOLEAN
        /\ overlapped \in BOOLEAN /\ lost \in BOOLEAN /\ saveFailed \in BOOLEAN
    BY DEF Init
  <2> QED BY <1>1, <1>2, <2>1, <2>2, <2>3 DEF TypeOK
<1> QED BY <1>3, <1>4 DEF Init, TypeInv, Marshalled

\* A step of one goroutine that stays away from the file and from a write.
LEMMA LocalTyped ==
    ASSUME TypeInv, NEW t \in Threads, NEW new \in Snapshot, NEW place \in Places,
           writer # t,
           copy' = [copy EXCEPT ![t] = new], pc' = [pc EXCEPT ![t] = place],
           t = Runner => place \notin {"idle", "resuming"},
           t \in Callers => place \in {"idle", "resuming", "working", "saving"},
           exit' \in [Threads -> {"ok", "error", "panic"}],
           fixed, noStore, UNCHANGED <<told, saveFailed, crashes>>,
           runs' \in Nat, decisions' \in 0 .. MaxDecisions,
           overlapped' \in BOOLEAN, lost' \in BOOLEAN
    PROVE  TypeInv'
<1> USE DEF TypeInv, fixed, noStore
<1>1. TypeOK'
  <2>1. writer' # Nobody => Saving(writer)'
    BY DEF TypeOK, Saving
  <2> QED BY <2>1 DEF TypeOK
<1>2. Marshalled'
  BY DEF Marshalled, TypeOK, marshals
<1>3. PlacesInv'
  BY DurableAssumption DEF PlacesInv, TypeOK, Threads
<1> QED BY <1>1, <1>2, <1>3

LEMMA TypeStep ==
    ASSUME TypeInv, [Next]_vars
    PROVE  TypeInv'
<1>0. /\ TypeOK /\ Marshalled /\ PlacesInv /\ Runner \notin Callers
      /\ \A t \in Threads : t # Runner => t \in Callers
      /\ \A t \in Threads : ~Saving(t) => writer # t
  BY DurableAssumption DEF TypeInv, TypeOK, Threads
<1>1. ASSUME NEW t \in Threads, NEW how \in {"ok", "error", "panic"},
             NEW snap \in Snapshot, Ending(t, snap, how)
      PROVE  TypeInv'
  <2>1. copy \in [Threads -> Snapshot] /\ mode \in {"sync", "async"} /\ lost \in BOOLEAN
    BY <1>0 DEF TypeOK
  <2>2. PICK new \in Snapshot, place \in {"saving", "done", "idle"} :
               /\ copy' = [copy EXCEPT ![t] = new]
               /\ pc' = [pc EXCEPT ![t] = place]
               /\ exit' = [exit EXCEPT ![t] = how]
               /\ lost' \in BOOLEAN
               /\ place \in {"saving", IF t = Runner THEN "done" ELSE "idle"}
    BY <1>1, <2>1, EndingLeaves
  <2>3. /\ writer # t /\ place \in Places
        /\ t = Runner => place \notin {"idle", "resuming"}
        /\ t \in Callers => place \in {"idle", "resuming", "working", "saving"}
    BY <1>0, <1>1, <2>2 DEF Ending, Saving, Places
  <2>4. /\ exit' \in [Threads -> {"ok", "error", "panic"}]
        /\ fixed /\ noStore /\ UNCHANGED <<told, saveFailed, crashes>>
        /\ runs' \in Nat /\ decisions' \in 0 .. MaxDecisions /\ overlapped' \in BOOLEAN
    BY <1>0, <1>1, <2>2 DEF Ending, noHistory, TypeOK
  <2> QED BY <2>2, <2>3, <2>4, LocalTyped
<1>2. ASSUME NEW t \in Threads,
             \/ t = Runner /\ (FailEarly \/ Pause)
             \/ ExecutorNotFound(t) \/ RefuseResume(t) \/ Finish(t) \/ PanicWorking(t)
      PROVE  TypeInv'
  <2>1. PICK how \in {"ok", "error", "panic"}, snap \in Snapshot : EndsWith(t, snap, how)
    BY <1>0, <1>2, EndingSteps
  <2> QED BY <1>1, <2>1 DEF EndsWith
<1>3. ASSUME NEW t \in Threads, Enter(t)
      PROVE  TypeInv'
  <2>1. [copy[t] EXCEPT !.status = "running"] \in Snapshot
    BY <1>0, SnapshotFields DEF TypeOK, Statuses
  <2>2. /\ copy' = [copy EXCEPT ![t] = [copy[t] EXCEPT !.status = "running"]]
        /\ pc' = [pc EXCEPT ![t] = "working"]
        /\ writer # t
    BY <1>0, <1>3 DEF Enter, mayEnter, goto, Saving, TypeOK
  <2>3. /\ exit' \in [Threads -> {"ok", "error", "panic"}]
        /\ fixed /\ noStore /\ UNCHANGED <<told, saveFailed, crashes>>
        /\ runs' \in Nat /\ decisions' \in 0 .. MaxDecisions
        /\ overlapped' \in BOOLEAN /\ lost' \in BOOLEAN
    BY <1>0, <1>3 DEF Enter, noHistory, TypeOK
  <2>4. "working" \in Places
    BY DEF Places
  <2> QED BY <2>1, <2>2, <2>3, <2>4, LocalTyped
<1>4. ASSUME NEW t \in Threads, RecordEvidence(t)
      PROVE  TypeInv'
  <2>1. PICK v \in Values :
            copy' = [copy EXCEPT ![t].evidence = Append(@, chained(@, v))]
    BY <1>4 DEF RecordEvidence
  <2>2. copy[t] \in Snapshot /\ copy[t].evidence \in Seq(EvidenceRecord)
    BY <1>0 DEF TypeOK, Snapshot
  <2> DEFINE trail == Append(copy[t].evidence, chained(copy[t].evidence, v))
             new == [copy[t] EXCEPT !.evidence = trail]
  <2>3. trail \in Seq(EvidenceRecord)
    BY <2>2, ChainedTyped
  <2>4. new \in Snapshot
    <3> HIDE DEF trail
    <3> QED BY <2>2, <2>3 DEF Snapshot
  <2>5. copy' = [copy EXCEPT ![t] = new]
    BY <2>1, <1>0 DEF TypeOK
  <2>6. pc' = [pc EXCEPT ![t] = "working"] /\ writer # t
    BY <1>0, <1>4 DEF RecordEvidence, Saving, TypeOK
  <2>7. /\ exit' \in [Threads -> {"ok", "error", "panic"}]
        /\ fixed /\ noStore /\ UNCHANGED <<told, saveFailed, crashes>>
        /\ runs' \in Nat /\ decisions' \in 0 .. MaxDecisions
        /\ overlapped' \in BOOLEAN /\ lost' \in BOOLEAN
    BY <1>0, <1>4 DEF RecordEvidence, noHistory, TypeOK
  <2>8. "working" \in Places
    BY DEF Places
  <2> HIDE DEF new
  <2> QED BY <2>4, <2>5, <2>6, <2>7, <2>8, LocalTyped
<1>5. ASSUME NEW t \in Callers, ApproveSession(t) \/ RejectSession(t)
      PROVE  TypeInv'
  <2>1. PICK st \in {"running", "rejected"}, place \in {"resuming", "saving"} :
            decides(t, st, place)
    BY <1>5 DEF ApproveSession, RejectSession
  <2>2. PICK p \in Principals :
            copy' = [copy EXCEPT ![t] = [SessionFromSnapshot(file[1]) EXCEPT
                                            !.status = st, !.approver = p]]
    BY <2>1 DEF decides
  <2>3. SessionFromSnapshot(file[1]) \in Snapshot
    <3>1. file # <<>> /\ file[1] \in Snapshot
      BY <1>0, <2>1, EmptySeq DEF decides, Readable, TypeOK
    <3> QED BY <1>0, <3>1, ReloadedTyped DEF Marshalled
  <2>4. [SessionFromSnapshot(file[1]) EXCEPT !.status = st, !.approver = p] \in Snapshot
    BY <2>3 DEF Snapshot, Statuses, Terminal
  <2>5. pc' = [pc EXCEPT ![t] = place] /\ writer # t /\ t \in Threads
    BY <1>0, <2>1 DEF decides, goto, Saving, Threads
  <2>6. /\ exit' \in [Threads -> {"ok", "error", "panic"}]
        /\ fixed /\ noStore /\ UNCHANGED <<told, saveFailed, crashes>>
        /\ runs' \in Nat /\ decisions' \in 0 .. MaxDecisions
        /\ overlapped' \in BOOLEAN /\ lost' \in BOOLEAN
    <3>1. /\ exit' = [exit EXCEPT ![t] = "ok"]
          /\ fixed /\ noStore /\ UNCHANGED <<runs, told, lost, saveFailed, crashes>>
          /\ decisions' = decisions + 1 /\ decisions < MaxDecisions
          /\ overlapped' = (overlapped \/ \E u \in Callers : Busy(u))
      BY <2>1 DEF decides
    <3>2. decisions' \in 0 .. MaxDecisions
      BY <1>0, <3>1, DurableAssumption DEF TypeOK
    <3>3. overlapped' \in BOOLEAN
      BY <3>1, Zenon
    <3> QED BY <1>0, <3>1, <3>2, <3>3 DEF TypeOK
  <2>7. place \in Places
    BY DEF Places
  <2> QED BY <1>0, <2>2, <2>4, <2>5, <2>6, <2>7, LocalTyped
<1>6. ASSUME NEW t \in Threads, BeginSave(t)
      PROVE  TypeInv'
  <2>1. /\ Saving(t) /\ marshals(copy[t]) /\ writer' = t /\ file' = <<>>
        /\ UNCHANGED <<mode, external, pc, copy, exit, runs, decisions, told,
                       overlapped, lost, saveFailed, crashes>>
    BY <1>6 DEF BeginSave, fixed, noHistory
  <2>2. file' \in Seq(Snapshot) /\ Len(file') <= 1
    BY <2>1, EmptySeq
  <2>3. TypeOK'
    BY <1>0, <2>1, <2>2 DEF TypeOK, Saving
  <2>4. Marshalled' /\ PlacesInv'
    BY <1>0, <2>1 DEF Marshalled, PlacesInv, marshals
  <2> QED BY <2>3, <2>4 DEF TypeInv
<1>7. ASSUME NEW t \in Threads, EndSave(t) \/ SaveFails(t)
      PROVE  TypeInv'
  <2>1. PICK saved \in BOOLEAN : pc' = [pc EXCEPT ![t] = afterSave(t, saved)]
    BY <1>7 DEF EndSave, SaveFails, goto
  <2>2. Saving(t)
    BY <1>0, <1>7, DurableAssumption DEF EndSave, SaveFails, TypeOK
  <2>3. /\ afterSave(t, saved) \in Places
        /\ t = Runner => afterSave(t, saved) \notin {"idle", "resuming"}
        /\ t \in Callers => afterSave(t, saved) = "idle"
    BY <1>0, <2>2 DEF afterSave, Saving, Places, PlacesInv
  <2>4. pc' \in [Threads -> Places] /\ PlacesInv'
    BY <1>0, <2>1, <2>3 DEF PlacesInv, TypeOK, Threads
  <2>5. /\ UNCHANGED <<mode, external, copy, exit, runs, decisions, overlapped,
                       crashes>>
        /\ lost' \in BOOLEAN /\ saveFailed' \in BOOLEAN
    BY <1>0, <1>7 DEF EndSave, SaveFails, fixed, TypeOK
  <2>6. told' \subseteq Statuses
    <3>1. copy[t].status \in Statuses
      BY <1>0 DEF TypeOK, Snapshot
    <3> QED BY <1>0, <1>7, <3>1 DEF EndSave, SaveFails, answers, TypeOK
  <2>7. /\ writer' = Nobody
        /\ \/ file' = file
           \/ file' = <<>>
           \/ file' = <<copy[t]>> /\ marshals(copy[t])
    BY <1>0, <1>7, DurableAssumption DEF EndSave, SaveFails, noStore, Marshalled
  <2>8. file' \in Seq(Snapshot) /\ Len(file') <= 1
    <3>1. file \in Seq(Snapshot) /\ Len(file) <= 1 /\ copy[t] \in Snapshot
      BY <1>0 DEF TypeOK
    <3>2. \A snap \in Snapshot : <<snap>> \in Seq(Snapshot) /\ Len(<<snap>>) = 1
      OBVIOUS
    <3>3. <<>> \in Seq(Snapshot) /\ Len(<<>>) = 0
      BY EmptySeq
    <3>4. CASE file' = file
      BY <3>1, <3>4
    <3>5. CASE file' = <<>>
      BY <3>3, <3>5
    <3>6. CASE file' = <<copy[t]>>
      BY <3>1, <3>2, <3>6
    <3> QED BY <2>7, <3>4, <3>5, <3>6
  <2>9. TypeOK'
    BY <1>0, <2>4, <2>5, <2>6, <2>7, <2>8 DEF TypeOK
  <2>10. Marshalled'
    BY <1>0, <2>5, <2>7 DEF Marshalled, marshals
  <2> QED BY <2>4, <2>9, <2>10 DEF TypeInv
<1>8. CASE GetSession
  <2>1. file # <<>> /\ file[1].status \in Statuses
    <3>1. file # <<>> /\ file \in Seq(Snapshot)
      BY <1>0, <1>8 DEF GetSession, Readable, TypeOK
    <3>2. file[1] \in Snapshot
      BY <3>1
    <3> QED BY <3>1, <3>2 DEF Snapshot
  <2> QED BY <1>0, <1>8, <2>1
          DEF GetSession, fixed, noStore, TypeInv, TypeOK, Marshalled, PlacesInv,
              Saving, marshals
<1>9. CASE Crash
  <2>1. /\ writer' = Nobody
        /\ pc' = [t \in Threads |-> IF t = Runner THEN "done" ELSE "idle"]
        /\ copy' = [t \in Threads |-> NewExecutionSession]
        /\ exit' = [t \in Threads |-> "ok"]
        /\ crashes' \in 0 .. MaxCrashes /\ lost' \in BOOLEAN
        /\ UNCHANGED <<mode, external, file, runs, decisions, told, overlapped,
                       saveFailed>>
    BY <1>0, <1>9, DurableAssumption DEF Crash, fixed, TypeOK
  <2>2. PlacesInv' /\ pc' \in [Threads -> Places]
    BY <1>0, <2>1 DEF PlacesInv, Places, Threads
  <2>3. copy' \in [Threads -> Snapshot] /\ exit' \in [Threads -> {"ok", "error", "panic"}]
    BY <2>1, SnapshotFields
  <2>4. TypeOK'
    BY <1>0, <2>1, <2>2, <2>3 DEF TypeOK
  <2>5. Marshalled'
    BY <1>0, <2>1 DEF Marshalled, marshals
  <2> QED BY <2>2, <2>4, <2>5 DEF TypeInv
<1>10. CASE UNCHANGED vars
  BY <1>0, <1>10 DEF vars, TypeInv, TypeOK, Marshalled, PlacesInv, Saving, marshals
<1>11. Runner \in Threads /\ Callers \subseteq Threads
  BY DEF Threads
<1> QED
  BY <1>2, <1>3, <1>4, <1>5, <1>6, <1>7, <1>8, <1>9, <1>10, <1>11
     DEF Next, RunnerStep, WorkStep, SaveStep

LEMMA Types == Spec => []TypeInv
<1> QED BY TypeInit, TypeStep, PTL DEF Spec

\* The type invariant of the durable store.
THEOREM DurableTyped == Spec => []TypeOK
<1>1. TypeInv => TypeOK
  BY DEF TypeInv
<1> QED BY <1>1, Types, PTL

-----------------------------------------------------------------------------
(* The gate.                                                               *)

\* What a session says of itself that may be stored.
Signed(snap) ==
    /\ snap.status \in {"running", "awaiting_approval", "rejected"} => external
    /\ external /\ snap.status \in {"running", "succeeded", "rejected"} =>
           snap.approver # NoPrincipal

\* Whatever is stored, or will be, is signed; a caller at work has signed; and
\* the runner works for actions without external effects only.
SignedInv ==
    /\ file # <<>> => Signed(file[1])
    /\ \A t \in Threads : Saving(t) => Signed(copy[t])
    /\ \A t \in Callers :
           pc[t] # "idle" => external /\ copy[t].approver # NoPrincipal
    /\ \A t \in Threads : pc[t] = "working" =>
           copy[t].status = "running" /\ (t = Runner => ~external)

Resuming == {t \in Callers : pc[t] = "resuming"}

\* Every entry of the executor, made or to be made, has its own decision.
EntriesInv ==
    /\ IsFiniteSet(Resuming)
    /\ external => runs + Cardinality(Resuming) <= decisions

LEMMA SignedInit == Init => SignedInv
<1> SUFFICES ASSUME Init
             PROVE  SignedInv
  OBVIOUS
<1>1. \A t \in Threads : copy[t] = NewExecutionSession
  BY DEF Init
<1>2. \A t \in Callers : pc[t] = "idle"
  BY DurableAssumption DEF Init, Threads
<1>3. \A t \in Threads : pc[t] # "working"
  BY DEF Init
<1> QED BY <1>1, <1>2, <1>3 DEF Init, SignedInv, Signed, NewExecutionSession

\* A step of one goroutine on its copy.
LEMMA LocalSigned ==
    ASSUME TypeInv, SignedInv, NEW t \in Threads, NEW new \in Snapshot,
           NEW place \in Places,
           copy' = [copy EXCEPT ![t] = new], pc' = [pc EXCEPT ![t] = place],
           UNCHANGED <<external, file>>,
           place \in {"creating", "saving", "resaving"} => Signed(new),
           t \in Callers /\ place # "idle" => external /\ new.approver # NoPrincipal,
           place = "working" => new.status = "running" /\ (t = Runner => ~external)
    PROVE  SignedInv'
<1> USE DEF SignedInv, TypeInv, TypeOK
<1>1. \A u \in Threads :
          /\ copy'[u] = IF u = t THEN new ELSE copy[u]
          /\ pc'[u] = IF u = t THEN place ELSE pc[u]
  OBVIOUS
<1>2. (file # <<>> => Signed(file[1]))'
  BY DEF Signed
<1>3. \A u \in Threads : Saving(u)' => Signed(copy[u])'
  <2> SUFFICES ASSUME NEW u \in Threads, Saving(u)'
               PROVE  Signed(copy[u])'
    OBVIOUS
  <2>1. CASE u = t
    BY <1>1, <2>1 DEF Saving, Signed
  <2>2. CASE u # t
    BY <1>1, <2>2 DEF Saving, Signed
  <2> QED BY <2>1, <2>2
<1>4. \A u \in Callers :
          pc'[u] # "idle" => external' /\ copy'[u].approver # NoPrincipal
  BY <1>1 DEF Threads
<1>5. \A u \in Threads : pc'[u] = "working" =>
          copy'[u].status = "running" /\ (u = Runner => ~external')
  BY <1>1
<1> QED BY <1>2, <1>3, <1>4, <1>5

LEMMA SignedStep ==
    ASSUME TypeInv, SignedInv, [Next]_vars
    PROVE  SignedInv'
<1>0. /\ TypeOK /\ PlacesInv /\ Runner \notin Callers
      /\ \A t \in Threads : t # Runner => t \in Callers
      /\ Runner \in Threads /\ Callers \subseteq Threads
      /\ \A t \in Threads : copy[t] \in Snapshot
  BY DurableAssumption DEF TypeInv, TypeOK, Threads
<1>1. ASSUME NEW t \in Threads,
             \/ t = Runner /\ (FailEarly \/ Pause)
             \/ ExecutorNotFound(t) \/ RefuseResume(t) \/ Finish(t) \/ PanicWorking(t)
      PROVE  SignedInv'
  <2>1. PICK how \in {"ok", "error", "panic"}, snap \in Snapshot : EndsWith(t, snap, how)
    BY <1>0, <1>1, EndingSteps
  <2>2. Ending(t, snap, how)
    BY <2>1 DEF EndsWith
  <2>3. PICK new \in Snapshot, place \in {"saving", "done", "idle"} :
               /\ copy' = [copy EXCEPT ![t] = new]
               /\ pc' = [pc EXCEPT ![t] = place]
               /\ \/ new = snap
                  \/ t = Runner /\ new = [snap EXCEPT !.status = "failed"]
               /\ place \in {"saving", IF t = Runner THEN "done" ELSE "idle"}
               /\ place = "saving" /\ how = "panic" => new.status \in Terminal
    BY <1>0, <2>2, EndingLeaves DEF TypeOK
  <2>4. /\ UNCHANGED <<external, file>>
        /\ pc[t] \in {"executing", "resuming", "working"}
    BY <2>2 DEF Ending, fixed, noStore
  <2>5. CASE t \in Callers
    <3>1. external /\ copy[t].approver # NoPrincipal
      BY <1>0, <2>1, <2>4, <2>5 DEF EndsWith, SignedInv, PlacesInv
    <3>3. new = snap /\ new.approver # NoPrincipal
      BY <1>0, <2>1, <2>3, <2>5, <3>1 DEF EndsWith
    <3>2. Signed(new)
      BY <3>1, <3>3 DEF Signed
    <3> QED BY <1>0, <2>3, <2>4, <2>5, <3>1, <3>2, <3>3, LocalSigned DEF Places
  <2>6. CASE t = Runner
    <3>1. pc[t] \in {"executing", "working"} /\ (pc[t] = "working" => ~external)
      BY <1>0, <2>4, <2>6 DEF PlacesInv, SignedInv
    <3>2. place = "saving" => Signed(new)
      <4>1. CASE new = [snap EXCEPT !.status = "failed"]
        BY <4>1, SnapshotFields DEF Signed, Statuses, Terminal
      <4>2. CASE new = snap /\ snap = copy[t] /\ pc[t] = "working" /\ how = "panic"
        BY <2>3, <4>2 DEF SignedInv, Terminal
      <4>3. CASE /\ new = snap /\ snap.status \notin {"running", "rejected"}
                 /\ snap.status = "awaiting_approval" => external
                 /\ pc[t] = "executing" /\ snap.status = "succeeded" => ~external
        BY <3>1, <4>3 DEF Signed
      <4> QED BY <2>1, <2>3, <3>1, <4>1, <4>2, <4>3 DEF EndsWith
    <3> QED BY <1>0, <2>3, <2>4, <2>6, <3>2, LocalSigned DEF Places
  <2> QED BY <1>0, <2>5, <2>6
<1>2. ASSUME NEW t \in Threads, Enter(t) \/ RecordEvidence(t)
      PROVE  SignedInv'
  <2>1. PICK new \in Snapshot :
            /\ copy' = [copy EXCEPT ![t] = new]
            /\ new.approver = copy[t].approver /\ new.status = "running"
    <3>1. CASE Enter(t)
      BY <1>0, <3>1, SnapshotFields DEF Enter, Statuses
    <3>2. CASE RecordEvidence(t)
      <4>1. PICK v \in Values :
                copy' = [copy EXCEPT ![t].evidence = Append(@, chained(@, v))]
        BY <3>2 DEF RecordEvidence
      <4>2. TypeInv'
        BY TypeStep
      <4>3. copy'[t] \in Snapshot
        BY <4>2 DEF TypeInv, TypeOK
      <4>4. copy[t].status = "running"
        BY <3>2 DEF RecordEvidence, SignedInv
      <4>5. /\ copy' = [copy EXCEPT ![t] = copy'[t]]
            /\ copy'[t].approver = copy[t].approver /\ copy'[t].status = copy[t].status
        BY <1>0, <4>1 DEF TypeOK, Snapshot
      <4> QED BY <4>3, <4>4, <4>5
    <3> QED BY <1>2, <3>1, <3>2
  <2>2. /\ pc' = [pc EXCEPT ![t] = "working"]
        /\ UNCHANGED <<external, file>>
        /\ t = Runner => ~external
        /\ t \in Callers => pc[t] # "idle"
    BY <1>0, <1>2
       DEF Enter, RecordEvidence, mayEnter, goto, fixed, noStore, SignedInv, TypeOK,
           PlacesInv
  <2>3. t \in Callers => external /\ copy[t].approver # NoPrincipal
    BY <2>2 DEF SignedInv
  <2> QED BY <2>1, <2>2, <2>3, LocalSigned DEF Places
<1>3. ASSUME NEW t \in Callers, ApproveSession(t) \/ RejectSession(t)
      PROVE  SignedInv'
  <2>1. PICK st \in {"running", "rejected"}, place \in {"resuming", "saving"} :
            decides(t, st, place)
    BY <1>3 DEF ApproveSession, RejectSession
  <2>2. PICK p \in Principals :
            copy' = [copy EXCEPT ![t] = [SessionFromSnapshot(file[1]) EXCEPT
                                            !.status = st, !.approver = p]]
    BY <2>1 DEF decides
  <2> DEFINE new == [SessionFromSnapshot(file[1]) EXCEPT !.status = st, !.approver = p]
  <2>3. file # <<>> /\ file[1].status = "awaiting_approval" /\ external
    BY <2>1 DEF decides, Readable, awaitsDecision, SignedInv, Signed
  <2>4. SessionFromSnapshot(file[1]) \in Snapshot
    <3>1. file[1] \in Snapshot
      BY <1>0, <2>3, EmptySeq DEF TypeOK
    <3> QED BY <2>3, <3>1, ReloadedTyped DEF TypeInv, Marshalled
  <2>5. /\ new \in Snapshot /\ new.status = st /\ new.approver = p
        /\ p # NoPrincipal
    BY <2>4, DurableAssumption DEF Snapshot, Statuses, Terminal
  <2>6. Signed(new)
    BY <2>3, <2>5 DEF Signed
  <2>7. pc' = [pc EXCEPT ![t] = place] /\ UNCHANGED <<external, file>>
        /\ t \in Threads /\ place \in Places
    BY <1>0, <2>1 DEF decides, goto, fixed, noStore, Places
  <2> HIDE DEF new
  <2> QED BY <2>2, <2>3, <2>5, <2>6, <2>7, LocalSigned DEF new
<1>4. ASSUME NEW t \in Threads, BeginSave(t)
      PROVE  SignedInv'
  BY <1>4 DEF BeginSave, fixed, SignedInv, Signed, Saving
<1>5. ASSUME NEW t \in Threads, EndSave(t) \/ SaveFails(t)
      PROVE  SignedInv'
  <2>1. PICK saved \in BOOLEAN : pc' = [pc EXCEPT ![t] = afterSave(t, saved)]
    BY <1>5 DEF EndSave, SaveFails, goto
  <2>2. Saving(t) /\ Signed(copy[t])
    BY <1>5, DurableAssumption DEF EndSave, SaveFails, TypeInv, TypeOK, SignedInv
  <2>3. afterSave(t, saved) \in {"executing", "done", "idle", "resaving"}
    BY <2>2 DEF afterSave, Saving, Threads
  <2>4. /\ UNCHANGED <<external, copy>>
        /\ file' = file \/ file' = <<>> \/ file' = <<copy[t]>>
    BY <1>5 DEF EndSave, SaveFails, fixed, noStore
  <2>5. \A u \in Threads : pc'[u] = IF u = t THEN afterSave(t, saved) ELSE pc[u]
    BY <1>0, <2>1 DEF TypeOK
  <2>6. \A u \in Threads : Saving(u)' => Saving(u)
    BY <2>2, <2>5 DEF Saving
  <2>7. t \in Callers => pc[t] # "idle"
    BY <2>2 DEF Saving
  <2>8. (\A u \in Threads : Saving(u) => Signed(copy[u]))'
    BY <2>4, <2>6 DEF SignedInv, Signed
  <2>9. (file # <<>> => Signed(file[1]))'
    BY <2>2, <2>4 DEF SignedInv, Signed
  <2>10. \A u \in Callers : pc'[u] # "idle" => pc[u] # "idle"
    BY <1>0, <2>5, <2>7
  <2>11. \A u \in Threads : pc'[u] = "working" => pc[u] = "working"
    BY <2>3, <2>5
  <2> QED BY <1>0, <2>4, <2>8, <2>9, <2>10, <2>11 DEF SignedInv
<1>6. CASE GetSession \/ UNCHANGED vars
  BY <1>6 DEF GetSession, fixed, noStore, vars, SignedInv, Signed, Saving
<1>7. CASE Crash
  <2>1. /\ pc' = [t \in Threads |-> IF t = Runner THEN "done" ELSE "idle"]
        /\ UNCHANGED <<external, file>>
    BY <1>7 DEF Crash, fixed
  <2> QED BY <1>0, <2>1 DEF SignedInv, Signed, Saving
<1> QED
  BY <1>0, <1>1, <1>2, <1>3, <1>4, <1>5, <1>6, <1>7
     DEF Next, RunnerStep, WorkStep, SaveStep

-----------------------------------------------------------------------------
(* Every entry has its decision.                                           *)

LEMMA EntriesStep ==
    ASSUME TypeInv, SignedInv, EntriesInv, [Next]_vars
    PROVE  EntriesInv'
<1>0. /\ Runner \notin Callers /\ Runner \in Threads /\ Callers \subseteq Threads
      /\ \A t \in Threads : t # Runner => t \in Callers
      /\ pc \in [Threads -> Places] /\ runs \in Nat /\ decisions \in Nat
      /\ IsFiniteSet(Resuming) /\ Cardinality(Resuming) \in Nat
      /\ external => runs + Cardinality(Resuming) <= decisions
  BY DurableAssumption, FS_CardinalityType
     DEF TypeInv, TypeOK, Threads, EntriesInv
\* A step that begins no Resume and enters no executor.
<1>1. ASSUME Resuming' \subseteq Resuming,
             UNCHANGED <<external, runs, decisions>>
      PROVE  EntriesInv'
  <2>1. IsFiniteSet(Resuming') /\ Cardinality(Resuming') <= Cardinality(Resuming)
    BY <1>0, <1>1, FS_Subset
  <2>2. Cardinality(Resuming') \in Nat
    BY <2>1, FS_CardinalityType
  <2> QED BY <1>0, <1>1, <2>1, <2>2 DEF EntriesInv
<1>2. ASSUME NEW t \in Threads, NEW place \in Places \ {"resuming"},
             pc' = [pc EXCEPT ![t] = place]
      PROVE  Resuming' \subseteq Resuming
  BY <1>0, <1>2 DEF Resuming
<1>3. ASSUME NEW t \in Threads, Enter(t)
      PROVE  EntriesInv'
  <2>1. /\ pc' = [pc EXCEPT ![t] = "working"] /\ runs' = runs + 1
        /\ UNCHANGED <<external, decisions>>
    BY <1>3 DEF Enter, goto, fixed, noHistory
  <2>2. CASE t \in Callers
    <3>1. t \in Resuming /\ Resuming' = Resuming \ {t}
      BY <1>0, <1>3, <2>1, <2>2 DEF Enter, mayEnter, Resuming
    <3>2. /\ IsFiniteSet(Resuming')
          /\ Cardinality(Resuming') = Cardinality(Resuming) - 1
      BY <1>0, <3>1, FS_RemoveElement
    <3> QED BY <1>0, <2>1, <3>2 DEF EntriesInv
  <2>3. CASE t = Runner
    <3>1. ~external
      BY <1>0, <1>3, <2>3 DEF Enter, mayEnter
    <3>2. Resuming' = Resuming
      BY <1>0, <2>1, <2>3 DEF Resuming
    <3> QED BY <1>0, <2>1, <3>1, <3>2 DEF EntriesInv
  <2> QED BY <1>0, <2>2, <2>3
<1>4. ASSUME NEW t \in Callers, ApproveSession(t) \/ RejectSession(t)
      PROVE  EntriesInv'
  <2>1. PICK st \in {"running", "rejected"}, place \in {"resuming", "saving"} :
            decides(t, st, place)
    BY <1>4 DEF ApproveSession, RejectSession
  <2>2. /\ pc[t] = "idle" /\ pc' = [pc EXCEPT ![t] = place]
        /\ decisions' = decisions + 1 /\ UNCHANGED <<external, runs>>
    BY <2>1 DEF decides, goto, fixed
  <2>3. Resuming' \in {Resuming, Resuming \union {t}} /\ t \notin Resuming
    BY <1>0, <2>2 DEF Resuming
  <2>4. /\ IsFiniteSet(Resuming \union {t})
        /\ Cardinality(Resuming \union {t}) = Cardinality(Resuming) + 1
    BY <1>0, <2>3, FS_AddElement
  <2> QED BY <1>0, <2>2, <2>3, <2>4 DEF EntriesInv
<1>5. ASSUME NEW t \in Threads,
             \/ t = Runner /\ (FailEarly \/ Pause)
             \/ ExecutorNotFound(t) \/ RefuseResume(t) \/ Finish(t) \/ PanicWorking(t)
      PROVE  EntriesInv'
  <2>1. TypeOK
    BY DEF TypeInv
  <2>2. PICK how \in {"ok", "error", "panic"}, snap \in Snapshot : EndsWith(t, snap, how)
    BY <1>5, <2>1, EndingSteps
  <2>3. Ending(t, snap, how)
    BY <2>2 DEF EndsWith
  <2>4. PICK place \in {"saving", "done", "idle"} : pc' = [pc EXCEPT ![t] = place]
    BY <2>1, <2>3, EndingLeaves DEF TypeOK
  <2>5. UNCHANGED <<external, runs, decisions>>
    BY <2>3 DEF Ending, fixed, noHistory
  <2>6. place \in Places \ {"resuming"}
    BY DEF Places
  <2> QED BY <1>1, <1>2, <2>4, <2>5, <2>6
<1>6. ASSUME NEW t \in Threads, EndSave(t) \/ SaveFails(t)
      PROVE  EntriesInv'
  <2>1. PICK saved \in BOOLEAN : pc' = [pc EXCEPT ![t] = afterSave(t, saved)]
    BY <1>6 DEF EndSave, SaveFails, goto
  <2>2. Saving(t)
    BY <1>6, DurableAssumption DEF EndSave, SaveFails, TypeInv, TypeOK
  <2>3. afterSave(t, saved) \in Places \ {"resuming"}
    BY <2>2 DEF afterSave, Saving, Places, Threads
  <2>4. UNCHANGED <<external, runs, decisions>>
    BY <1>6 DEF EndSave, SaveFails, fixed
  <2> QED BY <1>1, <1>2, <2>1, <2>3, <2>4
<1>7. ASSUME NEW t \in Threads, RecordEvidence(t) \/ BeginSave(t)
      PROVE  EntriesInv'
  <2>1. UNCHANGED <<external, runs, decisions, pc>>
    BY <1>7 DEF RecordEvidence, BeginSave, fixed, noHistory
  <2> QED BY <1>1, <2>1 DEF Resuming
<1>8. CASE GetSession \/ UNCHANGED vars
  <2>1. UNCHANGED <<external, runs, decisions, pc>>
    BY <1>8 DEF GetSession, fixed, vars
  <2> QED BY <1>1, <2>1 DEF Resuming
<1>9. CASE Crash
  <2>1. /\ pc' = [t \in Threads |-> IF t = Runner THEN "done" ELSE "idle"]
        /\ UNCHANGED <<external, runs, decisions>>
    BY <1>9 DEF Crash, fixed
  <2>2. Resuming' = {}
    BY <1>0, <2>1 DEF Resuming
  <2> QED BY <1>1, <2>1, <2>2
<1> QED
  BY <1>0, <1>3, <1>4, <1>5, <1>6, <1>7, <1>8, <1>9
     DEF Next, RunnerStep, WorkStep, SaveStep

LEMMA Gate == Spec => [](TypeInv /\ SignedInv /\ EntriesInv)
<1>1. Init => EntriesInv
  <2> SUFFICES ASSUME Init
               PROVE  EntriesInv
    OBVIOUS
  <2>1. Resuming = {}
    BY DurableAssumption DEF Init, Resuming, Threads
  <2> QED BY <2>1, FS_EmptySet DEF Init, EntriesInv
<1> QED
  BY <1>1, TypeInit, TypeStep, SignedInit, SignedStep, EntriesStep, PTL DEF Spec

\* The effect gate holds across processes: whatever crashes and whoever
\* overlaps, what is stored as run is signed, and no entry lacks a decision.
THEOREM GateHolds == Spec => []SignedBeforeEffect
<1>1. TypeInv /\ SignedInv /\ EntriesInv => SignedBeforeEffect
  <2> SUFFICES ASSUME TypeInv, SignedInv, EntriesInv
               PROVE  SignedBeforeEffect
    OBVIOUS
  <2>1. external => runs <= decisions
    <3>1. Cardinality(Resuming) \in Nat
      BY FS_CardinalityType DEF EntriesInv
    <3>2. runs \in Nat /\ decisions \in Nat
      BY DurableAssumption DEF TypeInv, TypeOK
    <3> QED BY <3>1, <3>2 DEF EntriesInv
  <2> QED BY <2>1 DEF SignedInv, Signed, SignedBeforeEffect, Stored
<1> QED BY <1>1, Gate, PTL

-----------------------------------------------------------------------------
(* The pause.                                                              *)

\* Awaiting approval, in the file or as somebody was told.
Paused == "awaiting_approval" \in told \/ Stored({"awaiting_approval"})

\* Until somebody decides, callers have nothing to do, a pause that is known of
\* is stored and leaves the runner nothing to save, and the runner saves a
\* paused session only after an Execute that went well.
PauseInv ==
    /\ decisions = 0 => \A t \in Callers : pc[t] = "idle"
    /\ decisions = 0 /\ Paused =>
           Stored({"awaiting_approval"}) /\ pc[Runner] = "done"
    /\ Saving(Runner) /\ copy[Runner].status = "awaiting_approval" =>
           pc[Runner] = "saving" /\ exit[Runner] = "ok"

LEMMA PauseInit == Init => PauseInv
<1> SUFFICES ASSUME Init
             PROVE  PauseInv
  OBVIOUS
<1>1. \A t \in Callers : pc[t] = "idle"
  BY DurableAssumption DEF Init, Threads
<1>2. ~Paused
  BY DEF Init, Paused, Stored
<1>3. copy[Runner].status # "awaiting_approval"
  BY DEF Init, Threads, NewExecutionSession
<1> QED BY <1>1, <1>2, <1>3 DEF PauseInv

\* A step that leaves the decisions, the file and what was told alone.
LEMMA QuietPause ==
    ASSUME TypeInv, PauseInv, UNCHANGED <<decisions, file, told>>,
           decisions = 0 => \A u \in Callers : pc'[u] = "idle",
           pc[Runner] = "done" => pc'[Runner] = "done",
           Saving(Runner)' /\ copy'[Runner].status = "awaiting_approval" =>
               pc'[Runner] = "saving" /\ exit'[Runner] = "ok"
    PROVE  PauseInv'
<1>1. Paused' = Paused /\ Stored({"awaiting_approval"})' = Stored({"awaiting_approval"})
  BY DEF Paused, Stored
<1> QED BY <1>1 DEF PauseInv

LEMMA PauseStep ==
    ASSUME TypeInv, SignedInv, PauseInv, [Next]_vars
    PROVE  PauseInv'
<1>0. /\ TypeOK /\ PlacesInv /\ Runner \notin Callers
      /\ \A t \in Threads : t # Runner => t \in Callers
      /\ Runner \in Threads /\ Callers \subseteq Threads
      /\ pc \in [Threads -> Places] /\ copy \in [Threads -> Snapshot]
      /\ exit \in [Threads -> {"ok", "error", "panic"}] /\ decisions \in Nat
  BY DurableAssumption DEF TypeInv, TypeOK, Threads
<1>1. ASSUME NEW t \in Threads,
             \/ t = Runner /\ (FailEarly \/ Pause)
             \/ ExecutorNotFound(t) \/ RefuseResume(t) \/ Finish(t) \/ PanicWorking(t)
      PROVE  PauseInv'
  <2>1. PICK how \in {"ok", "error", "panic"}, snap \in Snapshot : EndsWith(t, snap, how)
    BY <1>0, <1>1, EndingSteps
  <2>2. Ending(t, snap, how)
    BY <2>1 DEF EndsWith
  <2>3. PICK new \in Snapshot, place \in {"saving", "done", "idle"} :
               /\ copy' = [copy EXCEPT ![t] = new]
               /\ pc' = [pc EXCEPT ![t] = place]
               /\ exit' = [exit EXCEPT ![t] = how]
               /\ \/ new = snap
                  \/ t = Runner /\ new = [snap EXCEPT !.status = "failed"]
               /\ place \in {"saving", IF t = Runner THEN "done" ELSE "idle"}
               /\ place = "saving" /\ how = "panic" => new.status \in Terminal
    BY <1>0, <2>2, EndingLeaves DEF TypeOK
  <2>4. /\ UNCHANGED <<decisions, file, told>>
        /\ pc[t] \in {"executing", "resuming", "working"}
    BY <2>2 DEF Ending, noStore, noHistory
  <2>5. CASE t \in Callers
    BY <1>0, <2>3, <2>4, <2>5, QuietPause DEF PauseInv, Saving
  <2>6. CASE t = Runner
    <3>1. place = "saving" /\ new.status = "awaiting_approval" => how = "ok"
      <4> SUFFICES ASSUME place = "saving", new.status = "awaiting_approval"
                   PROVE  how = "ok"
        OBVIOUS
      <4>1. new = snap
        <5>1. [snap EXCEPT !.status = "failed"].status = "failed"
          BY SnapshotFields DEF Statuses, Terminal
        <5> QED BY <2>3, <5>1
      <4>2. how # "panic"
        BY <2>3 DEF Terminal
      <4>3. CASE snap = copy[t] /\ pc[t] \in {"resuming", "working"}
        <5>1. pc[t] = "working"
          BY <1>0, <2>6, <4>3 DEF PlacesInv
        <5>2. copy[t].status = "running"
          BY <5>1 DEF SignedInv
        <5>3. new.status = copy[t].status /\ new.status = "awaiting_approval"
          BY <4>1, <4>3
        <5> QED BY <5>2, <5>3
      <4>4. CASE ~(snap = copy[t] /\ pc[t] \in {"resuming", "working"})
        <5>1. snap.status = "awaiting_approval" => how # "error"
          BY <2>1, <4>4 DEF EndsWith
        <5> QED BY <4>1, <4>2, <5>1
      <4> QED BY <4>2, <4>3, <4>4
    <3> QED BY <1>0, <2>3, <2>4, <2>6, <3>1, QuietPause DEF PauseInv, Saving
  <2> QED BY <1>0, <2>5, <2>6
<1>2. ASSUME NEW t \in Threads, Enter(t) \/ RecordEvidence(t)
      PROVE  PauseInv'
  <2>1. /\ pc' = [pc EXCEPT ![t] = "working"] /\ pc[t] \notin {"idle", "done"}
        /\ \A u \in Threads : u # t => copy'[u] = copy[u]
        /\ UNCHANGED <<decisions, file, told, exit>>
    BY <1>0, <1>2
       DEF Enter, RecordEvidence, mayEnter, goto, noStore, noHistory
  <2> QED BY <1>0, <2>1, QuietPause DEF PauseInv, Saving
<1>3. ASSUME NEW t \in Callers, ApproveSession(t) \/ RejectSession(t)
      PROVE  PauseInv'
  <2>1. PICK st \in {"running", "rejected"}, place \in {"resuming", "saving"} :
            decides(t, st, place)
    BY <1>3 DEF ApproveSession, RejectSession
  <2>2. /\ decisions' = decisions + 1
        /\ copy'[Runner] = copy[Runner] /\ pc'[Runner] = pc[Runner]
        /\ exit'[Runner] = exit[Runner]
    BY <1>0, <2>1 DEF decides, goto
  <2> QED BY <1>0, <2>2 DEF PauseInv, Saving
<1>4. ASSUME NEW t \in Threads, BeginSave(t)
      PROVE  PauseInv'
  <2>1. /\ Saving(t) /\ file' = <<>>
        /\ UNCHANGED <<decisions, told, pc, copy, exit>>
    BY <1>4 DEF BeginSave, noHistory
  <2>2. CASE decisions # 0
    BY <2>1, <2>2 DEF PauseInv, Saving
  <2>3. CASE decisions = 0
    <3>1. t = Runner /\ ~Paused
      BY <1>0, <2>1, <2>3 DEF PauseInv, Saving
    <3>2. ~Paused'
      BY <2>1, <3>1 DEF Paused, Stored
    <3> QED BY <2>1, <3>2 DEF PauseInv, Saving
  <2> QED BY <2>2, <2>3
<1>5. ASSUME NEW t \in Threads, EndSave(t) \/ SaveFails(t)
      PROVE  PauseInv'
  <2>1. PICK saved \in BOOLEAN : pc' = [pc EXCEPT ![t] = afterSave(t, saved)]
    BY <1>5 DEF EndSave, SaveFails, goto
  <2>2. Saving(t) /\ copy[t] \in Snapshot
    BY <1>0, <1>5, DurableAssumption DEF EndSave, SaveFails, TypeOK
  <2>3. /\ UNCHANGED <<decisions, copy, exit>>
        /\ \/ file' = file
           \/ file' = <<>>
           \/ file' = <<copy[t]>>
    BY <1>5 DEF EndSave, SaveFails, noStore
  <2>4. /\ told' \subseteq told \union {copy[t].status}
        /\ copy[t].status \in told' /\ copy[t].status \notin told => file' = <<copy[t]>>
    BY <1>5 DEF EndSave, SaveFails, answers
  <2>5. /\ afterSave(t, saved) \in {"executing", "done", "idle", "resaving"}
        /\ t = Runner /\ copy[t].status = "awaiting_approval" =>
               afterSave(t, saved) = "done"
    BY <1>0, <2>2 DEF afterSave, Saving, PauseInv
  <2>6. Saving(Runner)' /\ copy'[Runner].status = "awaiting_approval" =>
            pc'[Runner] = "saving" /\ exit'[Runner] = "ok"
    BY <1>0, <2>1, <2>3, <2>5 DEF PauseInv, Saving
  <2>7. CASE decisions # 0
    BY <2>3, <2>6, <2>7 DEF PauseInv
  <2>8. CASE decisions = 0
    <3>1. t = Runner /\ ~Paused /\ \A u \in Callers : pc'[u] = "idle"
      BY <1>0, <2>1, <2>2, <2>8 DEF PauseInv, Saving
    <3>2. Paused' => Stored({"awaiting_approval"})' /\ copy[t].status = "awaiting_approval"
      <4>1. CASE file' = <<copy[t]>>
        BY <2>4, <3>1, <4>1 DEF Paused, Stored
      <4>2. CASE file' # <<copy[t]>>
        BY <2>3, <2>4, <3>1, <4>2 DEF Paused, Stored
      <4> QED BY <4>1, <4>2
    <3>3. Paused' => pc'[Runner] = "done"
      BY <1>0, <2>1, <2>5, <3>1, <3>2
    <3> QED BY <2>6, <3>1, <3>2, <3>3 DEF PauseInv
  <2> QED BY <2>7, <2>8
<1>6. CASE GetSession
  <2>1. /\ UNCHANGED <<decisions, file, pc, copy, exit>>
        /\ file # <<>> /\ told' = told \union {file[1].status}
    BY <1>6 DEF GetSession, Readable, noStore
  <2>2. Paused' = Paused /\ Stored({"awaiting_approval"})' = Stored({"awaiting_approval"})
    BY <2>1 DEF Paused, Stored
  <2> QED BY <2>1, <2>2 DEF PauseInv, Saving
<1>7. CASE Crash
  <2>1. /\ pc' = [t \in Threads |-> IF t = Runner THEN "done" ELSE "idle"]
        /\ UNCHANGED <<decisions, file, told>>
    BY <1>7 DEF Crash
  <2> QED BY <1>0, <2>1, QuietPause DEF Saving
<1>8. CASE UNCHANGED vars
  BY <1>8, QuietPause DEF vars, PauseInv, Saving
<1> QED
  BY <1>0, <1>1, <1>2, <1>3, <1>4, <1>5, <1>6, <1>7, <1>8
     DEF Next, RunnerStep, WorkStep, SaveStep

\* A pause that was reported survives every crash, panic and failed write until
\* somebody decides.
THEOREM PauseKept == Spec => []PauseSurvives
<1>1. PauseInv => PauseSurvives
  BY DEF PauseInv, PauseSurvives, Paused
<1> QED
  BY <1>1, TypeInit, TypeStep, SignedInit, SignedStep, PauseInit, PauseStep, PTL
     DEF Spec

-----------------------------------------------------------------------------
(* Decisions taken one after the other.                                    *)

\* Nobody is at work on a session that has this outcome, except that the runner
\* may write the same once more.
AtRest(st) ==
    /\ file = <<>> \/ Stored({st})
    /\ \A t \in Callers : pc[t] = "idle"
    /\ \/ pc[Runner] = "done"
       \/ pc[Runner] = "resaving" /\ copy[Runner].status = st

\* Who decides finds the runner done and takes the session out of its pause;
\* without an overlap, one caller at a time.
TurnInv ==
    /\ decisions # 0 => pc[Runner] = "done"
    /\ \A t \in Callers :
           Busy(t) => decisions # 0 /\ copy[t].status # "awaiting_approval"
    /\ pc[Runner] = "creating" => copy[Runner].status = "pending"
    /\ ~overlapped => \A t, u \in Callers : Busy(t) /\ Busy(u) => t = u

\* An outcome that is stored, or was reported, is at rest.
RestInv ==
    ~overlapped =>
        \A st \in Terminal : st \in told \/ Stored({st}) => AtRest(st)

\* With no decision lost either, there is one at most, and it is under way as
\* long as the file still says that the session waits.
OnceInv ==
    /\ ~overlapped /\ ~lost =>
           /\ decisions <= 1
           /\ decisions = 1 /\ Stored({"awaiting_approval"}) =>
                  \E t \in Callers : Busy(t)
    /\ ~external =>
           runs <= 1 /\ (pc[Runner] \in {"creating", "executing"} => runs = 0)

\* Execute and Resume between two accesses to the store.
LEMMA LocalStep ==
    ASSUME TypeInv, SignedInv, NEW t \in Threads,
           (t = Runner /\ (FailEarly \/ Pause)) \/ WorkStep(t)
    PROVE  \E new \in Snapshot, place \in {"working", "saving", "done", "idle"} :
               /\ pc[t] \in {"executing", "resuming", "working"}
               /\ copy' = [copy EXCEPT ![t] = new]
               /\ pc' = [pc EXCEPT ![t] = place]
               /\ UNCHANGED <<external, file, decisions, told, overlapped>>
               /\ lost => lost'
               /\ t \in Callers =>
                      /\ place # "done" /\ (place = "idle" => lost')
                      /\ new.status = "awaiting_approval" =>
                             copy[t].status = "awaiting_approval"
               /\ t = Runner => place # "idle"
               /\ \/ runs' = runs
                  \/ runs' = runs + 1 /\ (t = Runner => pc[t] = "executing")
<1>0. /\ TypeOK /\ Runner \notin Callers /\ copy[t] \in Snapshot
      /\ copy \in [Threads -> Snapshot] /\ pc \in [Threads -> Places]
      /\ mode \in {"sync", "async"} /\ lost \in BOOLEAN
  BY DurableAssumption DEF TypeInv, TypeOK
<1>1. CASE \/ t = Runner /\ (FailEarly \/ Pause)
           \/ ExecutorNotFound(t) \/ RefuseResume(t) \/ Finish(t) \/ PanicWorking(t)
  <2>1. PICK how \in {"ok", "error", "panic"}, snap \in Snapshot : EndsWith(t, snap, how)
    BY <1>0, <1>1, EndingSteps
  <2>2. Ending(t, snap, how)
    BY <2>1 DEF EndsWith
  <2>3. PICK new \in Snapshot, place \in {"saving", "done", "idle"} :
               /\ copy' = [copy EXCEPT ![t] = new]
               /\ pc' = [pc EXCEPT ![t] = place]
               /\ \/ new = snap
                  \/ t = Runner /\ new = [snap EXCEPT !.status = "failed"]
               /\ place \in {"saving", IF t = Runner THEN "done" ELSE "idle"}
    BY <1>0, <2>2, EndingLeaves
  <2>4. /\ pc[t] \in {"executing", "resuming", "working"}
        /\ UNCHANGED <<external, file, decisions, told, overlapped, runs>>
    BY <2>2 DEF Ending, fixed, noStore, noHistory
  <2>5. lost => lost'
    BY <2>2 DEF Ending, ends
  <2>6. t \in Callers /\ place = "idle" => lost'
    <3>1. pc'[t] = place
      BY <1>0, <2>3
    <3>2. t \in Callers /\ how # "panic" => pc'[t] = "saving"
      BY <1>0, <2>2 DEF Ending, ends, goto
    <3> QED BY <2>2, <3>1, <3>2 DEF Ending, ends
  <2>7. t \in Callers /\ new.status = "awaiting_approval" =>
            copy[t].status = "awaiting_approval"
    BY <1>0, <2>1, <2>3 DEF EndsWith
  <2>8. (t \in Callers => place # "done") /\ (t = Runner => place # "idle")
    BY <1>0, <2>3
  <2> QED BY <2>3, <2>4, <2>5, <2>6, <2>7, <2>8
<1>2. CASE Enter(t)
  <2>1. /\ [copy[t] EXCEPT !.status = "running"] \in Snapshot
        /\ [copy[t] EXCEPT !.status = "running"].status = "running"
    BY <1>0, SnapshotFields DEF Statuses
  <2>2. /\ pc[t] \in {"executing", "resuming", "working"}
        /\ copy' = [copy EXCEPT ![t] = [copy[t] EXCEPT !.status = "running"]]
        /\ pc' = [pc EXCEPT ![t] = "working"]
        /\ UNCHANGED <<external, file, decisions, told, overlapped, lost>>
        /\ runs' = runs + 1 /\ (t = Runner => pc[t] = "executing")
    BY <1>0, <1>2 DEF Enter, mayEnter, goto, fixed, noStore, noHistory
  <2> QED BY <1>0, <2>1, <2>2
<1>3. CASE RecordEvidence(t)
  <2>1. copy'[t] \in Snapshot
    BY TypeStep, <1>3, <1>0 DEF TypeInv, TypeOK, Next, RunnerStep, WorkStep, Threads
  <2>2. PICK v \in Values :
            copy' = [copy EXCEPT ![t].evidence = Append(@, chained(@, v))]
    BY <1>3 DEF RecordEvidence
  <2>3. /\ copy' = [copy EXCEPT ![t] = copy'[t]]
        /\ copy'[t].status = copy[t].status
    BY <1>0, <2>2 DEF Snapshot
  <2>4. /\ pc[t] = "working" /\ pc' = [pc EXCEPT ![t] = "working"]
        /\ UNCHANGED <<external, file, decisions, told, overlapped, lost, runs>>
    BY <1>0, <1>3 DEF RecordEvidence, fixed, noStore, noHistory
  <2> QED BY <1>0, <2>1, <2>3, <2>4
<1> QED BY <1>1, <1>2, <1>3 DEF WorkStep

\* The end of a Save, in one form.
LEMMA SaveLeaves ==
    ASSUME TypeInv, NEW t \in Threads, EndSave(t) \/ SaveFails(t)
    PROVE  /\ Saving(t)
           /\ UNCHANGED <<external, copy, runs, decisions, overlapped>>
           /\ file' \in {file, <<>>, <<copy[t]>>}
           /\ told' \subseteq told \union {copy[t].status}
           /\ told' # told => file' = <<copy[t]>>
           /\ lost => lost'
           /\ t \in Callers /\ file' # <<copy[t]>> => lost'
           /\ \E place \in {"idle", "executing", "resaving", "done"} :
                  /\ pc' = [pc EXCEPT ![t] = place]
                  /\ t \in Callers => place = "idle"
                  /\ t = Runner =>
                         /\ place # "idle"
                         /\ place = "executing" <=> pc[t] = "creating" /\ place # "done"
                         /\ place = "resaving" => pc[t] = "saving"
<1>0. TypeOK /\ PlacesInv /\ Runner \notin Callers /\ lost \in BOOLEAN
  BY DurableAssumption DEF TypeInv, TypeOK
<1>1. Saving(t)
  BY <1>0, DurableAssumption DEF EndSave, SaveFails, TypeOK
<1>2. PICK saved \in BOOLEAN : pc' = [pc EXCEPT ![t] = afterSave(t, saved)]
  BY DEF EndSave, SaveFails, goto
<1>3. /\ UNCHANGED <<external, copy, runs, decisions, overlapped>>
      /\ file' \in {file, <<>>, <<copy[t]>>}
  BY DEF EndSave, SaveFails, fixed, noStore
<1>4. /\ told' \subseteq told \union {copy[t].status}
      /\ told' # told => file' = <<copy[t]>>
  BY DEF EndSave, SaveFails, answers
<1>5. /\ lost => lost'
      /\ t \in Callers /\ file' # <<copy[t]>> => lost'
  <2>1. CASE EndSave(t)
    BY <2>1 DEF EndSave
  <2>2. CASE SaveFails(t)
    <3>1. lost' = (lost \/ t \in Callers)
      BY <2>2 DEF SaveFails
    <3> QED BY <3>1, Zenon
  <2> QED BY <2>1, <2>2
<1>6. /\ afterSave(t, saved) \in {"idle", "executing", "resaving", "done"}
      /\ t \in Callers => afterSave(t, saved) = "idle"
      /\ t = Runner =>
             /\ afterSave(t, saved) # "idle"
             /\ afterSave(t, saved) = "executing"
                    <=> pc[t] = "creating" /\ afterSave(t, saved) # "done"
             /\ afterSave(t, saved) = "resaving" => pc[t] = "saving"
  BY <1>0, <1>1 DEF afterSave, Saving, Threads, PlacesInv
<1> QED BY <1>1, <1>2, <1>3, <1>4, <1>5, <1>6

LEMMA TurnStep ==
    ASSUME TypeInv, SignedInv, PauseInv, TurnInv, [Next]_vars
    PROVE  TurnInv'
<1>0. /\ PlacesInv /\ Runner \notin Callers /\ decisions \in Nat
      /\ Runner \in Threads /\ Callers \subseteq Threads
      /\ \A t \in Threads : t # Runner => t \in Callers
      /\ pc \in [Threads -> Places] /\ copy \in [Threads -> Snapshot]
  BY DurableAssumption DEF TypeInv, TypeOK, Threads
<1>1. ASSUME NEW t \in Threads, (t = Runner /\ (FailEarly \/ Pause)) \/ WorkStep(t)
      PROVE  TurnInv'
  <2>1. PICK new \in Snapshot, place \in {"working", "saving", "done", "idle"} :
               /\ pc[t] \in {"executing", "resuming", "working"}
               /\ copy' = [copy EXCEPT ![t] = new]
               /\ pc' = [pc EXCEPT ![t] = place]
               /\ UNCHANGED <<decisions, overlapped>>
               /\ t \in Callers =>
                      /\ place # "done"
                      /\ new.status = "awaiting_approval" =>
                             copy[t].status = "awaiting_approval"
    BY <1>1, LocalStep
  <2>2. \A u \in Callers : Busy(u)' => Busy(u)
    BY <1>0, <2>1 DEF Busy
  <2>3. \A u \in Callers : copy'[u].status = "awaiting_approval" =>
                               copy[u].status = "awaiting_approval"
    BY <1>0, <2>1
  <2>4. /\ pc[Runner] = "done" => pc'[Runner] = "done"
        /\ pc'[Runner] = "creating" => pc[Runner] = "creating" /\ copy'[Runner] = copy[Runner]
    BY <1>0, <2>1
  <2> QED BY <2>1, <2>2, <2>3, <2>4 DEF TurnInv
<1>2. ASSUME NEW t \in Threads, EndSave(t) \/ SaveFails(t)
      PROVE  TurnInv'
  <2>1. /\ Saving(t) /\ UNCHANGED <<copy, decisions, overlapped>>
        /\ \E place \in {"idle", "executing", "resaving", "done"} :
               /\ pc' = [pc EXCEPT ![t] = place]
               /\ t \in Callers => place = "idle"
    BY <1>2, SaveLeaves
  <2>2. /\ \A u \in Callers : Busy(u)' => Busy(u)
        /\ pc[Runner] = "done" => pc'[Runner] = "done"
        /\ pc'[Runner] = "creating" => pc[Runner] = "creating"
    BY <1>0, <2>1 DEF Busy, Saving
  <2> QED BY <2>1, <2>2 DEF TurnInv
<1>3. ASSUME NEW t \in Callers, ApproveSession(t) \/ RejectSession(t)
      PROVE  TurnInv'
  <2>1. PICK st \in {"running", "rejected"}, place \in {"resuming", "saving"} :
            decides(t, st, place)
    BY <1>3 DEF ApproveSession, RejectSession
  <2>2. PICK p \in Principals :
            copy' = [copy EXCEPT ![t] = [SessionFromSnapshot(file[1]) EXCEPT
                                            !.status = st, !.approver = p]]
    BY <2>1 DEF decides
  <2>3. /\ Stored({"awaiting_approval"}) /\ pc' = [pc EXCEPT ![t] = place]
        /\ decisions' = decisions + 1
        /\ overlapped' = (overlapped \/ \E u \in Callers : Busy(u))
    BY <2>1 DEF decides, goto, Readable, awaitsDecision, Stored
  <2>4. SessionFromSnapshot(file[1]) \in Snapshot
    <3>1. file[1] \in Snapshot
      BY <2>3, EmptySeq DEF TypeInv, TypeOK, Stored
    <3> QED BY <2>3, <3>1, ReloadedTyped DEF TypeInv, Marshalled, Stored
  <2>5. copy'[t].status = st /\ \A u \in Threads : u # t => copy'[u] = copy[u]
    BY <1>0, <2>2, <2>4 DEF Snapshot
  <2>6. pc[Runner] = "done"
    BY <1>0, <2>3 DEF PauseInv, TurnInv, Paused
  <2>7. /\ decisions' # 0 /\ pc'[Runner] = "done"
        /\ \A u \in Callers : u # t => pc'[u] = pc[u]
    BY <1>0, <2>3, <2>6
  <2>8. \A u \in Callers : Busy(u)' =>
            decisions' # 0 /\ copy'[u].status # "awaiting_approval"
    BY <1>0, <2>5, <2>7 DEF TurnInv, Busy
  <2>9. ~overlapped' => \A u, v \in Callers : Busy(u)' /\ Busy(v)' => u = v
    BY <2>3, <2>7 DEF Busy
  <2> QED BY <2>7, <2>8, <2>9 DEF TurnInv
<1>4. ASSUME NEW t \in Threads, BeginSave(t)
      PROVE  TurnInv'
  BY <1>4 DEF BeginSave, noHistory, TurnInv, Busy
<1>5. CASE GetSession \/ UNCHANGED vars
  BY <1>5 DEF GetSession, vars, TurnInv, Busy
<1>6. CASE Crash
  <2>1. /\ pc' = [t \in Threads |-> IF t = Runner THEN "done" ELSE "idle"]
    BY <1>6 DEF Crash
  <2> QED BY <1>0, <2>1 DEF TurnInv, Busy
<1> QED
  BY <1>0, <1>1, <1>2, <1>3, <1>4, <1>5, <1>6
     DEF Next, RunnerStep, WorkStep, SaveStep

LEMMA RestStep ==
    ASSUME TypeInv, SignedInv, PauseInv, TurnInv, RestInv, [Next]_vars
    PROVE  RestInv'
<1>0. /\ PlacesInv /\ Runner \notin Callers
      /\ Runner \in Threads /\ Callers \subseteq Threads
      /\ \A t \in Threads : t # Runner => t \in Callers
      /\ pc \in [Threads -> Places] /\ copy \in [Threads -> Snapshot]
  BY DurableAssumption DEF TypeInv, TypeOK, Threads
<1>1. SUFFICES ASSUME ~overlapped', NEW st \in Terminal,
                      st \in told' \/ Stored({st})'
               PROVE  AtRest(st)'
  BY DEF RestInv
\* A step that tells nothing new, and that a session at rest stays at rest in.
<1>2. ASSUME ~overlapped, UNCHANGED told, Stored({st})' => Stored({st}),
             AtRest(st) => AtRest(st)'
      PROVE  AtRest(st)'
  BY <1>1, <1>2 DEF RestInv
<1>3. ASSUME NEW t \in Threads, (t = Runner /\ (FailEarly \/ Pause)) \/ WorkStep(t)
      PROVE  AtRest(st)'
  <2>1. /\ pc[t] \in {"executing", "resuming", "working"}
        /\ UNCHANGED <<file, told, overlapped>>
    BY <1>3, LocalStep
  <2>2. ~AtRest(st)
    BY <1>0, <2>1 DEF AtRest
  <2> QED BY <1>1, <1>2, <2>1, <2>2 DEF Stored
<1>4. ASSUME NEW t \in Threads, EndSave(t) \/ SaveFails(t)
      PROVE  AtRest(st)'
  <2>1. /\ Saving(t) /\ UNCHANGED <<copy, decisions, overlapped>>
        /\ file' \in {file, <<>>, <<copy[t]>>}
        /\ told' \subseteq told \union {copy[t].status}
        /\ told' # told => file' = <<copy[t]>>
    BY <1>4, SaveLeaves
  <2>2. PICK place \in {"idle", "executing", "resaving", "done"} :
               /\ pc' = [pc EXCEPT ![t] = place]
               /\ t \in Callers => place = "idle"
               /\ t = Runner =>
                      /\ place # "idle"
                      /\ place = "executing" <=> pc[t] = "creating" /\ place # "done"
    BY <1>4, SaveLeaves
  \* An outcome that was at rest before is written once more, by the runner.
  <2>3. CASE AtRest(st)
    <3>1. /\ t = Runner /\ pc[t] = "resaving" /\ copy[t].status = st
          /\ pc' = [pc EXCEPT ![Runner] = place] /\ place \in {"done", "resaving"}
      BY <1>0, <2>1, <2>2, <2>3 DEF AtRest, Saving
    <3>2. (file = <<>> \/ Stored({st}))'
      BY <2>1, <2>3, <3>1 DEF AtRest, Stored
    <3> QED BY <1>0, <2>1, <2>3, <3>1, <3>2 DEF AtRest
  \* Otherwise it comes to rest with this write.
  <2>4. CASE ~AtRest(st)
    <3>1. ~(st \in told \/ Stored({st}))
      BY <1>1, <2>1, <2>4 DEF RestInv
    <3>2. file' = <<copy[t]>> /\ copy[t].status = st
      BY <1>1, <2>1, <3>1 DEF Stored
    <3>3. Stored({st})'
      BY <3>2 DEF Stored
    <3>4. CASE t \in Callers
      <4>1. Busy(t) /\ pc[Runner] = "done" /\ \A u \in Callers : u # t => pc[u] = "idle"
        BY <1>1, <2>1, <3>4 DEF TurnInv, Busy, Saving
      <4> QED BY <1>0, <2>2, <3>3, <3>4, <4>1 DEF AtRest
    <3>5. CASE t = Runner
      <4>1. \A u \in Callers : pc[u] = "idle"
        BY <2>1, <3>5 DEF TurnInv, PauseInv, Saving
      <4>2. pc[Runner] # "creating"
        BY <3>2, <3>5 DEF TurnInv, Terminal
      <4>3. place \in {"done", "resaving"}
        BY <2>2, <3>5, <4>2
      <4> QED BY <1>0, <2>1, <2>2, <3>2, <3>3, <3>5, <4>1, <4>3 DEF AtRest
    <3> QED BY <1>0, <3>4, <3>5
  <2> QED BY <2>3, <2>4
<1>5. ASSUME NEW t \in Callers, ApproveSession(t) \/ RejectSession(t)
      PROVE  AtRest(st)'
  <2>1. PICK decision \in {"running", "rejected"}, place \in {"resuming", "saving"} :
            decides(t, decision, place)
    BY <1>5 DEF ApproveSession, RejectSession
  <2>2. /\ file # <<>> /\ file[1].status = "awaiting_approval"
        /\ UNCHANGED <<file, told>> /\ ~overlapped
    BY <1>1, <2>1 DEF decides, Readable, awaitsDecision, noStore
  <2>3. ~AtRest(st)
    BY <2>2 DEF AtRest, Stored, Terminal
  <2> QED BY <1>2, <2>2, <2>3 DEF Stored
<1>6. ASSUME NEW t \in Threads, BeginSave(t)
      PROVE  AtRest(st)'
  <2>1. file' = <<>> /\ UNCHANGED <<told, pc, copy, overlapped>>
    BY <1>6 DEF BeginSave, noHistory
  <2> QED BY <1>1, <1>2, <2>1 DEF AtRest, Stored
<1>7. CASE GetSession
  <2>1. /\ file # <<>> /\ told' = told \union {file[1].status}
        /\ UNCHANGED <<file, pc, copy, overlapped>>
    BY <1>7 DEF GetSession, Readable, noStore
  <2>2. st \in told \/ Stored({st})
    BY <1>1, <2>1 DEF Stored
  <2>3. AtRest(st)
    BY <1>1, <2>1, <2>2 DEF RestInv
  <2> QED BY <2>1, <2>3 DEF AtRest, Stored
<1>8. CASE Crash
  <2>1. /\ pc' = [t \in Threads |-> IF t = Runner THEN "done" ELSE "idle"]
        /\ UNCHANGED <<file, told, overlapped>>
    BY <1>8 DEF Crash
  <2> QED BY <1>0, <1>1, <1>2, <2>1 DEF AtRest, Stored
<1>9. CASE UNCHANGED vars
  <2>1. UNCHANGED <<file, told, overlapped, pc, copy>>
    BY <1>9 DEF vars
  <2> QED BY <1>1, <1>2, <2>1 DEF AtRest, Stored
<1> QED
  BY <1>0, <1>3, <1>4, <1>5, <1>6, <1>7, <1>8, <1>9
     DEF Next, RunnerStep, WorkStep, SaveStep

LEMMA OnceStep ==
    ASSUME TypeInv, SignedInv, PauseInv, TurnInv, OnceInv, [Next]_vars
    PROVE  OnceInv'
<1>0. /\ PlacesInv /\ Runner \notin Callers /\ decisions \in Nat /\ runs \in Nat
      /\ Runner \in Threads /\ Callers \subseteq Threads
      /\ \A t \in Threads : t # Runner => t \in Callers
      /\ pc \in [Threads -> Places] /\ lost \in BOOLEAN
  BY DurableAssumption DEF TypeInv, TypeOK, Threads
<1> DEFINE Under == Stored({"awaiting_approval"}) => \E u \in Callers : Busy(u)
\* A step that decides nothing and enters no executor.
<1>1. ASSUME UNCHANGED <<external, runs, decisions, overlapped>>, lost => lost',
             pc'[Runner] \in {"creating", "executing"} =>
                 pc[Runner] \in {"creating", "executing"},
             decisions # 0 /\ ~lost' /\ Under => Under'
      PROVE  OnceInv'
  BY <1>0, <1>1 DEF OnceInv
<1>2. ASSUME NEW t \in Threads, (t = Runner /\ (FailEarly \/ Pause)) \/ WorkStep(t)
      PROVE  OnceInv'
  <2>1. PICK place \in {"working", "saving", "done", "idle"} :
               /\ pc[t] \in {"executing", "resuming", "working"}
               /\ pc' = [pc EXCEPT ![t] = place]
               /\ UNCHANGED <<external, file, decisions, overlapped>>
               /\ lost => lost'
               /\ t \in Callers => place # "done" /\ (place = "idle" => lost')
               /\ \/ runs' = runs
                  \/ runs' = runs + 1 /\ (t = Runner => pc[t] = "executing")
    BY <1>2, LocalStep
  <2>2. /\ pc'[t] = place /\ \A u \in Threads : u # t => pc'[u] = pc[u]
    BY <1>0, <2>1
  <2>3. decisions # 0 /\ ~lost' /\ Under => Under'
    <3>1. \A u \in Callers : Busy(u) /\ ~lost' => Busy(u)'
      BY <1>0, <2>1, <2>2 DEF Busy
    <3> QED BY <2>1, <3>1 DEF Stored
  <2>4. CASE t \in Callers
    <3>1. external
      BY <2>1, <2>4 DEF SignedInv
    <3> QED BY <1>0, <2>1, <2>3, <3>1 DEF OnceInv
  <2>5. CASE t = Runner
    <3>1. pc'[Runner] \notin {"creating", "executing"}
      BY <2>2, <2>5
    <3>2. ~external' => runs' <= 1
      BY <1>0, <2>1, <2>5 DEF OnceInv
    <3> QED BY <1>0, <2>1, <2>3, <3>1, <3>2 DEF OnceInv
  <2> QED BY <1>0, <2>4, <2>5
<1>3. ASSUME NEW t \in Threads, EndSave(t) \/ SaveFails(t)
      PROVE  OnceInv'
  <2>1. /\ Saving(t) /\ UNCHANGED <<external, runs, decisions, overlapped>>
        /\ lost => lost'
        /\ t \in Callers /\ file' # <<copy[t]>> => lost'
    BY <1>3, SaveLeaves
  <2>2. PICK place \in {"idle", "executing", "resaving", "done"} :
               /\ pc' = [pc EXCEPT ![t] = place]
               /\ t \in Callers => place = "idle"
               /\ t = Runner =>
                      place = "executing" <=> pc[t] = "creating" /\ place # "done"
    BY <1>3, SaveLeaves
  <2>3. pc'[Runner] \in {"creating", "executing"} =>
            pc[Runner] \in {"creating", "executing"}
    BY <1>0, <2>2
  <2>4. decisions # 0 /\ ~lost' => ~Stored({"awaiting_approval"})'
    <3> SUFFICES ASSUME decisions # 0, ~lost'
                 PROVE  ~Stored({"awaiting_approval"})'
      OBVIOUS
    <3>1. t \in Callers
      BY <1>0, <2>1 DEF TurnInv, Saving
    <3>2. file' = <<copy[t]>> /\ copy[t].status # "awaiting_approval"
      BY <2>1, <3>1 DEF TurnInv, Busy, Saving
    <3> QED BY <3>2 DEF Stored
  <2> QED BY <1>1, <2>1, <2>3, <2>4
<1>4. ASSUME NEW t \in Callers, ApproveSession(t) \/ RejectSession(t)
      PROVE  OnceInv'
  <2>1. PICK st \in {"running", "rejected"}, place \in {"resuming", "saving"} :
            decides(t, st, place)
    BY <1>4 DEF ApproveSession, RejectSession
  <2>2. /\ Stored({"awaiting_approval"}) /\ pc' = [pc EXCEPT ![t] = place]
        /\ decisions' = decisions + 1 /\ UNCHANGED <<lost, external>>
        /\ overlapped' = (overlapped \/ \E u \in Callers : Busy(u))
    BY <2>1 DEF decides, goto, Readable, awaitsDecision, Stored, fixed
  <2>3. external
    BY <2>2 DEF SignedInv, Signed, Stored
  <2>4. Busy(t)'
    BY <1>0, <2>2 DEF Busy
  <2>5. ~overlapped' /\ ~lost' => decisions = 0
    <3>1. ~overlapped' => ~overlapped /\ ~\E u \in Callers : Busy(u)
      BY <2>2, Zenon
    <3> QED BY <1>0, <2>2, <3>1 DEF OnceInv
  <2> QED BY <1>0, <2>2, <2>3, <2>4, <2>5 DEF OnceInv
<1>5. ASSUME NEW t \in Threads, BeginSave(t)
      PROVE  OnceInv'
  <2>1. /\ file' = <<>>
        /\ UNCHANGED <<external, runs, decisions, overlapped, lost, pc>>
    BY <1>5 DEF BeginSave, fixed, noHistory
  <2> QED BY <1>1, <2>1 DEF Stored
<1>6. CASE GetSession \/ UNCHANGED vars
  <2>1. UNCHANGED <<external, runs, decisions, overlapped, lost, pc, file>>
    BY <1>6 DEF GetSession, fixed, noStore, vars
  <2> QED BY <1>1, <2>1 DEF Stored, Busy
<1>7. CASE Crash
  <2>1. /\ pc' = [t \in Threads |-> IF t = Runner THEN "done" ELSE "idle"]
        /\ UNCHANGED <<external, runs, decisions, overlapped, file>>
        /\ lost' = (lost \/ \E u \in Callers : Busy(u))
    BY <1>7 DEF Crash, fixed
  <2>2. /\ lost => lost'
        /\ (\E u \in Callers : Busy(u)) => lost'
    BY <2>1, Zenon
  <2>3. pc'[Runner] = "done"
    BY <1>0, <2>1
  <2> QED BY <1>1, <2>1, <2>2, <2>3 DEF Stored
<1> QED
  BY <1>0, <1>2, <1>3, <1>4, <1>5, <1>6, <1>7
     DEF Next, RunnerStep, WorkStep, SaveStep

LEMMA TurnsHold == Spec => [](TypeInv /\ TurnInv /\ RestInv /\ OnceInv)
<1>1. Init => TurnInv /\ RestInv /\ OnceInv
  <2> SUFFICES ASSUME Init
               PROVE  TurnInv /\ RestInv /\ OnceInv
    OBVIOUS
  <2>1. /\ \A t \in Callers : ~Busy(t)
        /\ copy[Runner].status = "pending"
    BY DurableAssumption DEF Init, Busy, Threads, NewExecutionSession
  <2> QED BY <2>1 DEF Init, TurnInv, RestInv, OnceInv, Stored
<1> QED
  BY <1>1, TypeInit, TypeStep, SignedInit, SignedStep, PauseInit, PauseStep,
     TurnStep, RestStep, OnceStep, PTL DEF Spec

\* However many decide, and whatever crashes: an action runs again only if two
\* decided at the same time, or if a decision was lost.
THEOREM RunsAgainOnlyIfLost == Spec => []RepeatedRunExplained
<1>1. TypeInv /\ EntriesInv /\ OnceInv => RepeatedRunExplained
  <2> SUFFICES ASSUME TypeInv, EntriesInv, OnceInv, ~overlapped, ~lost
               PROVE  ~(runs > 1)
    BY DEF RepeatedRunExplained
  <2>1. runs \in Nat /\ decisions \in Nat /\ Cardinality(Resuming) \in Nat
    BY DurableAssumption, FS_CardinalityType DEF TypeInv, TypeOK, EntriesInv
  <2> QED BY <2>1 DEF EntriesInv, OnceInv
<1> QED BY <1>1, Gate, TurnsHold, PTL

\* Among decisions taken one after the other, an outcome once reported is the
\* outcome in the store.
THEOREM AnswersKept == Spec => []AnswersStay
<1>1. RestInv => AnswersStay
  BY DEF RestInv, AnswersStay, AtRest, Stored
<1> QED BY <1>1, TurnsHold, PTL
=============================================================================
