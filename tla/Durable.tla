------------------------------- MODULE Durable -------------------------------
(***************************************************************************)
(* One session in the snapshot store: the use cases of                     *)
(* application/execute_action.go over jsonstore.SessionStore, which keeps  *)
(* one JSON file per session, and a process that may crash and restart.    *)
(*                                                                         *)
(* Unlike the in-memory repository of module Execution, Get gives every    *)
(* caller a copy of its own, so the aggregate's mutex protects nobody from *)
(* anybody and decisions meet only in the file.  What a goroutine does to  *)
(* its copy is local; a step here is an access to the file, the entry of   *)
(* the executor, or the local computation up to the next of these.  The    *)
(* store's lock is held during an access; a write has two steps, because   *)
(* os.WriteFile truncates before it writes and a crash may come between.   *)
(***************************************************************************)
EXTENDS Evidence

CONSTANTS
    Runner,         \* the goroutine executing the session
    Callers,        \* goroutines calling ApproveSession and RejectSession
    Nobody,         \* holder of the store's lock when no write is under way
    Principals,     \* who may sign an ApprovalDecision
    NoPrincipal,    \* no decision
    Reloaded(_),    \* what json.Unmarshal makes of a payload's JSON
    MaxEvidence,    \* bound: evidence records the session holds
    MaxDecisions,   \* bound: decisions accepted on copies of the session
    MaxCrashes      \* bound: crashes of the process

Threads == {Runner} \union Callers

ASSUME DurableAssumption ==
    /\ Runner \notin Callers
    /\ Nobody \notin Threads
    /\ NoPrincipal \notin Principals
    /\ Encodable \subseteq Values
    /\ NoHash \in Hashes
    /\ \A v \in Values, h \in Hashes : Hash(v, h) \in Hashes \ {NoHash}
    /\ \A v \in Encodable : Reloaded(v) \in Encodable
    /\ MaxEvidence \in Nat /\ MaxDecisions \in Nat /\ MaxCrashes \in Nat

VARIABLES
    mode,           \* "sync" or "async"
    external,       \* the action has external write effects
    file,           \* <<snapshot>>, or <<>>: nothing that can be read
    writer,         \* the goroutine in the middle of a write, or Nobody
    pc,             \* where each goroutine is
    copy,           \* the session each goroutine works on
    exit,           \* how the last Execute or Resume of a goroutine ended
    runs,           \* history: how often the executor was entered
    decisions,      \* history: Approve and Reject accepted on some copy
    told,           \* history: statuses reported to callers and pollers
    overlapped,     \* history: two callers have decided at the same time
    lost,           \* history: a decision was lost by a crash, a panic or a Save
    saveFailed,     \* history: a Save has failed
    crashes         \* history: crashes so far

vars == <<mode, external, file, writer, pc, copy, exit, runs, decisions, told,
          overlapped, lost, saveFailed, crashes>>

Terminal == {"succeeded", "failed", "rejected"}

Statuses == {"pending", "validated", "resolved", "awaiting_approval",
             "running"} \union Terminal

\* The fields of a session that a SessionSnapshot carries and this module
\* needs.
Snapshot == [status : Statuses, approver : Principals \union {NoPrincipal},
             evidence : Seq(EvidenceRecord)]

NewExecutionSession ==
    [status |-> "pending", approver |-> NoPrincipal, evidence |-> <<>>]

\* json.MarshalIndent accepts a snapshot.
marshals(snap) ==
    \A i \in DOMAIN snap.evidence : snap.evidence[i].value \in Encodable

\* Through the file and back, a payload becomes what json.Unmarshal makes of
\* it: a struct comes back as a map, hashes and statuses as they were.
SessionFromSnapshot(snap) ==
    [snap EXCEPT !.evidence =
        [i \in DOMAIN snap.evidence |->
            [snap.evidence[i] EXCEPT !.value = Reloaded(@)]]]

\* ExecuteAsync persists the pending session first; Execute begins to work.
Init ==
    /\ mode \in {"sync", "async"}
    /\ external \in BOOLEAN
    /\ file = <<>>
    /\ writer = Nobody
    /\ pc = [t \in Threads |->
                IF t # Runner THEN "idle"
                ELSE IF mode = "async" THEN "creating" ELSE "executing"]
    /\ copy = [t \in Threads |-> NewExecutionSession]
    /\ exit = [t \in Threads |-> "ok"]
    /\ runs = 0
    /\ decisions = 0
    /\ told = {}
    /\ overlapped = FALSE
    /\ lost = FALSE
    /\ saveFailed = FALSE
    /\ crashes = 0

-----------------------------------------------------------------------------
(* Execute, Resume and run on a goroutine's own copy.                      *)

fixed == UNCHANGED <<mode, external>>
noStore == UNCHANGED <<file, writer>>
noHistory == UNCHANGED <<decisions, told, overlapped, saveFailed, crashes>>

goto(t, place) == pc' = [pc EXCEPT ![t] = place]

\* What ExecuteAsync makes of the session when Execute has failed or panicked.
leavesUnsettled(snap, how) == snap      \* mutant
settled(snap, how) ==
    IF \/ how = "ok" \/ snap.status \in Terminal
       \/ how = "error" /\ snap.status = "awaiting_approval"
    THEN snap
    ELSE [snap EXCEPT !.status = "failed"]

endsUnsaved(t, snap, how) ==     \* mutant: an approval that is not saved
    /\ exit' = [exit EXCEPT ![t] = how]
    /\ copy' = [copy EXCEPT ![t] = settled(snap, how)]
    /\ goto(t, IF t = Runner THEN "saving" ELSE "idle")
    /\ UNCHANGED lost

\* Execute or Resume has ended with snap.  A panic passes through Execute
\* and ApproveSession, which then save nothing; ExecuteAsync recovers it.
ends(t, snap, how) ==
    /\ exit' = [exit EXCEPT ![t] = how]
    /\ \/ /\ t = Runner /\ mode = "async"
          /\ copy' = [copy EXCEPT ![t] = settled(snap, how)]
          /\ goto(t, "saving")
       \/ /\ t # Runner \/ mode = "sync"
          /\ how # "panic"
          /\ copy' = [copy EXCEPT ![t] = snap]
          /\ goto(t, "saving")
       \/ /\ t # Runner \/ mode = "sync"
          /\ how = "panic"
          /\ copy' = [copy EXCEPT ![t] = snap]
          /\ goto(t, IF t = Runner THEN "done" ELSE "idle")
    /\ lost' = (lost \/ (t \in Callers /\ how = "panic"))

\* Execute up to run, and the part of run before Running: rate limit, lookup,
\* validation, resolution.  Once resolved, a gated action goes on to its gate.
FailEarly ==
    /\ pc[Runner] = "executing"
    /\ \E st \in {"pending", "validated", "resolved"}, how \in {"error", "panic"} :
           /\ st = "resolved" => ~external
           /\ ends(Runner, [copy[Runner] EXCEPT !.status = st], how)
    /\ fixed /\ noStore /\ noHistory /\ UNCHANGED runs

\* The gate: an external write pauses.  The deferred drain may panic.
Pause ==
    /\ pc[Runner] = "executing"
    /\ external
    /\ \E how \in {"ok", "panic"} :
           ends(Runner, [copy[Runner] EXCEPT !.status = "awaiting_approval"], how)
    /\ fixed /\ noStore /\ noHistory /\ UNCHANGED runs

\* run, up to the executor: from Execute without a gate, or from Resume.
entersUngated(t) ==      \* mutant
    \/ t = Runner /\ pc[t] = "executing"
    \/ t \in Callers /\ pc[t] = "resuming"
mayEnter(t) ==
    \/ t = Runner /\ pc[t] = "executing" /\ ~external
    \/ t \in Callers /\ pc[t] = "resuming"

Enter(t) ==
    /\ mayEnter(t)
    /\ copy' = [copy EXCEPT ![t].status = "running"]
    /\ runs' = runs + 1
    /\ goto(t, "working")
    /\ fixed /\ noStore /\ noHistory /\ UNCHANGED <<exit, lost>>

\* No executor is registered under the action's binding.
ExecutorNotFound(t) ==
    /\ mayEnter(t)
    /\ \E how \in {"error", "panic"} :
           ends(t, [copy[t] EXCEPT !.status = "failed"], how)
    /\ fixed /\ noStore /\ noHistory /\ UNCHANGED runs

\* Resume: rate limited, or an action this process does not know.
RefuseResume(t) ==
    /\ pc[t] = "resuming"
    /\ \E how \in {"error", "panic"} : ends(t, copy[t], how)
    /\ fixed /\ noStore /\ noHistory /\ UNCHANGED runs

RecordEvidence(t) ==
    /\ pc[t] = "working"
    /\ Len(copy[t].evidence) < MaxEvidence
    /\ \E v \in Values :
           copy' = [copy EXCEPT ![t].evidence = Append(@, chained(@, v))]
    /\ fixed /\ noStore /\ noHistory /\ UNCHANGED <<pc, exit, runs, lost>>

\* The executor's answer settles the copy, unless plugin code panics before,
\* or the publisher after.
Finish(t) ==
    /\ pc[t] = "working"
    /\ \E st \in {"succeeded", "failed"}, how \in {"ok", "panic"} :
           ends(t, [copy[t] EXCEPT !.status = st], how)
    /\ fixed /\ noStore /\ noHistory /\ UNCHANGED runs

PanicWorking(t) ==
    /\ pc[t] = "working"
    /\ ends(t, copy[t], "panic")
    /\ fixed /\ noStore /\ noHistory /\ UNCHANGED runs

-----------------------------------------------------------------------------
(* The store.                                                              *)

Saving(t) == pc[t] \in {"creating", "saving", "resaving"}

\* A call reports the status of its copy once it is stored, and an error
\* after an Execute or Resume that failed.
answers(t) ==
    told' = told \union
        (IF pc[t] = "saving" /\ exit[t] = "ok" /\ (t # Runner \/ mode = "sync")
         THEN {copy[t].status} ELSE {})

answersBeforeStoring(t) ==     \* mutant
    /\ Saving(t) /\ writer = Nobody /\ marshals(copy[t])
    /\ writer' = t
    /\ file' = <<>>
    /\ answers(t)
    /\ fixed
    /\ UNCHANGED <<pc, copy, exit, runs, decisions, overlapped, lost,
                   saveFailed, crashes>>

\* Save: marshal, open and truncate, under the store's lock.
BeginSave(t) ==
    /\ Saving(t)
    /\ writer = Nobody
    /\ marshals(copy[t])
    /\ writer' = t
    /\ file' = <<>>
    /\ fixed /\ noHistory /\ UNCHANGED <<pc, copy, exit, runs, lost>>

\* Where a goroutine goes on from a Save.  The background goroutine saves
\* again, deferred, after an error; it never looks at what Save returned.
afterSave(t, saved) ==
    CASE pc[t] = "creating" -> IF saved THEN "executing" ELSE "done"
      [] pc[t] = "saving" /\ t = Runner ->
             IF mode = "async" /\ exit[t] = "error" THEN "resaving" ELSE "done"
      [] pc[t] = "saving" /\ t # Runner -> "idle"
      [] pc[t] = "resaving" -> "done"

EndSave(t) ==
    /\ writer = t
    /\ writer' = Nobody
    /\ file' = <<copy[t]>>
    /\ goto(t, afterSave(t, TRUE))
    /\ answers(t)
    /\ fixed
    /\ UNCHANGED <<copy, exit, runs, decisions, overlapped, lost, saveFailed,
                   crashes>>

\* A Save that returns an error: a payload that cannot be marshalled or a
\* file that cannot be opened, with the old content kept; or a write that
\* ends early.
SaveFails(t) ==
    /\ \/ /\ Saving(t) /\ writer = Nobody
          /\ noStore
       \/ /\ writer = t
          /\ writer' = Nobody
          /\ file' \in {<<>>, <<copy[t]>>}
    /\ goto(t, afterSave(t, FALSE))
    /\ saveFailed' = TRUE
    /\ lost' = (lost \/ t \in Callers)
    /\ fixed
    /\ UNCHANGED <<copy, exit, runs, decisions, told, overlapped, crashes>>

-----------------------------------------------------------------------------
(* The callers.                                                            *)

Readable == writer = Nobody /\ file # <<>>

Busy(t) == t \in Callers /\ pc[t] # "idle"

\* Get and the decision on the copy it returned.  A refused decision changes
\* nothing.
retriesFailed(snap) == snap.status \in {"awaiting_approval", "failed"}   \* mutant
awaitsDecision(snap) == snap.status = "awaiting_approval"

decides(t, st, place) ==
    /\ pc[t] = "idle"
    /\ Readable
    /\ awaitsDecision(file[1])
    /\ decisions < MaxDecisions
    /\ \E p \in Principals :
           copy' = [copy EXCEPT ![t] = [SessionFromSnapshot(file[1]) EXCEPT
                                           !.status = st, !.approver = p]]
    /\ exit' = [exit EXCEPT ![t] = "ok"]
    /\ goto(t, place)
    /\ decisions' = decisions + 1
    /\ overlapped' = (overlapped \/ \E u \in Callers : Busy(u))
    /\ fixed /\ noStore
    /\ UNCHANGED <<runs, told, lost, saveFailed, crashes>>

ApproveSession(t) == decides(t, "running", "resuming")
RejectSession(t) == decides(t, "rejected", "saving")

\* GetSession, as a poller calls it.
GetSession ==
    /\ Readable
    /\ told' = told \union {file[1].status}
    /\ fixed /\ noStore
    /\ UNCHANGED <<pc, copy, exit, runs, decisions, overlapped, lost,
                   saveFailed, crashes>>

\* The process dies, in the middle of a write or not, and a new one opens the
\* same directory: what was in memory is gone.
Crash ==
    /\ crashes < MaxCrashes
    /\ crashes' = crashes + 1
    /\ writer' = Nobody
    /\ pc' = [t \in Threads |-> IF t = Runner THEN "done" ELSE "idle"]
    /\ copy' = [t \in Threads |-> NewExecutionSession]
    /\ exit' = [t \in Threads |-> "ok"]
    /\ lost' = (lost \/ \E t \in Callers : Busy(t))
    /\ fixed
    /\ UNCHANGED <<file, runs, decisions, told, overlapped, saveFailed>>

WorkStep(t) ==
    \/ Enter(t) \/ ExecutorNotFound(t) \/ RefuseResume(t)
    \/ RecordEvidence(t) \/ Finish(t) \/ PanicWorking(t)

SaveStep(t) == BeginSave(t) \/ EndSave(t) \/ SaveFails(t)

RunnerStep == FailEarly \/ Pause \/ WorkStep(Runner) \/ SaveStep(Runner)

Next ==
    \/ RunnerStep
    \/ \E t \in Callers :
           ApproveSession(t) \/ RejectSession(t) \/ WorkStep(t) \/ SaveStep(t)
    \/ GetSession
    \/ Crash

Spec == Init /\ [][Next]_vars

\* The scheduler runs every goroutine, plugin code returns, and writes end;
\* nothing is assumed of people or of crashes.
FairSpec ==
    /\ Spec
    /\ WF_vars(RunnerStep)
    /\ \A t \in Callers : WF_vars(WorkStep(t) \/ SaveStep(t))

-----------------------------------------------------------------------------
(* Correctness.                                                            *)

Places == {"idle", "creating", "executing", "resuming", "working", "saving",
           "resaving", "done"}

\* Every variable has its type, and the lock is held by a goroutine that saves.
TypeOK ==
    /\ mode \in {"sync", "async"}
    /\ external \in BOOLEAN
    /\ file \in Seq(Snapshot) /\ Len(file) <= 1
    /\ writer \in Threads \union {Nobody}
    /\ writer # Nobody => Saving(writer)
    /\ pc \in [Threads -> Places]
    /\ copy \in [Threads -> Snapshot]
    /\ exit \in [Threads -> {"ok", "error", "panic"}]
    /\ runs \in Nat
    /\ decisions \in 0 .. MaxDecisions
    /\ told \subseteq Statuses
    /\ overlapped \in BOOLEAN /\ lost \in BOOLEAN /\ saveFailed \in BOOLEAN
    /\ crashes \in 0 .. MaxCrashes

Stored(statuses) == file # <<>> /\ file[1].status \in statuses

\* The effect gate across processes: whatever crashes and whoever overlaps, a
\* stored session that runs, or that succeeded with external effects, carries
\* a signature, and the executor of an external write was never entered more
\* often than somebody decided.
SignedBeforeEffect ==
    /\ Stored({"running"}) => external
    /\ external /\ Stored({"running", "succeeded", "rejected"}) =>
           file[1].approver # NoPrincipal
    /\ external => runs <= decisions

\* The store has no compare-and-swap, so an action can run again.  It does so
\* only if two callers decided at the same time, or if an approval never
\* reached the store: a crash, a panic, or a Save that failed.
RepeatedRunExplained == runs > 1 => overlapped \/ lost

\* Decisions taken one after the other: whatever terminal status a call or a
\* poll has ever reported is what the store holds, as far as it can be read,
\* through crashes, panics and failed writes.
AnswersStay ==
    ~overlapped /\ file # <<>> =>
        \A st \in told \intersect Terminal : file[1].status = st

\* WithSessionRepository promises (axi.go:198-199) that a session paused at
\* AwaitingApproval survives restarts: once reported, and until somebody
\* decides, it is in the store whatever crashes.
PauseSurvives ==
    "awaiting_approval" \in told /\ decisions = 0 => Stored({"awaiting_approval"})

\* Without a crash and a failed Save, the outcome of a background session
\* or its pause, reaches the store: pollers do not wait for ever.
OutcomeReachesStore ==
    mode = "async" /\ decisions = 0 ~>
        \/ Stored(Terminal \union {"awaiting_approval"})
        \/ saveFailed \/ crashes > 0

-----------------------------------------------------------------------------
(* What the documents say and the code does not do.                        *)

\* CHANGELOG.md:33 has jsonstore round-trip evidence hash chains, and
\* docs/CONCEPTS.md has VerifyEvidenceChain, called after loading, detect
\* mutation: a trail nobody touched verifies when it is loaded.
TrailSurvivesStore ==
    file # <<>> => VerifyEvidenceChain(SessionFromSnapshot(file[1]).evidence)
=============================================================================
