----------------------------- MODULE SagaProofs ------------------------------
(***************************************************************************)
(* Theorems about sagas, for any number of them and of sessions, any plans *)
(* and any number of attempts.                                             *)
(***************************************************************************)
EXTENDS Saga, FiniteSetTheorems, TLAPS

-----------------------------------------------------------------------------
(* The inductive invariant.                                                *)

\* A step the saga may take for done; once good, a session stays good.
good(id) ==
    \/ status[id] = "succeeded"
    \/ id \in approved /\ status[id] \in {"running", "failed"}

\* What people have done to sessions.
Decided ==
    /\ \A id \in resuming : id \in approved /\ status[id] = "running"
    /\ \A id \in approved : status[id] \in {"running", "failed", "succeeded"}
    /\ \A id \in stored : status[id] # "unused"

\* How far a saga is in its plan.
Progress(s) ==
    /\ pc[s] # "idle" => parent[s] = "running"
    /\ parent[s] = "succeeded" => Len(completed[s]) = Len(plan[s])
    /\ Len(completed[s]) <= Len(plan[s])
    /\ \A i \in DOMAIN completed[s] :
           good(completed[s][i]) /\ action[completed[s][i]] = plan[s][i]
    /\ pc[s] = "compensating" => todo[s] <= Len(completed[s])

\* The session it has invoked and not yet judged.
InHand(s) ==
    /\ pc[s] \in {"saving", "status", "rest", "judging"} =>
           /\ current[s] \in SessionIDs
           /\ position(s) \in DOMAIN plan[s]
           /\ action[current[s]] = plan[s][position(s)]
           /\ \/ status[current[s]] \in Settled \union {"awaiting_approval"}
              \/ current[s] \in approved
    /\ pc[s] \in {"rest", "judging"} => Stops(seen[s]) \/ good(current[s])
    /\ pc[s] = "rest" /\ seen[s] \in Settled => status[current[s]] \in Settled
    /\ pc[s] = "judging" /\ seen[s] \in Settled => settled[s]

SagaInv ==
    TypeOK /\ Decided /\ (\A s \in Sagas : Progress(s) /\ InHand(s)) /\ PausesAreLogged

LEMMA SagaInit == Init => SagaInv
<1> SUFFICES ASSUME Init
             PROVE  SagaInv
  OBVIOUS
<1>1. /\ outbox \in Seq(Entry)
      /\ \A s \in Sagas : pc[s] = "idle" /\ parent[s] = "none" /\ DOMAIN completed[s] = {}
      /\ plan \in [Sagas -> Seq(Names \union {NoName})]
      /\ completed \in [Sagas -> Seq(SessionIDs)]
      /\ \A s \in Sagas : Len(completed[s]) = 0 /\ Len(plan[s]) = 0
  BY DEF Init
<1>2. TypeOK
  BY <1>1 DEF Init, TypeOK, Statuses, Places
<1>3. Decided /\ PausesAreLogged
  BY DEF Init, Decided, PausesAreLogged
<1>4. \A s \in Sagas : Progress(s) /\ InHand(s)
  <2> SUFFICES ASSUME NEW s \in Sagas
               PROVE  Progress(s) /\ InHand(s)
    OBVIOUS
  <2>1. /\ pc[s] = "idle" /\ parent[s] = "none" /\ DOMAIN completed[s] = {}
        /\ Len(completed[s]) = 0 /\ Len(plan[s]) = 0
    BY <1>1
  <2>2. Progress(s)
    BY <2>1 DEF Progress
  <2>3. InHand(s)
    BY <2>1 DEF InHand
  <2> QED BY <2>2, <2>3
<1> QED BY <1>2, <1>3, <1>4 DEF SagaInv

-----------------------------------------------------------------------------
(* What sessions go through.                                               *)

\* A session is created, decided on, or carried to its end by a Resume.
Evolves(id) ==
    \/ status'[id] = status[id] /\ action'[id] = action[id]
    \/ status[id] = "unused"
    \/ /\ status[id] = "awaiting_approval" /\ action'[id] = action[id]
       /\ status'[id] = "rejected" \/ (status'[id] = "running" /\ id \in approved')
    \/ /\ status[id] = "running" /\ id \in approved /\ action'[id] = action[id]
       /\ status'[id] \in {"running", "failed", "succeeded"}

SessionsEvolve ==
    approved \subseteq approved' /\ \A id \in SessionIDs : Evolves(id)

LEMMA StillGood ==
    ASSUME SessionsEvolve, NEW id \in SessionIDs, good(id)
    PROVE  good(id)' /\ action'[id] = action[id]
BY DEF SessionsEvolve, Evolves, good

\* A saga that does not move stays as it was, whatever happens to sessions.
LEMMA Bystander ==
    ASSUME TypeOK, Decided, NEW s \in Sagas, Progress(s), InHand(s), SessionsEvolve,
           pc'[s] = pc[s], plan'[s] = plan[s], completed'[s] = completed[s],
           current'[s] = current[s], seen'[s] = seen[s], settled'[s] = settled[s],
           todo'[s] = todo[s], parent'[s] = parent[s]
    PROVE  Progress(s)' /\ InHand(s)'
<1>1. completed[s] \in Seq(SessionIDs)
  BY DEF TypeOK
<1>2. Progress(s)'
  BY <1>1, StillGood DEF Progress
<1>3. ASSUME pc[s] \in {"saving", "status", "rest", "judging"}
      PROVE  /\ position(s)' = position(s)
             /\ action'[current[s]] = action[current[s]]
             /\ \/ status'[current[s]] \in Settled \union {"awaiting_approval"}
                \/ current[s] \in approved'
             /\ status[current[s]] \in Settled => status'[current[s]] \in Settled
             /\ good(current[s]) => good(current[s])'
  <2>1. /\ current[s] \in SessionIDs /\ Evolves(current[s]) /\ approved \subseteq approved'
        /\ \/ status[current[s]] \in Settled \union {"awaiting_approval"}
           \/ current[s] \in approved /\ status[current[s]] # "unused"
    BY <1>3 DEF InHand, SessionsEvolve, Decided
  <2>2. position(s)' = position(s)
    BY DEF position
  <2> QED BY <2>1, <2>2, StillGood DEF Evolves, Settled
<1>4. InHand(s)'
  BY <1>3 DEF InHand
<1> QED BY <1>2, <1>4

LEMMA OneSaga ==
    ASSUME SagaInv, SessionsEvolve, NEW s \in Sagas, Progress(s)', InHand(s)',
           \A r \in Sagas \ {s} :
               /\ pc'[r] = pc[r] /\ plan'[r] = plan[r] /\ completed'[r] = completed[r]
               /\ current'[r] = current[r] /\ seen'[r] = seen[r]
               /\ settled'[r] = settled[r] /\ todo'[r] = todo[r]
               /\ parent'[r] = parent[r]
    PROVE  \A r \in Sagas : Progress(r)' /\ InHand(r)'
<1> SUFFICES ASSUME NEW r \in Sagas \ {s}
             PROVE  Progress(r)' /\ InHand(r)'
  OBVIOUS
<1> QED BY Bystander DEF SagaInv

LEMMA LogGrows ==
    ASSUME outbox \in Seq(Entry), NEW e, outbox' \in {outbox, Append(outbox, e)}
    PROVE  /\ e \in Entry => outbox' \in Seq(Entry)
           /\ \A i \in DOMAIN outbox : i \in DOMAIN outbox' /\ outbox'[i] = outbox[i]
           /\ outbox' = outbox \/ (/\ Len(outbox) + 1 \in DOMAIN outbox'
                                   /\ outbox'[Len(outbox) + 1] = e)
<1>1. CASE outbox' = outbox
  BY <1>1
<1>2. CASE outbox' = Append(outbox, e)
  BY <1>2
<1> QED BY <1>1, <1>2

\* Nothing is taken out of the log, and a saga with a session to write down
\* keeps it at hand.
LEMMA LogKept ==
    ASSUME SagaInv, NEW e, outbox' \in {outbox, Append(outbox, e)},
           \A id \in stored' :
               /\ id \in stored /\ action'[id] = action[id]
               /\ status'[id] # "open" => status[id] # "open",
           \A s \in Sagas : pc[s] \in {"status", "rest", "judging"} =>
               /\ current'[s] = current[s]
               /\ \/ pc'[s] \in {"status", "rest", "judging"}
                  \/ \E i \in DOMAIN outbox' : outbox'[i].session = current[s]
    PROVE  PausesAreLogged'
<1>0. outbox \in Seq(Entry)
  BY DEF SagaInv, TypeOK
<1>1. \A i \in DOMAIN outbox : i \in DOMAIN outbox' /\ outbox'[i] = outbox[i]
  BY <1>0, LogGrows
<1> QED BY <1>1 DEF SagaInv, PausesAreLogged

-----------------------------------------------------------------------------
(* One step.                                                               *)

LEMMA EntryType ==
    ASSUME NEW s \in Sagas, NEW kind \in {"step", "error", "compensate", "done"},
           NEW name \in Names \union {NoName},
           NEW id \in SessionIDs \union {NoSession},
           NEW st \in Statuses \union {"pending"}
    PROVE  entry(s, kind, name, id, st) \in Entry
BY DEF entry, Entry

LEMMA StepType ==
    ASSUME TypeOK, NEW s \in Sagas
    PROVE  /\ step(s) \in Names \union {NoName}
           /\ position(s) \in Nat \ {0} /\ position(s) = Len(completed[s]) + 1
           /\ DOMAIN plan[s] = 1 .. Len(plan[s]) /\ Len(plan[s]) \in Nat
           /\ plan[s] = <<>> <=> Len(plan[s]) = 0
<1>1. completed[s] \in Seq(SessionIDs) /\ plan[s] \in Seq(Names \union {NoName})
  BY DEF TypeOK
<1> QED BY <1>1 DEF step, position

\* A step that touches neither sessions nor the invocation in hand.
LEMMA QuietStep ==
    ASSUME SagaInv, NEW s \in Sagas, UNCHANGED <<people, action>>
    PROVE  SessionsEvolve /\ (UNCHANGED stored => Decided')
BY DEF people, SessionsEvolve, Evolves, SagaInv, Decided

LEMMA StartStep ==
    ASSUME SagaInv, NEW s \in Sagas, StartSaga(s)
    PROVE  SagaInv'
<1> USE DEF at, goto, people, invoker
<1>1. PICK p \in Plans : plan' = [plan EXCEPT ![s] = p]
  BY DEF StartSaga
<1>2. p \in Seq(Names \union {NoName}) /\ Len(p) \in Nat
  BY SagaAssumption
<1>3. TypeOK'
  BY <1>1, <1>2 DEF StartSaga, SagaInv, TypeOK, Places
<1>4. /\ completed'[s] = <<>> /\ plan'[s] = p /\ parent'[s] = "running"
      /\ pc'[s] = "stepping" /\ pc[s] = "idle"
  BY <1>1 DEF StartSaga, SagaInv, TypeOK
<1>5. Progress(s)' /\ InHand(s)'
  BY <1>2, <1>4 DEF Progress, InHand
<1>6. SessionsEvolve /\ Decided'
  BY QuietStep DEF StartSaga
<1>7. \A r \in Sagas : Progress(r)' /\ InHand(r)'
  BY <1>1, <1>5, <1>6, OneSaga DEF StartSaga, SagaInv, TypeOK
<1>8. PausesAreLogged'
  BY <1>4, LogKept DEF StartSaga, SagaInv, TypeOK
<1> QED BY <1>3, <1>6, <1>7, <1>8 DEF SagaInv

\* The ways in which run ends: what is left of the attempt is whole if and only
\* if it succeeded.
LEMMA EndStep ==
    ASSUME SagaInv, NEW s \in Sagas, pc[s] \notin {"idle", "status", "rest", "judging"},
           NEW st \in {"running", "failed", "succeeded"},
           NEW reason \in {"done", "stopped", "transport", "badstep", "panic"},
           end(s, st, reason),
           st = "succeeded" => Len(completed[s]) = Len(plan[s]),
           UNCHANGED <<plan, completed, todo, attempts, seen, settled>>,
           NEW e \in Entry, outbox' \in {outbox, Append(outbox, e)},
           NEW c \in SessionIDs \union {NoSession},
           current' = [current EXCEPT ![s] = c],
           status' \in [SessionIDs -> Statuses],
           action' \in [SessionIDs -> Names \union {NoName}],
           UNCHANGED <<approved, resuming>>, stored' \subseteq SessionIDs,
           SessionsEvolve, Decided',
           \A id \in stored' :
               \/ action'[id] \notin External \/ status'[id] = "open"
               \/ id \in stored /\ action'[id] = action[id] /\ status'[id] = status[id]
    PROVE  SagaInv'
<1> USE DEF end, goto
<1>1. outbox' \in Seq(Entry)
  BY LogGrows DEF SagaInv, TypeOK
<1>2. TypeOK'
  BY <1>1 DEF SagaInv, TypeOK, Places
<1>3. pc'[s] = "idle" /\ parent'[s] = st /\ completed'[s] = completed[s]
      /\ plan'[s] = plan[s]
  BY DEF SagaInv, TypeOK
<1>4. Progress(s)'
  <2>1. completed[s] \in Seq(SessionIDs) /\ Progress(s)
    BY DEF SagaInv, TypeOK
  <2> QED BY <1>3, <2>1, StillGood DEF Progress
<1>5. InHand(s)'
  BY <1>3 DEF InHand
<1>6. \A r \in Sagas : Progress(r)' /\ InHand(r)'
  BY <1>4, <1>5, OneSaga DEF SagaInv, TypeOK
<1>7. PausesAreLogged'
  <2>1. \A i \in DOMAIN outbox : i \in DOMAIN outbox' /\ outbox'[i] = outbox[i]
    BY LogGrows DEF SagaInv, TypeOK
  <2>2. \A r \in Sagas : pc[r] \in {"status", "rest", "judging"} =>
            pc'[r] = pc[r] /\ current'[r] = current[r]
    BY DEF SagaInv, TypeOK
  <2> QED BY <2>1, <2>2 DEF SagaInv, PausesAreLogged
<1> QED BY <1>2, <1>6, <1>7 DEF SagaInv

\* No steps, a step without a name, or no step left.
LEMMA LastStep ==
    ASSUME SagaInv, NEW s \in Sagas, BadStep(s) \/ Finish(s)
    PROVE  SagaInv'
<1> USE DEF at, people, invoker
<1>0. TypeOK /\ SessionsEvolve /\ Decided' /\ UNCHANGED <<people, invoker>>
      /\ NoSession \in SessionIDs \union {NoSession}
  BY QuietStep DEF BadStep, Finish, SagaInv
<1>1. /\ current[s] \in SessionIDs \union {NoSession}
      /\ current' = [current EXCEPT ![s] = current[s]]
      /\ status' \in [SessionIDs -> Statuses]
      /\ action' \in [SessionIDs -> Names \union {NoName}]
      /\ stored' \subseteq SessionIDs
  BY <1>0 DEF TypeOK
<1>2. /\ entry(s, "done", NoName, NoSession, "succeeded") \in Entry
  BY EntryType DEF Statuses
<1>3. CASE BadStep(s)
  <2>1. /\ pc[s] = "stepping" /\ end(s, "failed", "badstep")
        /\ outbox' = outbox /\ UNCHANGED <<plan, completed, todo, attempts>>
    BY <1>3 DEF BadStep
  <2> QED BY <1>0, <1>1, <1>2, <2>1, EndStep
<1>4. CASE Finish(s)
  <2>1. /\ pc[s] = "stepping" /\ end(s, "succeeded", "done") /\ finished(s)
        /\ outbox' = Append(outbox, entry(s, "done", NoName, NoSession, "succeeded"))
        /\ UNCHANGED <<plan, completed, todo, attempts>>
    BY <1>4 DEF Finish, Log
  <2>2. Len(completed[s]) = Len(plan[s])
    <3>1. completed[s] \in Seq(SessionIDs) /\ Len(completed[s]) <= Len(plan[s])
      BY DEF SagaInv, Progress, TypeOK
    <3> QED BY <1>0, <2>1, <3>1, StepType DEF finished
  <2> QED BY <1>0, <1>1, <1>2, <2>1, <2>2, EndStep
<1> QED BY <1>3, <1>4

\* A fresh session changes nothing for the others.
LEMMA FreshSession ==
    ASSUME SagaInv, NEW s \in Sagas, stepTodo(s), NEW id \in SessionIDs,
           NEW st \in Statuses \ {"unused"}, invokes(s, id, st),
           UNCHANGED <<approved, resuming>>, stored' \in {stored, stored \union {id}}
    PROVE  /\ SessionsEvolve /\ Decided'
           /\ status' \in [SessionIDs -> Statuses]
           /\ action' \in [SessionIDs -> Names \union {NoName}]
           /\ current' = [current EXCEPT ![s] = id]
           /\ status'[id] = st /\ action'[id] = step(s) /\ id \notin stored
           /\ step(s) \in Names /\ position(s) \in DOMAIN plan[s]
           /\ step(s) = plan[s][position(s)]
           /\ \A j \in SessionIDs \ {id} : status'[j] = status[j] /\ action'[j] = action[j]
<1>1. TypeOK /\ Decided /\ status[id] = "unused"
      /\ status' = [status EXCEPT ![id] = st]
      /\ action' = [action EXCEPT ![id] = step(s)]
      /\ current' = [current EXCEPT ![s] = id]
  BY DEF SagaInv, invokes
<1>2. step(s) \in Names
  BY <1>1, StepType DEF stepTodo
<1>3. position(s) \in DOMAIN plan[s] /\ step(s) = plan[s][position(s)]
  BY DEF stepTodo, step
<1>4. SessionsEvolve
  BY <1>1 DEF SessionsEvolve, Evolves, TypeOK
<1>5. Decided'
  BY <1>1 DEF Decided, TypeOK
<1> QED BY <1>1, <1>2, <1>3, <1>4, <1>5 DEF Decided, TypeOK

LEMMA InvokeStep ==
    ASSUME SagaInv, NEW s \in Sagas, NEW id \in SessionIDs, Invoke(s, id)
    PROVE  SagaInv'
<1> USE DEF at, goto, saga
<1>1. /\ stepTodo(s) /\ pc[s] = "stepping" /\ pc' = [pc EXCEPT ![s] = "saving"]
      /\ UNCHANGED <<approved, resuming, stored, seen, settled, saga>>
  BY DEF Invoke, stepTodo
<1>2. PICK st \in {"awaiting_approval", "succeeded", "failed"} : invokes(s, id, st)
  BY DEF Invoke
<1>3. st \in Statuses \ {"unused"}
  BY DEF Statuses
<1>4. /\ SessionsEvolve /\ Decided'
      /\ status' \in [SessionIDs -> Statuses]
      /\ action' \in [SessionIDs -> Names \union {NoName}]
      /\ current' = [current EXCEPT ![s] = id]
      /\ status'[id] = st /\ action'[id] = step(s) /\ id \notin stored
      /\ position(s) \in DOMAIN plan[s] /\ step(s) = plan[s][position(s)]
      /\ \A j \in SessionIDs \ {id} : status'[j] = status[j] /\ action'[j] = action[j]
  BY <1>1, <1>2, <1>3, FreshSession
<1>5. TypeOK'
  BY <1>1, <1>4 DEF SagaInv, TypeOK, Places
<1>6. Progress(s)' /\ InHand(s)'
  <2>1. /\ completed[s] \in Seq(SessionIDs) /\ Progress(s)
        /\ pc'[s] = "saving" /\ current'[s] = id
    BY <1>1, <1>4 DEF SagaInv, TypeOK
  <2>2. Progress(s)'
    BY <1>1, <1>4, <2>1, StillGood DEF Progress
  <2>3. InHand(s)'
    BY <1>1, <1>2, <1>4, <2>1 DEF InHand, position, Settled
  <2> QED BY <2>2, <2>3
<1>7. \A r \in Sagas : Progress(r)' /\ InHand(r)'
  BY <1>1, <1>4, <1>6, OneSaga DEF SagaInv, TypeOK
<1>8. PausesAreLogged'
  <2>1. \A j \in stored' : j \in stored /\ action'[j] = action[j] /\ status'[j] = status[j]
    BY <1>1, <1>4 DEF SagaInv, TypeOK
  <2>2. \A r \in Sagas : pc[r] \in {"status", "rest", "judging"} =>
            current'[r] = current[r] /\ pc'[r] = pc[r]
    BY <1>1, <1>4 DEF SagaInv, TypeOK
  <2> QED BY <1>1, <2>1, <2>2, LogKept
<1> QED BY <1>4, <1>5, <1>7, <1>8 DEF SagaInv

\* The ways out of Invoke that end the attempt: an error, or a panic.
LEMMA InvokeEnds ==
    ASSUME SagaInv, NEW s \in Sagas, NEW id \in SessionIDs,
           InvokeError(s, id) \/ InvokePanics(s, id)
    PROVE  SagaInv'
<1> DEFINE e == entry(s, "error", step(s), NoSession, "failed")
<1>1. /\ stepTodo(s) /\ pc[s] = "stepping"
      /\ UNCHANGED <<approved, resuming, seen, settled, plan, completed, todo, attempts>>
      /\ outbox' \in {outbox, Append(outbox, e)}
      /\ stored' \in {stored, stored \union {id}}
  BY DEF InvokeError, InvokePanics, stepTodo, at, transportError, Log
<1>2. PICK st \in Statuses \ {"unused"} :
          /\ invokes(s, id, st)
          /\ stored' # stored /\ st # "open" => step(s) \in Local
  BY DEF InvokeError, InvokePanics, Statuses
<1>3. \E r \in {"running", "failed"}, reason \in {"transport", "panic"} : end(s, r, reason)
  BY DEF InvokeError, InvokePanics, transportError
<1>4. /\ SessionsEvolve /\ Decided'
      /\ status' \in [SessionIDs -> Statuses]
      /\ action' \in [SessionIDs -> Names \union {NoName}]
      /\ current' = [current EXCEPT ![s] = id]
      /\ status'[id] = st /\ action'[id] = step(s) /\ id \notin stored
      /\ step(s) \in Names
      /\ \A j \in SessionIDs \ {id} : status'[j] = status[j] /\ action'[j] = action[j]
  BY <1>1, <1>2, FreshSession
<1>5. e \in Entry
  BY <1>4, EntryType DEF Statuses
<1>6. /\ stored' \subseteq SessionIDs
      /\ \A j \in stored' :
             \/ action'[j] \notin External \/ status'[j] = "open"
             \/ j \in stored /\ action'[j] = action[j] /\ status'[j] = status[j]
  BY <1>1, <1>2, <1>4, SagaAssumption DEF SagaInv, TypeOK
<1> QED BY <1>1, <1>3, <1>4, <1>5, <1>6, EndStep

LEMMA SaveStep ==
    ASSUME SagaInv, NEW s \in Sagas, Save(s)
    PROVE  SagaInv'
<1> USE DEF at, goto, people, saga
<1>1. /\ pc[s] = "saving" /\ UNCHANGED <<people, action, current, seen, settled>>
      /\ TypeOK /\ SessionsEvolve
  BY QuietStep DEF Save, SagaInv
<1>2. CASE stored' = stored \union {current[s]} /\ pc' = [pc EXCEPT ![s] = "status"]
           /\ UNCHANGED saga
  <2>1. current[s] \in SessionIDs /\ status[current[s]] # "unused"
    BY <1>1 DEF SagaInv, InHand, Settled, Decided
  <2>2. TypeOK'
    BY <1>1, <1>2, <2>1 DEF TypeOK, Places
  <2>3. Decided'
    BY <1>1, <1>2, <2>1 DEF SagaInv, Decided
  <2>4. Progress(s)' /\ InHand(s)'
    <3>1. completed[s] \in Seq(SessionIDs) /\ Progress(s) /\ pc'[s] = "status"
      BY <1>1, <1>2 DEF SagaInv, TypeOK
    <3>2. Progress(s)'
      BY <1>1, <1>2, <3>1, StillGood DEF Progress
    <3>3. InHand(s)'
      BY <1>1, <1>2, <3>1 DEF SagaInv, InHand, position
    <3> QED BY <3>2, <3>3
  <2>5. \A r \in Sagas : Progress(r)' /\ InHand(r)'
    BY <1>1, <1>2, <2>4, OneSaga DEF TypeOK
  <2>6. PausesAreLogged'
    <3>1. pc'[s] = "status" /\ current'[s] = current[s]
          /\ \A r \in Sagas \ {s} : pc'[r] = pc[r] /\ current'[r] = current[r]
      BY <1>1, <1>2 DEF TypeOK
    <3> QED BY <1>1, <1>2, <3>1 DEF SagaInv, PausesAreLogged
  <2> QED BY <2>2, <2>3, <2>5, <2>6 DEF SagaInv
<1>3. CASE transportError(s) /\ UNCHANGED stored
  <2> DEFINE e == entry(s, "error", step(s), NoSession, "failed")
  <2>1. e \in Entry
    BY <1>1, StepType, EntryType DEF Statuses
  <2>2. /\ outbox' = Append(outbox, e) /\ end(s, "failed", "transport")
        /\ UNCHANGED <<plan, completed, todo, attempts>>
    BY <1>3 DEF transportError, Log
  <2>3. /\ current[s] \in SessionIDs \union {NoSession}
        /\ current' = [current EXCEPT ![s] = current[s]]
        /\ status' \in [SessionIDs -> Statuses]
        /\ action' \in [SessionIDs -> Names \union {NoName}]
        /\ stored' \subseteq SessionIDs /\ Decided'
    BY <1>1, <1>3, QuietStep DEF TypeOK
  <2> QED BY <1>1, <1>3, <2>1, <2>2, <2>3, EndStep
<1> QED BY <1>2, <1>3 DEF Save

LEMMA OutcomeStep ==
    ASSUME SagaInv, NEW s \in Sagas, outputFromSession(s)
    PROVE  SagaInv'
<1> USE DEF at, goto, people, saga
<1>1. /\ pc[s] \in {"status", "rest"}
      /\ UNCHANGED <<people, action, stored, current, saga>>
      /\ TypeOK /\ SessionsEvolve /\ Decided'
      /\ current[s] \in SessionIDs /\ status[current[s]] \in Statuses
      /\ completed[s] \in Seq(SessionIDs) /\ Progress(s)
  <2>1. /\ pc[s] \in {"status", "rest"}
        /\ UNCHANGED <<people, action, stored, current, saga>>
    BY DEF outputFromSession
  <2>2. SessionsEvolve /\ Decided'
    BY <2>1, QuietStep
  <2>3. TypeOK /\ Progress(s) /\ current[s] \in SessionIDs
    BY <2>1 DEF SagaInv, InHand
  <2>4. status[current[s]] \in Statuses /\ completed[s] \in Seq(SessionIDs)
    BY <2>3 DEF TypeOK
  <2> QED BY <2>1, <2>2, <2>3, <2>4
<1>2. TypeOK'
  <2>1. seen' \in [Sagas -> Statuses] /\ pc' \in [Sagas -> Places]
    BY <1>1 DEF outputFromSession, TypeOK, Places
  <2>2. settled' \in [Sagas -> BOOLEAN]
    <3>1. CASE UNCHANGED settled
      BY <1>1, <3>1 DEF TypeOK
    <3>2. CASE settled' = [settled EXCEPT ![s] = status[current[s]] \in Settled]
      <4>1. (status[current[s]] \in Settled) \in BOOLEAN
        OBVIOUS
      <4> QED BY <1>1, <3>2, <4>1, Zenon DEF TypeOK
    <3> QED BY <3>1, <3>2 DEF outputFromSession
  <2> QED BY <1>1, <2>1, <2>2 DEF TypeOK
<1>3. Progress(s)' /\ InHand(s)'
  <2>1. CASE pc[s] = "status"
    <3>1. pc'[s] = "rest" /\ seen'[s] = status[current[s]]
      BY <1>1, <2>1 DEF outputFromSession, TypeOK
    <3>2. Progress(s)'
      BY <1>1, <3>1, <2>1, StillGood DEF Progress
    <3>3. Stops(status[current[s]]) \/ good(current[s])
      BY <1>1, <2>1
         DEF SagaInv, InHand, Stops, IsFailure, IsAwaitingApproval, Settled, good, Decided
    <3>4. InHand(s)'
      BY <1>1, <2>1, <3>1, <3>3
         DEF SagaInv, InHand, position, Stops, IsFailure, IsAwaitingApproval, good
    <3> QED BY <3>2, <3>4
  <2>2. CASE pc[s] = "rest"
    <3>1. pc'[s] = "judging" /\ seen'[s] = seen[s]
          /\ settled'[s] = (status[current[s]] \in Settled)
      BY <1>1, <2>2 DEF outputFromSession, TypeOK
    <3>2. Progress(s)'
      BY <1>1, <3>1, <2>2, StillGood DEF Progress
    <3>3. InHand(s)'
      BY <1>1, <2>2, <3>1
         DEF SagaInv, InHand, position, Stops, IsFailure, IsAwaitingApproval, good
    <3> QED BY <3>2, <3>3
  <2> QED BY <1>1, <2>1, <2>2
<1>4. /\ \A r \in Sagas \ {s} : pc'[r] = pc[r] /\ seen'[r] = seen[r]
                                /\ settled'[r] = settled[r]
      /\ pc'[s] \in {"rest", "judging"}
  BY <1>1 DEF outputFromSession, TypeOK
<1>5. \A r \in Sagas : Progress(r)' /\ InHand(r)'
  BY <1>1, <1>3, <1>4, OneSaga
<1>6. PausesAreLogged'
  BY <1>1, <1>4 DEF SagaInv, PausesAreLogged
<1> QED BY <1>1, <1>2, <1>5, <1>6 DEF SagaInv

LEMMA JudgeStep ==
    ASSUME SagaInv, NEW s \in Sagas, Judge(s)
    PROVE  SagaInv'
<1> USE DEF at, goto, people, invoker
<1>1. /\ pc[s] = "judging"
      /\ UNCHANGED <<people, invoker, plan, parent, how, attempts>>
      /\ outbox' = Append(outbox, entry(s, "step", step(s), current[s], seen[s]))
      /\ TypeOK /\ SessionsEvolve /\ Decided'
      /\ current[s] \in SessionIDs /\ seen[s] \in Statuses
      /\ completed[s] \in Seq(SessionIDs) /\ Progress(s) /\ InHand(s)
  BY QuietStep DEF Judge, Log, SagaInv, InHand, TypeOK
<1>2. entry(s, "step", step(s), current[s], seen[s]) \in Entry
  BY <1>1, StepType, EntryType
<1>3. ASSUME todo' = [todo EXCEPT ![s] = Len(completed[s])],
             pc' = [pc EXCEPT ![s] = "compensating"], UNCHANGED completed
      PROVE  TypeOK' /\ \A r \in Sagas : Progress(r)' /\ InHand(r)'
  <2>1. TypeOK'
    BY <1>1, <1>2, <1>3 DEF TypeOK, Places
  <2>2. pc'[s] = "compensating" /\ todo'[s] = Len(completed[s])
    BY <1>1, <1>3 DEF TypeOK
  <2>3. Progress(s)' /\ InHand(s)'
    BY <1>1, <1>3, <2>2, StillGood DEF Progress, InHand
  <2>4. \A r \in Sagas : Progress(r)' /\ InHand(r)'
    BY <1>1, <1>3, <2>3, OneSaga DEF TypeOK
  <2> QED BY <2>1, <2>4
<1>4. ASSUME ~Stops(seen[s]), UNCHANGED todo,
             completed' = [completed EXCEPT ![s] = Append(@, current[s])],
             pc' = [pc EXCEPT ![s] = "stepping"]
      PROVE  TypeOK' /\ \A r \in Sagas : Progress(r)' /\ InHand(r)'
  <2>1. TypeOK'
    BY <1>1, <1>2, <1>4 DEF TypeOK, Places
  <2>2. pc'[s] = "stepping" /\ completed'[s] = Append(completed[s], current[s])
    BY <1>1, <1>4 DEF TypeOK
  <2>3. Progress(s)'
    <3>1. /\ good(current[s]) /\ position(s) = Len(completed[s]) + 1
          /\ Len(completed[s]) + 1 <= Len(plan[s])
          /\ action[current[s]] = plan[s][Len(completed[s]) + 1]
      BY <1>1, <1>4, StepType DEF InHand
    <3>2. good(current[s])' /\ action'[current[s]] = action[current[s]]
      BY <1>1, <3>1, StillGood
    <3>3. /\ \A i \in DOMAIN completed[s] :
                 /\ completed[s][i] \in SessionIDs /\ good(completed[s][i])
                 /\ action[completed[s][i]] = plan[s][i]
          /\ \A id \in SessionIDs :
                 good(id) => good(id)' /\ action'[id] = action[id]
      BY <1>1, StillGood DEF Progress
    <3>4. \A i \in DOMAIN completed'[s] :
              good(completed[s][i])' /\ action'[completed'[s][i]] = plan'[s][i]
      <4> SUFFICES ASSUME NEW i \in DOMAIN completed'[s]
                   PROVE  good(completed[s][i])' /\ action'[completed'[s][i]] = plan'[s][i]
        OBVIOUS
      <4>1. CASE i \in DOMAIN completed[s]
        <5>1. completed'[s][i] = completed[s][i] /\ plan' = plan
          BY <1>1, <2>2, <4>1
        <5> QED BY <3>3, <4>1, <5>1 DEF good
      <4>2. CASE i = Len(completed[s]) + 1
        <5>1. completed'[s][i] = current[s] /\ plan' = plan /\ current' = current
          BY <1>1, <2>2, <4>2
        <5> QED BY <3>1, <3>2, <4>2, <5>1 DEF good
      <4> QED BY <1>1, <2>2, <4>1, <4>2
    <3>5. Len(completed'[s]) <= Len(plan'[s]) /\ parent'[s] = "running"
      BY <1>1, <2>2, <3>1 DEF Progress
    <3> QED BY <2>2, <3>4, <3>5 DEF Progress
  <2>4. InHand(s)'
    BY <2>2 DEF InHand
  <2>5. \A r \in Sagas : Progress(r)' /\ InHand(r)'
    BY <1>1, <1>4, <2>3, <2>4, OneSaga DEF TypeOK
  <2> QED BY <2>1, <2>5
<1>5. PausesAreLogged'
  <2>1. /\ \A r \in Sagas \ {s} : pc'[r] = pc[r] /\ current'[r] = current[r]
        /\ current' = current
    BY <1>1 DEF Judge, TypeOK
  <2>2. /\ Len(outbox) + 1 \in DOMAIN outbox'
        /\ outbox'[Len(outbox) + 1].session = current[s]
        /\ \A i \in DOMAIN outbox : i \in DOMAIN outbox' /\ outbox'[i] = outbox[i]
    BY <1>1 DEF TypeOK, entry
  <2> QED BY <1>1, <2>1, <2>2 DEF SagaInv, PausesAreLogged
<1>6. TypeOK' /\ \A r \in Sagas : Progress(r)' /\ InHand(r)'
  BY <1>3, <1>4 DEF Judge
<1> QED BY <1>1, <1>5, <1>6 DEF SagaInv

LEMMA CompensateStep ==
    ASSUME SagaInv, NEW s \in Sagas, RecordCompensate(s)
    PROVE  SagaInv'
<1> USE DEF at, goto, people, invoker
<1> DEFINE name == action[completed[s][todo[s]]]
           e == entry(s, "compensate", name, NoSession, "pending")
<1>1. /\ pc[s] = "compensating"
      /\ UNCHANGED <<people, invoker, plan, completed, attempts>>
      /\ TypeOK /\ SessionsEvolve /\ Decided'
      /\ completed[s] \in Seq(SessionIDs) /\ Progress(s) /\ todo[s] \in Nat
      /\ todo[s] <= Len(completed[s])
  BY QuietStep DEF RecordCompensate, SagaInv, Progress, TypeOK
<1>2. CASE /\ todo[s] > 0 /\ Log(e) /\ todo' = [todo EXCEPT ![s] = @ - 1]
           /\ UNCHANGED <<pc, parent, how>>
  <2>1. completed[s][todo[s]] \in SessionIDs
    BY <1>1, <1>2
  <2>2. e \in Entry
    BY <1>1, <2>1, EntryType DEF TypeOK
  <2>3. TypeOK'
    BY <1>1, <1>2, <2>2 DEF TypeOK, Log
  <2>4. pc'[s] = "compensating" /\ todo'[s] <= Len(completed[s])
    BY <1>1, <1>2 DEF TypeOK
  <2>5. Progress(s)' /\ InHand(s)'
    BY <1>1, <1>2, <2>4, StillGood DEF Progress, InHand
  <2>6. \A r \in Sagas : Progress(r)' /\ InHand(r)'
    BY <1>1, <1>2, <2>5, OneSaga DEF TypeOK
  <2>7. PausesAreLogged'
    <3>1. \A i \in DOMAIN outbox : i \in DOMAIN outbox' /\ outbox'[i] = outbox[i]
      BY <1>1, <1>2 DEF Log, TypeOK
    <3> QED BY <1>1, <1>2, <3>1 DEF SagaInv, PausesAreLogged
  <2> QED BY <1>1, <2>3, <2>6, <2>7 DEF SagaInv
<1>3. CASE end(s, "failed", "stopped") /\ UNCHANGED <<outbox, todo>>
  <2>1. entry(s, "done", NoName, NoSession, "failed") \in Entry
    BY EntryType DEF Statuses
  <2>2. /\ current[s] \in SessionIDs \union {NoSession}
        /\ current' = [current EXCEPT ![s] = current[s]]
        /\ status' \in [SessionIDs -> Statuses]
        /\ action' \in [SessionIDs -> Names \union {NoName}]
        /\ stored' \subseteq SessionIDs
    BY <1>1 DEF TypeOK
  <2> QED BY <1>1, <1>3, <2>1, <2>2, EndStep
<1> QED BY <1>2, <1>3 DEF RecordCompensate

\* Decisions and what follows them.
LEMMA PeopleStep ==
    ASSUME SagaInv, NEW id \in SessionIDs, Approve(id) \/ Resume(id) \/ Reject(id)
    PROVE  SagaInv'
<1> USE DEF invoker, saga
<1>1. TypeOK /\ Decided /\ UNCHANGED <<invoker, saga, pc>>
  BY DEF SagaInv, Approve, Resume, Reject
<1>2. PICK st \in {"running", "failed", "succeeded", "rejected"} :
          status' = [status EXCEPT ![id] = st]
  BY DEF Approve, Resume, Reject
<1>3. SessionsEvolve
  BY <1>1, <1>2
     DEF SessionsEvolve, Evolves, Approve, Resume, Reject, undecided, Decided, TypeOK
<1>4. Decided'
  BY <1>1, <1>2 DEF Approve, Resume, Reject, undecided, Decided, TypeOK
<1>5. TypeOK'
  BY <1>1, <1>2 DEF Approve, Resume, Reject, TypeOK, Statuses
<1>6. \A r \in Sagas : Progress(r)' /\ InHand(r)'
  BY <1>1, <1>3, Bystander DEF SagaInv
<1>7. PausesAreLogged'
  <2>1. \A j \in stored : status'[j] # "open" => status[j] # "open"
    BY <1>1, <1>2 DEF Approve, Resume, Reject, undecided, Decided, TypeOK
  <2> QED BY <1>1, <2>1 DEF SagaInv, PausesAreLogged
<1> QED BY <1>4, <1>5, <1>6, <1>7 DEF SagaInv

LEMMA SagaNextStep ==
    ASSUME SagaInv, [Next]_vars
    PROVE  SagaInv'
<1>1. CASE UNCHANGED vars
  <2>1. UNCHANGED <<people, invoker, saga, pc>>
    BY <1>1 DEF vars
  <2>2. SessionsEvolve /\ Decided'
    BY <2>1, SagaAssumption
       DEF people, invoker, saga, SessionsEvolve, Evolves, SagaInv, Decided
  <2>3. TypeOK' /\ PausesAreLogged'
    BY <2>1 DEF people, invoker, saga, SagaInv, TypeOK, PausesAreLogged
  <2>4. \A r \in Sagas : Progress(r)' /\ InHand(r)'
    BY <2>1, <2>2, Bystander DEF people, invoker, saga, SagaInv
  <2> QED BY <2>2, <2>3, <2>4 DEF SagaInv
<1> QED
  BY <1>1, StartStep, LastStep, InvokeStep, InvokeEnds, SaveStep, OutcomeStep,
     JudgeStep, CompensateStep, PeopleStep DEF Next, SagaStep

-----------------------------------------------------------------------------
(* What follows from it.                                                   *)

\* Every variable has its type.
THEOREM SagaTyped == Spec => []TypeOK
<1>1. SagaInv => TypeOK
  BY DEF SagaInv
<1>2. SagaInv /\ [Next]_vars => SagaInv'
  BY SagaNextStep
<1> QED BY SagaInit, <1>1, <1>2, PTL DEF Spec

\* A saga succeeds with all of its plan behind it and nobody's refusal, pause
\* or unapproved failure in it.
THEOREM Whole == Spec => []SucceedsOnlyWhole
<1>1. SagaInv => SucceedsOnlyWhole
  <2> SUFFICES ASSUME SagaInv, NEW s \in Sagas, parent[s] = "succeeded"
               PROVE  /\ Len(completed[s]) = Len(plan[s])
                      /\ \A i \in DOMAIN completed[s] :
                             LET id == completed[s][i]
                             IN  /\ action[id] = plan[s][i]
                                 /\ \/ status[id] = "succeeded"
                                    \/ id \in approved /\ status[id] \in {"running", "failed"}
    BY DEF SucceedsOnlyWhole
  <2> QED BY DEF SagaInv, Progress, good
<1>2. SagaInv /\ [Next]_vars => SagaInv'
  BY SagaNextStep
<1> QED BY SagaInit, <1>1, <1>2, PTL DEF Spec

\* The outcome of a session whose status was read as final is whole.
THEOREM OutcomesWhole == Spec => []OutcomeComplete
<1>1. SagaInv => OutcomeComplete
  BY DEF SagaInv, InHand, OutcomeComplete, at
<1>2. SagaInv /\ [Next]_vars => SagaInv'
  BY SagaNextStep
<1> QED BY SagaInit, <1>1, <1>2, PTL DEF Spec

\* Whatever there is to decide on is in the log, or about to be.
THEOREM PausesFound == Spec => []PausesAreLogged
<1>1. SagaInv => PausesAreLogged
  BY DEF SagaInv
<1>2. SagaInv /\ [Next]_vars => SagaInv'
  BY SagaNextStep
<1> QED BY SagaInit, <1>1, <1>2, PTL DEF Spec

-----------------------------------------------------------------------------
(* What the log tells of an attempt.                                       *)

\* Places counted from the end.
LEMMA EntryPlaces ==
    ASSUME outbox \in Seq(Entry), NEW s
    PROVE  /\ IsFiniteSet(entries(s)) /\ Cardinality(entries(s)) \in Nat
           /\ \A i : IsFiniteSet({j \in entries(s) : j >= i})
           /\ \A i \in entries(s) : i \in Nat /\ fromEnd(s, i) \in Nat \ {0}
<1>1. IsFiniteSet(DOMAIN outbox) /\ DOMAIN outbox \subseteq Nat
  BY FS_Interval
<1>2. IsFiniteSet(entries(s))
  BY <1>1, FS_Subset DEF entries
<1>3. \A i : IsFiniteSet({j \in entries(s) : j >= i})
  BY <1>2, FS_Subset
<1>4. ASSUME NEW i \in entries(s)
      PROVE  i \in Nat /\ fromEnd(s, i) \in Nat \ {0}
  <2>1. i \in Nat
    BY <1>1 DEF entries
  <2>2. i \in {j \in entries(s) : j >= i}
    BY <2>1
  <2>3. Cardinality({j \in entries(s) : j >= i}) \in Nat \ {0}
    BY <1>3, <2>2, FS_CardinalityType, FS_EmptySet
  <2> QED BY <2>1, <2>3 DEF fromEnd
<1> QED BY <1>2, <1>3, <1>4, FS_CardinalityType

\* When an entry is added to the log.
LEMMA PlacesMove ==
    ASSUME outbox \in Seq(Entry), NEW e \in Entry, outbox' = Append(outbox, e),
           NEW s \in Sagas, NEW m \in Nat, m = Len(outbox) + 1
    PROVE  /\ outbox'[m] = e /\ m \notin entries(s)
           /\ \A i \in entries(s) : outbox'[i] = outbox[i] /\ i < m
           /\ e.saga # s =>
                  /\ entries(s)' = entries(s)
                  /\ \A i \in entries(s) : fromEnd(s, i)' = fromEnd(s, i)
           /\ e.saga = s =>
                  /\ entries(s)' = entries(s) \union {m}
                  /\ Cardinality(entries(s)') = Cardinality(entries(s)) + 1
                  /\ fromEnd(s, m)' = 1
                  /\ \A i \in entries(s) : fromEnd(s, i)' = fromEnd(s, i) + 1
<1>1. /\ m \in Nat /\ outbox'[m] = e /\ m \notin DOMAIN outbox
      /\ DOMAIN outbox' = DOMAIN outbox \union {m}
      /\ \A i \in DOMAIN outbox : outbox'[i] = outbox[i] /\ i \in Nat /\ i < m
  OBVIOUS
<1>2. \A i \in entries(s) : i \in DOMAIN outbox
  BY DEF entries
<1>3. CASE e.saga # s
  <2>1. entries(s)' = entries(s)
    BY <1>1, <1>3 DEF entries
  <2>2. \A i \in entries(s) : fromEnd(s, i)' = fromEnd(s, i)
    BY <2>1 DEF fromEnd
  <2> QED BY <1>1, <1>2, <1>3, <2>1, <2>2
<1>4. CASE e.saga = s
  <2>1. entries(s)' = entries(s) \union {m} /\ m \notin entries(s)
    BY <1>1, <1>4 DEF entries
  <2>2. Cardinality(entries(s)') = Cardinality(entries(s)) + 1
    BY <2>1, EntryPlaces, FS_AddElement
  <2>3. fromEnd(s, m)' = 1
    <3>1. {j \in entries(s)' : j >= m} = {m}
      BY <1>1, <1>2, <2>1
    <3> QED BY <3>1, FS_Singleton DEF fromEnd
  <2>4. ASSUME NEW i \in entries(s)
        PROVE  fromEnd(s, i)' = fromEnd(s, i) + 1
    <3>1. m >= i
      BY <1>1, <1>2
    <3> DEFINE S == {j \in entries(s) : j >= i}
    <3>2. {j \in entries(s)' : j >= i} = S \union {m} /\ m \notin S
      BY <2>1, <3>1
    <3>3. IsFiniteSet(S)
      BY EntryPlaces
    <3>4. Cardinality(S \union {m}) = Cardinality(S) + 1
      <4> HIDE DEF S
      <4> QED BY <3>2, <3>3, FS_AddElement
    <3> QED BY <3>2, <3>4 DEF fromEnd
  <2> QED BY <1>1, <1>2, <1>4, <2>1, <2>2, <2>3, <2>4
<1> QED BY <1>3, <1>4

\* While it compensates and when it is done with it, and at the other ends.
Told(s) ==
    /\ pc[s] = "compensating" => compensated(s, todo[s])
    /\ pc[s] = "idle" =>
           /\ how[s] = "done" => endsWith(s, "done")
           /\ how[s] = "transport" => endsWith(s, "error")
           /\ how[s] = "stopped" => compensated(s, 0)

\* What the log tells of a saga stays so as long as the saga does not move.
LEMMA ToldKept ==
    ASSUME SagaInv, SessionsEvolve, NEW s \in Sagas, Told(s),
           pc'[s] = pc[s], how'[s] = how[s], completed'[s] = completed[s],
           todo'[s] = todo[s], NEW e \in Entry,
           outbox' = outbox \/ (outbox' = Append(outbox, e) /\ e.saga # s)
    PROVE  Told(s)'
<1>1. /\ outbox \in Seq(Entry) /\ completed[s] \in Seq(SessionIDs) /\ todo[s] \in Nat
      /\ \A k \in DOMAIN completed[s] : action'[completed[s][k]] = action[completed[s][k]]
  BY StillGood DEF SagaInv, TypeOK, Progress
<1>2. /\ entries(s)' = entries(s)
      /\ \A i \in entries(s) : /\ outbox'[i] = outbox[i] /\ fromEnd(s, i)' = fromEnd(s, i)
                               /\ fromEnd(s, i) \in Nat \ {0}
  <2>1. CASE outbox' = outbox
    <3>1. entries(s)' = entries(s)
      BY <2>1 DEF entries
    <3> QED BY <1>1, <2>1, <3>1, EntryPlaces DEF fromEnd
  <2>2. CASE outbox' = Append(outbox, e) /\ e.saga # s
    <3>1. PICK m \in Nat : m = Len(outbox) + 1
      BY <1>1
    <3>2. outbox \in Seq(Entry) /\ outbox' = Append(outbox, e)
      BY <1>1, <2>2
    <3>3. \A i \in entries(s) : outbox'[i] = outbox[i]
      <4>1. \A i \in DOMAIN outbox : outbox'[i] = outbox[i]
        BY <3>2
      <4> QED BY <4>1 DEF entries
    <3>4. /\ entries(s)' = entries(s)
          /\ \A i \in entries(s) : fromEnd(s, i)' = fromEnd(s, i)
      BY <2>2, <3>1, <3>2, PlacesMove
    <3>5. \A i \in entries(s) : fromEnd(s, i) \in Nat \ {0}
      BY <3>2, EntryPlaces
    <3> QED BY <3>3, <3>4, <3>5
  <2> QED BY <2>1, <2>2
<1>3. \A kind : endsWith(s, kind) => endsWith(s, kind)'
  BY <1>2 DEF endsWith
<1>4. ASSUME NEW d \in Nat, compensated(s, d)
      PROVE  compensated(s, d)'
  <2> DEFINE n == Len(completed[s]) - d
  <2>1. /\ n \in Int /\ n = (Len(completed[s]) - d)' /\ Cardinality(entries(s))' > n
    BY <1>1, <1>2, <1>4 DEF compensated
  <2>2. ASSUME NEW i \in entries(s)
        PROVE  /\ fromEnd(s, i) = n + 1 => outbox[i].kind = "step" /\ Stops(outbox[i].status)
               /\ fromEnd(s, i) <= n =>
                      /\ outbox[i].kind = "compensate"
                      /\ outbox[i].step = action'[completed[s][d + fromEnd(s, i)]]
    <3>1. fromEnd(s, i) <= n => d + fromEnd(s, i) \in DOMAIN completed[s]
      BY <1>1, <1>2
    <3> QED BY <1>1, <1>4, <3>1 DEF compensated
  <2> HIDE DEF n
  <2>3. ASSUME NEW i \in entries(s)'
        PROVE  /\ fromEnd(s, i)' = n + 1 =>
                      outbox'[i].kind = "step" /\ Stops(outbox'[i].status)
               /\ fromEnd(s, i)' <= n =>
                      /\ outbox'[i].kind = "compensate"
                      /\ outbox'[i].step = action'[completed'[s][d + fromEnd(s, i)']]
    <3>1. i \in entries(s) /\ outbox'[i] = outbox[i] /\ fromEnd(s, i)' = fromEnd(s, i)
      BY <1>2
    <3> QED BY <2>2, <3>1
  <2> QED BY <2>1, <2>3 DEF compensated
<1> QED BY <1>1, <1>3, <1>4 DEF Told

LEMMA StepEvolves ==
    ASSUME SagaInv, [Next]_vars
    PROVE  SessionsEvolve
<1>1. ASSUME NEW s \in Sagas, UNCHANGED <<people, action>>
      PROVE  SessionsEvolve
  BY <1>1, QuietStep
<1>2. ASSUME NEW s \in Sagas,
             \/ StartSaga(s) \/ BadStep(s) \/ Finish(s) \/ Save(s) \/ outputFromSession(s)
             \/ Judge(s) \/ RecordCompensate(s)
      PROVE  SessionsEvolve
  BY <1>1, <1>2 DEF StartSaga, BadStep, Finish, Save, outputFromSession, Judge,
     RecordCompensate, invoker
<1>3. ASSUME NEW s \in Sagas, NEW id \in SessionIDs,
             Invoke(s, id) \/ InvokeError(s, id) \/ InvokePanics(s, id)
      PROVE  SessionsEvolve
  <2>1. PICK st \in Statuses \ {"unused"} : invokes(s, id, st)
    BY <1>3 DEF Invoke, InvokeError, InvokePanics, Statuses
  <2>2. stepTodo(s) /\ UNCHANGED <<approved, resuming>>
        /\ stored' \in {stored, stored \union {id}}
    BY <1>3 DEF Invoke, InvokeError, InvokePanics
  <2> QED BY <2>1, <2>2, FreshSession
<1>4. ASSUME NEW id \in SessionIDs, Approve(id) \/ Resume(id) \/ Reject(id)
      PROVE  SessionsEvolve
  <2>1. \E st \in {"running", "failed", "succeeded", "rejected"} :
            status' = [status EXCEPT ![id] = st]
    BY <1>4 DEF Approve, Resume, Reject
  <2> QED BY <1>4, <2>1
          DEF SessionsEvolve, Evolves, Approve, Resume, Reject, undecided, invoker, saga,
              SagaInv, Decided, TypeOK
<1>5. CASE UNCHANGED vars
  BY <1>5 DEF vars, people, invoker, SessionsEvolve, Evolves
<1> QED BY <1>2, <1>3, <1>4, <1>5 DEF Next, SagaStep

\* A saga moves alone, and writes in its own name.
LEMMA SagaMoves ==
    ASSUME SagaInv, NEW s \in Sagas, StartSaga(s) \/ SagaStep(s)
    PROVE  /\ \A r \in Sagas \ {s} :
                  /\ pc'[r] = pc[r] /\ how'[r] = how[r] /\ completed'[r] = completed[r]
                  /\ todo'[r] = todo[r]
           /\ \/ outbox' = outbox
              \/ \E e \in Entry : outbox' = Append(outbox, e) /\ e.saga = s
<1> USE DEF at, goto, end, saga, invoker, people
<1>1. /\ TypeOK /\ step(s) \in Names \union {NoName}
      /\ pc[s] = "judging" => current[s] \in SessionIDs
      /\ pc[s] = "compensating" /\ todo[s] > 0 => completed[s][todo[s]] \in SessionIDs
  <2>1. TypeOK /\ completed[s] \in Seq(SessionIDs) /\ todo[s] \in Nat
    BY DEF SagaInv, TypeOK
  <2>2. pc[s] = "compensating" => todo[s] <= Len(completed[s])
    BY DEF SagaInv, Progress
  <2>3. pc[s] = "judging" => current[s] \in SessionIDs
    BY DEF SagaInv, InHand
  <2> QED BY <2>1, <2>2, <2>3, StepType
<1>2. ASSUME NEW kind \in {"step", "error", "compensate", "done"},
             NEW name \in Names \union {NoName},
             NEW id \in SessionIDs \union {NoSession},
             NEW st \in Statuses \union {"pending"},
             outbox' = Append(outbox, entry(s, kind, name, id, st))
      PROVE  \E e \in Entry : outbox' = Append(outbox, e) /\ e.saga = s
  <2>1. entry(s, kind, name, id, st) \in Entry
    BY EntryType
  <2>2. entry(s, kind, name, id, st).saga = s
    BY DEF entry
  <2> QED BY <1>2, <2>1, <2>2
<1>3. CASE StartSaga(s) \/ BadStep(s)
  BY <1>1, <1>3 DEF StartSaga, BadStep, TypeOK
<1>4. CASE Finish(s)
  BY <1>1, <1>2, <1>4 DEF Finish, Log, TypeOK, Statuses
<1>5. ASSUME NEW id \in SessionIDs, Invoke(s, id) \/ InvokePanics(s, id)
      PROVE  /\ \A r \in Sagas \ {s} :
                    /\ pc'[r] = pc[r] /\ how'[r] = how[r] /\ completed'[r] = completed[r]
                    /\ todo'[r] = todo[r]
             /\ outbox' = outbox
  BY <1>1, <1>5 DEF Invoke, InvokePanics, TypeOK
<1>6. ASSUME transportError(s)
      PROVE  /\ \A r \in Sagas \ {s} :
                    /\ pc'[r] = pc[r] /\ how'[r] = how[r] /\ completed'[r] = completed[r]
                    /\ todo'[r] = todo[r]
             /\ \E e \in Entry : outbox' = Append(outbox, e) /\ e.saga = s
  BY <1>1, <1>2, <1>6 DEF transportError, Log, TypeOK, Statuses
<1>7. CASE Save(s) \/ \E id \in SessionIDs : InvokeError(s, id)
  BY <1>1, <1>6, <1>7 DEF Save, InvokeError, TypeOK
<1>8. CASE outputFromSession(s)
  BY <1>1, <1>8 DEF outputFromSession, TypeOK
<1>9. CASE Judge(s)
  <2>1. \E e \in Entry : outbox' = Append(outbox, e) /\ e.saga = s
    BY <1>1, <1>2, <1>9 DEF Judge, Log, TypeOK
  <2> QED BY <1>1, <1>9, <2>1 DEF Judge, TypeOK
<1>10. CASE RecordCompensate(s)
  <2>1. outbox' = outbox \/ \E e \in Entry : outbox' = Append(outbox, e) /\ e.saga = s
    BY <1>1, <1>2, <1>10 DEF RecordCompensate, Log, TypeOK
  <2> QED BY <1>1, <1>10, <2>1 DEF RecordCompensate, TypeOK
<1> QED BY <1>3, <1>4, <1>5, <1>7, <1>8, <1>9, <1>10 DEF SagaStep

LEMMA EndTold ==
    ASSUME SagaInv, NEW s \in Sagas, NEW e \in Entry, outbox' = Append(outbox, e),
           e.saga = s
    PROVE  endsWith(s, e.kind)'
<1>1. outbox \in Seq(Entry)
  BY DEF SagaInv, TypeOK
<1>2. PICK m \in Nat : m = Len(outbox) + 1
  BY <1>1
<1>3. /\ outbox'[m] = e /\ entries(s)' = entries(s) \union {m}
      /\ \A i \in entries(s) : i < m
  BY <1>1, <1>2, PlacesMove
<1>4. \A j \in entries(s)' : j <= m
  BY <1>1, <1>2, <1>3, EntryPlaces
<1> QED BY <1>3, <1>4 DEF endsWith

\* The entry of the step that stops a saga.
LEMMA JudgeTold ==
    ASSUME SagaInv, NEW s \in Sagas, Judge(s)
    PROVE  Told(s)'
<1>1. /\ outbox \in Seq(Entry) /\ completed[s] \in Seq(SessionIDs) /\ pc[s] = "judging"
      /\ current[s] \in SessionIDs /\ seen[s] \in Statuses
      /\ step(s) \in Names \union {NoName}
  BY StepType DEF SagaInv, TypeOK, InHand, Judge, at
<1>2. CASE pc' = [pc EXCEPT ![s] = "stepping"]
  BY <1>2 DEF SagaInv, TypeOK, Told
<1>3. CASE /\ Stops(seen[s]) /\ todo' = [todo EXCEPT ![s] = Len(completed[s])]
           /\ pc' = [pc EXCEPT ![s] = "compensating"] /\ completed' = completed
  <2>1. pc'[s] = "compensating" /\ todo'[s] = Len(completed'[s])
    BY <1>3 DEF SagaInv, TypeOK
  <2>2. PICK e \in Entry : /\ outbox' = Append(outbox, e) /\ e.saga = s
                           /\ e.kind = "step" /\ e.status = seen[s]
    <3>1. entry(s, "step", step(s), current[s], seen[s]) \in Entry
      BY <1>1, EntryType
    <3> QED BY <3>1 DEF Judge, Log, entry
  <2>3. PICK m \in Nat : m = Len(outbox) + 1
    BY <1>1
  <2>4. /\ outbox'[m] = e /\ entries(s)' = entries(s) \union {m}
        /\ Cardinality(entries(s)') = Cardinality(entries(s)) + 1
        /\ \A i \in entries(s) : fromEnd(s, i)' = fromEnd(s, i) + 1
    BY <1>1, <2>2, <2>3, PlacesMove
  <2>5. Cardinality(entries(s)') > 0 /\ \A i \in entries(s) : fromEnd(s, i)' > 1
    BY <1>1, <2>4, EntryPlaces
  <2>6. \A i \in entries(s)' :
            /\ fromEnd(s, i)' >= 1
            /\ fromEnd(s, i)' = 1 => outbox'[i].kind = "step" /\ Stops(outbox'[i].status)
    <3>1. \A i \in entries(s)' : fromEnd(s, i)' \in Nat \ {0}
      <4>1. \A i \in entries(s) : fromEnd(s, i)' \in Nat \ {0}
        BY <1>1, <2>4, EntryPlaces
      <4>2. fromEnd(s, m)' = 1
        BY <1>1, <2>2, <2>3, PlacesMove
      <4> QED BY <2>4, <4>1, <4>2
    <3>2. Stops(e.status)
      BY <1>3, <2>2
    <3>3. ASSUME NEW i \in entries(s)'
          PROVE  /\ fromEnd(s, i)' >= 1
                 /\ fromEnd(s, i)' = 1 =>
                        outbox'[i].kind = "step" /\ Stops(outbox'[i].status)
      <4>1. fromEnd(s, i)' >= 1
        BY <3>1
      <4>2. CASE i = m
        BY <2>2, <2>4, <3>2, <4>1, <4>2
      <4>3. CASE i \in entries(s)
        <5>1. fromEnd(s, i)' # 1
          BY <2>5, <3>1, <4>3
        <5> QED BY <4>1, <5>1
      <4> QED BY <2>4, <4>2, <4>3
    <3> QED BY <3>3
  <2>7. Len(completed'[s]) - todo'[s] = 0 /\ Len(completed'[s]) \in Nat
    BY <1>1, <1>3, <2>1
  <2>8. compensated(s, todo[s])'
    <3>1. \A i \in entries(s)' : fromEnd(s, i)' \in Int
      <4>1. fromEnd(s, m)' = 1
        BY <1>1, <2>2, <2>3, PlacesMove
      <4> QED BY <1>1, <2>4, <4>1, EntryPlaces
    <3> QED BY <2>5, <2>6, <2>7, <3>1
            DEF compensated, Stops, IsFailure, IsAwaitingApproval
  <2> QED BY <2>1, <2>8 DEF Told
<1> QED BY <1>2, <1>3 DEF Judge, goto

\* One more compensation, or none left.
LEMMA CompensateTold ==
    ASSUME SagaInv, NEW s \in Sagas, Told(s), RecordCompensate(s)
    PROVE  Told(s)'
<1> DEFINE n == Len(completed[s]) - todo[s]
<1>1. /\ outbox \in Seq(Entry) /\ completed[s] \in Seq(SessionIDs)
      /\ pc[s] = "compensating" /\ compensated(s, todo[s])
      /\ todo[s] \in Nat /\ todo[s] <= Len(completed[s])
      /\ UNCHANGED <<action, completed>>
  BY DEF SagaInv, TypeOK, Progress, RecordCompensate, at, Told, invoker
<1>2. CASE todo[s] = 0 /\ end(s, "failed", "stopped") /\ outbox' = outbox
  <2>1. pc'[s] = "idle" /\ how'[s] = "stopped"
    BY <1>2 DEF end, goto, SagaInv, TypeOK
  <2>2. compensated(s, 0)
    BY <1>1, <1>2
  <2>3. entries(s)' = entries(s) /\ \A i \in entries(s) : fromEnd(s, i)' = fromEnd(s, i)
    BY <1>2 DEF entries, fromEnd
  <2>4. compensated(s, 0)'
    BY <1>1, <1>2, <2>2, <2>3 DEF compensated, Stops, IsFailure, IsAwaitingApproval
  <2> QED BY <2>1, <2>4 DEF Told
<1>3. CASE /\ todo[s] > 0 /\ UNCHANGED pc /\ todo' = [todo EXCEPT ![s] = @ - 1]
           /\ Log(entry(s, "compensate", action[completed[s][todo[s]]], NoSession, "pending"))
  <2>1. pc'[s] = "compensating" /\ todo'[s] = todo[s] - 1
    BY <1>1, <1>3 DEF SagaInv, TypeOK
  <2>2. PICK e \in Entry : /\ outbox' = Append(outbox, e) /\ e.saga = s
                           /\ e.kind = "compensate"
                           /\ e.step = action[completed[s][todo[s]]]
    <3>1. completed[s][todo[s]] \in SessionIDs
      BY <1>1, <1>3
    <3>2. entry(s, "compensate", action[completed[s][todo[s]]], NoSession, "pending") \in Entry
      BY <3>1, EntryType DEF SagaInv, TypeOK
    <3> QED BY <1>3, <3>2 DEF Log, entry
  <2>3. PICK m \in Nat : m = Len(outbox) + 1
    BY <1>1
  <2>4. /\ outbox'[m] = e /\ entries(s)' = entries(s) \union {m}
        /\ Cardinality(entries(s)') = Cardinality(entries(s)) + 1
        /\ fromEnd(s, m)' = 1
        /\ \A i \in entries(s) : outbox'[i] = outbox[i] /\ fromEnd(s, i)' = fromEnd(s, i) + 1
    <3>1. \A i \in entries(s) : outbox'[i] = outbox[i]
      BY <1>1, <2>2 DEF entries
    <3>2. /\ outbox'[m] = e /\ entries(s)' = entries(s) \union {m}
          /\ Cardinality(entries(s)') = Cardinality(entries(s)) + 1
          /\ fromEnd(s, m)' = 1
          /\ \A i \in entries(s) : fromEnd(s, i)' = fromEnd(s, i) + 1
      BY <1>1, <2>2, <2>3, PlacesMove
    <3> QED BY <3>1, <3>2
  <2>5. /\ n \in Nat /\ Len(completed'[s]) - todo'[s] = n + 1
        /\ Cardinality(entries(s)) \in Nat
        /\ \A i \in entries(s) : fromEnd(s, i) \in Nat \ {0}
    BY <1>1, <1>3, <2>1, EntryPlaces
  <2>6. /\ Cardinality(entries(s)) > n
        /\ \A i \in entries(s) :
               /\ fromEnd(s, i) = n + 1 => outbox[i].kind = "step" /\ Stops(outbox[i].status)
               /\ fromEnd(s, i) <= n =>
                      /\ outbox[i].kind = "compensate"
                      /\ outbox[i].step = action[completed[s][todo[s] + fromEnd(s, i)]]
    BY <1>1 DEF compensated
  <2> HIDE DEF n
  <2>7. ASSUME NEW i \in entries(s)'
        PROVE  /\ fromEnd(s, i)' = n + 2 =>
                      outbox'[i].kind = "step" /\ Stops(outbox'[i].status)
               /\ fromEnd(s, i)' <= n + 1 =>
                      /\ outbox'[i].kind = "compensate"
                      /\ outbox'[i].step = action[completed[s][todo[s] - 1 + fromEnd(s, i)']]
    <3>1. CASE i = m
      <4>1. outbox'[i] = e /\ fromEnd(s, i)' = 1
        BY <2>4, <3>1
      <4>2. todo[s] - 1 + fromEnd(s, i)' = todo[s] /\ fromEnd(s, i)' # n + 2
        BY <1>1, <2>5, <4>1
      <4> QED BY <2>2, <4>1, <4>2
    <3>2. CASE i \in entries(s)
      <4>1. /\ outbox'[i] = outbox[i] /\ fromEnd(s, i)' = fromEnd(s, i) + 1
            /\ fromEnd(s, i) \in Nat
        BY <2>4, <2>5, <3>2
      <4>2. todo[s] - 1 + (fromEnd(s, i) + 1) = todo[s] + fromEnd(s, i)
        BY <1>1, <4>1
      <4>3. fromEnd(s, i)' = n + 2 => fromEnd(s, i) = n + 1
        BY <2>5, <4>1
      <4>4. fromEnd(s, i)' <= n + 1 => fromEnd(s, i) <= n
        BY <2>5, <4>1
      <4> QED BY <2>6, <3>2, <4>1, <4>2, <4>3, <4>4
    <3> QED BY <2>4, <3>1, <3>2
  <2>8. compensated(s, todo[s])'
    <3>1. n + 1 + 1 = n + 2 /\ Cardinality(entries(s)') > n + 1
      BY <2>4, <2>5, <2>6
    <3> QED BY <1>1, <2>1, <2>5, <2>7, <3>1
            DEF compensated, Stops, IsFailure, IsAwaitingApproval
  <2> QED BY <2>1, <2>8 DEF Told
<1> QED BY <1>1, <1>2, <1>3 DEF RecordCompensate

LEMMA ToldStep ==
    ASSUME SagaInv, \A s \in Sagas : Told(s), [Next]_vars
    PROVE  \A s \in Sagas : Told(s)'
<1>1. SessionsEvolve
  BY StepEvolves
<1>2. ASSUME NEW s \in Sagas, StartSaga(s) \/ SagaStep(s)
      PROVE  Told(s)'
  <2> USE DEF at, goto, end, saga
  <2>0. TypeOK /\ step(s) \in Names \union {NoName}
    BY StepType DEF SagaInv
  <2>1. ASSUME pc'[s] \in {"stepping", "saving", "status", "rest", "judging"}
        PROVE  Told(s)'
    BY <2>1 DEF Told
  <2>2. CASE StartSaga(s) \/ outputFromSession(s)
    BY <2>0, <2>1, <2>2 DEF StartSaga, outputFromSession, TypeOK
  <2>3. ASSUME pc'[s] = "idle", how'[s] \in {"badstep", "panic"}
        PROVE  Told(s)'
    BY <2>3 DEF Told
  <2>4. CASE BadStep(s)
    BY <2>0, <2>3, <2>4 DEF BadStep, TypeOK
  <2>5. ASSUME NEW id \in SessionIDs, Invoke(s, id) \/ InvokePanics(s, id)
        PROVE  Told(s)'
    BY <2>0, <2>1, <2>3, <2>5 DEF Invoke, InvokePanics, TypeOK
  <2>6. CASE Finish(s)
    <3>1. pc'[s] = "idle" /\ how'[s] = "done"
      BY <2>0, <2>6 DEF Finish, TypeOK
    <3>2. endsWith(s, "done")'
      <4> DEFINE e == entry(s, "done", NoName, NoSession, "succeeded")
      <4>1. e \in Entry
        BY EntryType DEF Statuses
      <4>2. e.saga = s /\ e.kind = "done"
        BY DEF entry
      <4>3. outbox' = Append(outbox, e)
        BY <2>6 DEF Finish, Log
      <4> HIDE DEF e
      <4> QED BY <4>1, <4>2, <4>3, EndTold
    <3> QED BY <3>1, <3>2 DEF Told
  <2>7. ASSUME transportError(s)
        PROVE  Told(s)'
    <3>1. pc'[s] = "idle" /\ how'[s] = "transport"
      BY <2>0, <2>7 DEF transportError, TypeOK
    <3>2. endsWith(s, "error")'
      <4> DEFINE e == entry(s, "error", step(s), NoSession, "failed")
      <4>1. e \in Entry
        BY <2>0, EntryType DEF Statuses
      <4>2. e.saga = s /\ e.kind = "error"
        BY DEF entry
      <4>3. outbox' = Append(outbox, e)
        BY <2>7 DEF transportError, Log
      <4> HIDE DEF e
      <4> QED BY <4>1, <4>2, <4>3, EndTold
    <3> QED BY <3>1, <3>2 DEF Told
  <2>8. CASE Save(s) \/ \E id \in SessionIDs : InvokeError(s, id)
    BY <2>0, <2>1, <2>7, <2>8 DEF Save, InvokeError, TypeOK
  <2> QED BY <1>2, <2>2, <2>4, <2>5, <2>6, <2>8, JudgeTold, CompensateTold DEF SagaStep
<1>3. ASSUME NEW s \in Sagas, StartSaga(s) \/ SagaStep(s), NEW r \in Sagas \ {s}
      PROVE  Told(r)'
  <2>1. /\ pc'[r] = pc[r] /\ how'[r] = how[r] /\ completed'[r] = completed[r]
        /\ todo'[r] = todo[r]
    BY <1>3, SagaMoves
  <2>2. PICK e \in Entry : outbox' = outbox \/ (outbox' = Append(outbox, e) /\ e.saga # r)
    <3>1. CASE outbox' = outbox
      <4>1. \E e : e \in Entry
        BY EntryType DEF Statuses
      <4> QED BY <3>1, <4>1
    <3> QED BY <1>3, <3>1, SagaMoves
  <2> QED BY <1>1, <2>1, <2>2, ToldKept
<1>4. ASSUME UNCHANGED <<saga, pc>>, NEW r \in Sagas
      PROVE  Told(r)'
  <2>1. PICK e : e \in Entry
    BY EntryType DEF Statuses
  <2> QED BY <1>1, <1>4, <2>1, ToldKept DEF saga
<1>5. ASSUME NEW id \in SessionIDs, Approve(id) \/ Resume(id) \/ Reject(id)
      PROVE  UNCHANGED <<saga, pc>>
  BY <1>5 DEF Approve, Resume, Reject
<1>6. CASE UNCHANGED vars
  BY <1>4, <1>6 DEF vars
<1> QED BY <1>2, <1>3, <1>4, <1>5, <1>6 DEF Next

\* However the entries of several sagas interleave, each finds at the end of its
\* own the way its last attempt went, the compensations in their order included.
THEOREM LogKeepsTheEnd == Spec => []LogTellsEnd
<1> DEFINE AllTold == \A s \in Sagas : Told(s)
<1>1. Init => AllTold
  BY DEF Init, Told
<1>2. SagaInv /\ AllTold /\ [Next]_vars => AllTold'
  BY ToldStep
<1>3. AllTold => LogTellsEnd
  BY DEF Told, LogTellsEnd, at
<1>4. SagaInv /\ [Next]_vars => SagaInv'
  BY SagaNextStep
<1> HIDE DEF AllTold
<1> QED BY SagaInit, <1>1, <1>2, <1>3, <1>4, PTL DEF Spec
=============================================================================
