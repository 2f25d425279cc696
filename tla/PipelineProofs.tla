--------------------------- MODULE PipelineProofs ----------------------------
(***************************************************************************)
(* Theorems about the pipeline, for any number of steps, any set of hooks  *)
(* and any number of attempts.                                             *)
(***************************************************************************)
EXTENDS Pipeline, TLAPS

-----------------------------------------------------------------------------
(* The inductive invariant.                                                *)

\* The outputs of the attempt are its own effects, in the order of the steps.
Own(a, outputs) == \A i \in DOMAIN outputs : outputs[i] = Effect(a, i)

\* Nothing stands that no attempt has tried.
Tried ==
    \A e \in world :
        /\ e.attempt <= attempt
        /\ e.attempt = attempt =>
               \/ e.step <= Len(completed)
               \/ e.step = Len(completed) + 1 /\ pc # "invoking"

\* Before a failure, everything completed stands and nothing is recorded.
Forward ==
    /\ pc = "invoking" =>
           /\ compensated = <<>> /\ errors = 0
           /\ \A i \in DOMAIN completed : completed[i] \in world
    /\ pc = "succeeded" => {Effect(attempt, i) : i \in Steps} \subseteq world

Visited(i) == \E k \in DOMAIN compensated : compensated[k].step = i

\* What the hooks have been called for, and what is left where none was.
Called ==
    /\ \A k \in DOMAIN compensated :
           /\ compensated[k].step \in cursor + 1 .. Len(completed)
           /\ compensated[k].output = completed[compensated[k].step]
           /\ compensated[k].ok => compensated[k].output \notin world
    /\ \A i \in DOMAIN completed : completed[i] \in world \/ Visited(i)

\* The walk has called every hook above its lowest stop, and above the cursor
\* an effect is left with a reason.
Walked ==
    /\ \A i, j \in DOMAIN completed :
           i < j /\ j \in hooked /\ (Visited(i) \/ i = cursor) => Visited(j)
    /\ \A i \in DOMAIN completed :
           i > cursor /\ i \in hooked /\ completed[i] \in world => errors > 0

Backward ==
    pc \in {"compensating", "failed"} =>
        /\ Len(completed) < N
        /\ pc = "failed" => cursor = 0
        /\ Called
        /\ Walked

\* There is a record for each attempt that has failed, and it is true: of what
\* is gone, what stands, and why.
Counted ==
    Len(records) = IF pc \in {"failed", "returned"} THEN attempt ELSE attempt - 1

Explained(r, e) == e.step = r.failed \/ e.step \notin hooked \/ r.errors > 0

Truthful ==
    /\ \A a \in DOMAIN records : Own(a, records[a].completed)
    /\ RecordsTellStanding
    /\ \A e \in world :
           e.attempt \in DOMAIN records => Explained(records[e.attempt], e)

PipelineInv ==
    TypeOK /\ Own(attempt, completed) /\ Tried /\ Forward /\ Backward
    /\ Counted /\ Truthful

-----------------------------------------------------------------------------
(* Types.                                                                  *)

LEMMA EffectFields ==
    /\ \A a, i : Effect(a, i).attempt = a /\ Effect(a, i).step = i
    /\ \A a \in 1 .. MaxAttempts, i \in Steps : Effect(a, i) \in Effects
    /\ \A e \in Effects : e.attempt \in 1 .. MaxAttempts /\ e.step \in Steps
                          /\ e = Effect(e.attempt, e.step)
BY DEF Effect, Effects

LEMMA TypeInit == Init => TypeOK
<1> SUFFICES ASSUME Init
             PROVE  TypeOK
  OBVIOUS
<1>1. MaxAttempts >= 1 /\ MaxAttempts \in Nat
  BY PipelineAssumption
<1>2. completed \in Seq(Effects) /\ Len(completed) = 0
  BY DEF Init
<1>3. compensated \in Seq(CompensatedStep) /\ records \in Seq(PipelineFailure)
  BY DEF Init
<1>4. hooked \subseteq Steps /\ world \subseteq Effects
  BY DEF Init
<1>5. attempt \in 1 .. MaxAttempts
  BY <1>1 DEF Init
<1>6. cursor \in 0 .. Len(completed) /\ errors \in Nat /\ Len(completed) <= N
  BY <1>2, PipelineAssumption DEF Init
<1> QED BY <1>2, <1>3, <1>4, <1>5, <1>6 DEF Init, TypeOK

LEMMA TypeStep ==
    ASSUME PipelineInv, [Next]_vars
    PROVE  TypeOK'
<1> USE PipelineAssumption DEF PipelineInv, TypeOK
<1>1. CASE StepSucceeds
  <2>1. Effect(attempt, next) \in Effects
    BY <1>1, EffectFields DEF StepSucceeds, next, Steps
  <2> QED BY <1>1, <2>1 DEF StepSucceeds, next
<1>2. CASE StepFails
  <2>1. Effect(attempt, next) \in Effects
    BY <1>2, EffectFields DEF StepFails, next, Steps
  <2> QED BY <1>2, <2>1 DEF StepFails, last
<1>3. CASE Panic
  <2>1. next <= N => Effect(attempt, next) \in Effects
    BY EffectFields DEF next, Steps
  <2> QED BY <1>3, <2>1 DEF Panic
<1>4. CASE Finish
  BY <1>4 DEF Finish
<1>5. CASE HookSucceeds \/ HookFails
  <2>1. cursor \in 1 .. Len(completed) /\ completed[cursor] \in Effects
    <3>1. walking
      BY <1>5 DEF HookSucceeds, HookFails
    <3> QED BY <3>1 DEF walking
  <2>2. PICK ok \in BOOLEAN : tried(ok)
    BY <1>5 DEF HookSucceeds, HookFails
  <2>3. [step |-> cursor, output |-> completed[cursor], ok |-> ok]
            \in CompensatedStep
    BY <2>1 DEF CompensatedStep, Steps
  <2>4. compensated' \in Seq(CompensatedStep)
    BY <2>2, <2>3 DEF tried, ownOutput
  <2>5. /\ world' \subseteq world /\ errors' \in {errors, errors + 1}
        /\ cursor' = cursor - 1
        /\ UNCHANGED <<hooked, pc, attempt, completed, cancelled, records>>
    BY <1>5 DEF HookSucceeds, HookFails, backward
  <2> QED BY <2>1, <2>4, <2>5
<1>6. CASE NoHook
  BY <1>6 DEF NoHook, walking, backward
<1>7. CASE StopWalk
  BY <1>7 DEF StopWalk
<1>8. CASE ReturnFailure
  <2>1. next \in Steps
    BY <1>8 DEF ReturnFailure, Backward, next, Steps
  <2>2. [failed |-> next, completed |-> completed, compensated |-> compensated,
         errors |-> errors] \in PipelineFailure
    BY <2>1 DEF PipelineFailure
  <2> QED BY <1>8, <2>2 DEF ReturnFailure
<1>9. CASE Retry
  BY <1>9 DEF Retry, Backward
<1>10. CASE GiveUp \/ Cancel
  BY <1>10 DEF GiveUp, Cancel
<1>11. CASE UNCHANGED vars
  BY <1>11 DEF vars
<1> QED
  BY <1>1, <1>2, <1>3, <1>4, <1>5, <1>6, <1>7, <1>8, <1>9, <1>10, <1>11
     DEF Next, Step, Walk

-----------------------------------------------------------------------------
(* The invariant.                                                          *)

LEMMA InvInit == Init => PipelineInv
<1> SUFFICES ASSUME Init
             PROVE  PipelineInv
  OBVIOUS
<1>1. TypeOK
  BY TypeInit
<1>2. DOMAIN completed = {} /\ DOMAIN records = {} /\ Len(records) = 0
  BY DEF Init
<1>3. Own(attempt, completed) /\ Tried /\ Forward /\ Backward
  BY <1>2 DEF Init, Own, Tried, Forward, Backward
<1>4. Counted
  BY <1>2 DEF Init, Counted
<1>5. Truthful
  BY <1>2 DEF Init, Truthful, RecordsTellStanding
<1> QED BY <1>1, <1>3, <1>4, <1>5 DEF PipelineInv

\* A step that changes the world in the current attempt only keeps the records
\* of the earlier ones true.
LEMMA PastStays ==
    ASSUME PipelineInv, pc \notin {"failed", "returned"},
           UNCHANGED <<hooked, records>>,
           world' \subseteq Effects,
           \A e \in Effects : e.attempt # attempt => (e \in world' <=> e \in world)
    PROVE  Truthful'
<1> USE DEF PipelineInv, TypeOK
<1>1. \A a \in DOMAIN records : a # attempt /\ records[a] \in PipelineFailure
  BY DEF Counted
<1>2. RecordsTellStanding'
  <2> SUFFICES ASSUME NEW a \in DOMAIN records,
                      NEW i \in DOMAIN records[a].completed
               PROVE  LET e == records[a].completed[i]
                      IN  e \in world' <=> e \in world
    BY DEF Truthful, RecordsTellStanding, CalledFor, UndoneBy
  <2>1. records[a].completed[i] = Effect(a, i)
    BY DEF Truthful, Own
  <2>2. records[a].completed[i] \in Effects
    BY <1>1 DEF PipelineFailure
  <2> QED BY <1>1, <2>1, <2>2, EffectFields
<1>3. \A e \in world' :
          e.attempt \in DOMAIN records => Explained(records[e.attempt], e)
  BY <1>1 DEF Truthful
<1> QED BY <1>2, <1>3 DEF Truthful, Explained, Own

\* The steps before a failure.
LEMMA InvokingStep ==
    ASSUME PipelineInv, StepSucceeds \/ StepFails \/ Panic \/ Finish, TypeOK'
    PROVE  PipelineInv'
<1> USE DEF PipelineInv
<1>1. CASE StepSucceeds
  <2>1. /\ pc = "invoking" /\ pc' = pc /\ attempt' = attempt
        /\ completed' = Append(completed, Effect(attempt, next))
        /\ world' = world \union {Effect(attempt, next)}
        /\ UNCHANGED <<hooked, cursor, compensated, errors, records>>
        /\ completed \in Seq(Effects) /\ attempt \in Nat
    BY <1>1 DEF StepSucceeds, TypeOK
  <2>2. /\ Len(completed') = Len(completed) + 1
        /\ \A i \in DOMAIN completed : completed'[i] = completed[i]
        /\ completed'[next] = Effect(attempt, next)
        /\ DOMAIN completed' = DOMAIN completed \union {next}
    BY <2>1 DEF next
  <2>3. Own(attempt, completed)'
    BY <2>1, <2>2 DEF Own
  <2>4. Tried'
    <3> SUFFICES ASSUME NEW e \in world'
                 PROVE  e.attempt <= attempt
                        /\ (e.attempt = attempt => e.step <= Len(completed) + 1)
      BY <2>1, <2>2 DEF Tried
    <3>1. CASE e \in world
      BY <3>1, <2>1, EffectFields DEF Tried, TypeOK, Steps
    <3>2. CASE e = Effect(attempt, next)
      BY <3>2, <2>1, EffectFields DEF next
    <3> QED BY <3>1, <3>2, <2>1
  <2>5. Forward' /\ Backward' /\ Counted'
    BY <2>1, <2>2 DEF Forward, Backward, Counted
  <2>6. Truthful'
    BY <2>1, PastStays, EffectFields DEF TypeOK
  <2> QED BY <2>3, <2>4, <2>5, <2>6
<1>2. CASE StepFails
  <2>1. /\ pc = "invoking" /\ pc' = "compensating" /\ next <= N
        /\ world' \in {world, world \union {Effect(attempt, next)}}
        /\ cursor' = Len(completed)
        /\ UNCHANGED <<hooked, attempt, completed, compensated, errors, records>>
        /\ completed \in Seq(Effects) /\ attempt \in Nat /\ N \in Nat
    BY <1>2, PipelineAssumption DEF StepFails, TypeOK, last
  <2>2. Own(attempt, completed)'
    BY <2>1 DEF Own
  <2>3. Tried'
    BY <2>1, EffectFields DEF Tried, TypeOK, next
  <2>4. compensated = <<>> /\ \A i \in DOMAIN completed : completed[i] \in world'
    BY <2>1 DEF Forward
  <2>5. Called' /\ Walked'
    BY <2>1, <2>4 DEF Called, Walked, Visited
  <2>6. Forward' /\ Backward' /\ Counted'
    BY <2>1, <2>5 DEF Forward, Backward, Counted, next
  <2>7. Truthful'
    BY <2>1, PastStays, EffectFields DEF TypeOK
  <2> QED BY <2>2, <2>3, <2>6, <2>7
<1>3. CASE Panic
  <2>1. /\ pc \in {"invoking", "compensating"} /\ pc' = "panicked"
        /\ world' \in {world, world \union {Effect(attempt, next)}}
        /\ UNCHANGED <<hooked, attempt, completed, cursor, compensated, errors,
                       records>>
        /\ attempt \in Nat
    BY <1>3 DEF Panic, TypeOK
  <2>2. Own(attempt, completed)' /\ Forward' /\ Backward' /\ Counted'
    BY <2>1 DEF Own, Forward, Backward, Counted
  <2>3. Tried'
    BY <2>1, EffectFields DEF Tried, TypeOK, next
  <2>4. Truthful'
    BY <2>1, PastStays, EffectFields DEF TypeOK
  <2> QED BY <2>2, <2>3, <2>4
<1>4. CASE Finish
  <2>1. /\ pc = "invoking" /\ next > N /\ pc' = "succeeded"
        /\ UNCHANGED <<hooked, attempt, completed, cursor, compensated, errors,
                       world, records>>
        /\ completed \in Seq(Effects) /\ Len(completed) <= N /\ N \in Nat
    BY <1>4, PipelineAssumption DEF Finish, TypeOK
  <2>2. Forward'
    <3>1. DOMAIN completed = Steps
      BY <2>1 DEF next, Steps
    <3> QED BY <2>1, <3>1 DEF Forward, Own
  <2>3. Own(attempt, completed)' /\ Tried' /\ Backward' /\ Counted'
    BY <2>1 DEF Own, Tried, Backward, Counted
  <2>4. Truthful'
    BY <2>1, PastStays DEF TypeOK
  <2> QED BY <2>2, <2>3, <2>4
<1> QED BY <1>1, <1>2, <1>3, <1>4

\* A call of a hook.
LEMMA HookStep ==
    ASSUME PipelineInv, HookSucceeds \/ HookFails, TypeOK'
    PROVE  PipelineInv'
<1> USE DEF PipelineInv
<1>1. PICK ok \in BOOLEAN :
          /\ compensated' = Append(compensated, [step |-> cursor,
                                output |-> completed[cursor], ok |-> ok])
          /\ ok => world' = world \ {completed[cursor]}
          /\ ~ok => errors' = errors + 1
  BY DEF HookSucceeds, HookFails, tried, ownOutput
<1>2. /\ pc = "compensating" /\ pc' = pc
      /\ cursor \in 1 .. Len(completed) /\ cursor' = cursor - 1
      /\ world' \in {world, world \ {completed[cursor]}}
      /\ errors' \in {errors, errors + 1} /\ errors \in Nat
      /\ UNCHANGED <<hooked, attempt, completed, records>>
      /\ completed \in Seq(Effects) /\ attempt \in Nat
  <2>1. walking
    BY DEF HookSucceeds, HookFails
  <2>2. /\ pc' = pc /\ cursor' = cursor - 1
        /\ world' \in {world, world \ {completed[cursor]}}
        /\ errors' \in {errors, errors + 1}
        /\ UNCHANGED <<hooked, attempt, completed, records>>
    BY DEF HookSucceeds, HookFails, ownOutput, backward
  <2> QED BY <2>1, <2>2 DEF walking, TypeOK
<1>3. /\ DOMAIN compensated' = DOMAIN compensated \union {Len(compensated) + 1}
      /\ \A k \in DOMAIN compensated : compensated'[k] = compensated[k]
      /\ compensated'[Len(compensated) + 1] =
             [step |-> cursor, output |-> completed[cursor], ok |-> ok]
  BY <1>1 DEF TypeOK
<1>4. \A i, j \in DOMAIN completed : i # j => completed[i] # completed[j]
  BY EffectFields DEF Own
<1>5. \A i \in DOMAIN completed : Visited(i)' <=> Visited(i) \/ i = cursor
  BY <1>2, <1>3 DEF Visited
<1>6. Called /\ Walked
  BY <1>2 DEF Backward
<1>7. Called'
  <2>1. ASSUME NEW k \in DOMAIN compensated'
        PROVE  /\ compensated'[k].step \in cursor' + 1 .. Len(completed)
               /\ compensated'[k].output = completed[compensated'[k].step]
               /\ compensated'[k].ok => compensated'[k].output \notin world'
    <3>1. CASE k \in DOMAIN compensated
      BY <3>1, <1>2, <1>3, <1>6 DEF Called
    <3>2. CASE k = Len(compensated) + 1
      BY <3>2, <1>1, <1>2, <1>3
    <3> QED BY <3>1, <3>2, <1>3
  <2>2. \A i \in DOMAIN completed : completed[i] \in world' \/ Visited(i)'
    BY <1>2, <1>4, <1>5, <1>6 DEF Called
  <2> QED BY <2>1, <2>2, <1>2 DEF Called
<1>8. Walked'
  <2>1. \A i, j \in DOMAIN completed :
            i < j /\ j \in hooked /\ (Visited(i)' \/ i = cursor') => Visited(j)'
    BY <1>2, <1>5, <1>6 DEF Walked
  <2>2. ASSUME NEW i \in DOMAIN completed,
               i > cursor', i \in hooked, completed[i] \in world'
        PROVE  errors' > 0
    <3>1. CASE i = cursor
      BY <3>1, <2>2, <1>1, <1>2
    <3>2. CASE i > cursor
      BY <3>2, <2>2, <1>2, <1>6 DEF Walked
    <3> QED BY <3>1, <3>2, <2>2, <1>2
  <2> QED BY <2>1, <2>2, <1>2 DEF Walked
<1>9. Own(attempt, completed)' /\ Forward' /\ Counted' /\ Tried'
  BY <1>2 DEF Own, Forward, Counted, Tried
<1>10. Backward'
  BY <1>2, <1>7, <1>8 DEF Backward
<1>11. Truthful'
  <2>1. completed[cursor].attempt = attempt
    BY <1>2, EffectFields DEF Own
  <2> QED BY <1>2, <2>1, PastStays DEF TypeOK
<1> QED BY <1>9, <1>10, <1>11

\* The walk past a step without a hook, and its early end.
LEMMA WalkStep ==
    ASSUME PipelineInv, NoHook \/ StopWalk, TypeOK'
    PROVE  PipelineInv'
<1> USE DEF PipelineInv
<1>1. /\ pc = "compensating" /\ pc' = pc /\ cursor \in 1 .. Len(completed)
      /\ UNCHANGED <<hooked, attempt, completed, compensated, world, records>>
      /\ errors \in Nat /\ completed \in Seq(Effects)
  BY DEF NoHook, StopWalk, walking, TypeOK
<1>2. Called /\ Walked
  BY <1>1 DEF Backward
<1>3. CASE NoHook
  <2>1. cursor \notin hooked /\ cursor' = cursor - 1 /\ errors' = errors
    BY <1>3 DEF NoHook, backward
  <2>2. Called' /\ Walked'
    BY <1>1, <1>2, <2>1 DEF Called, Walked, Visited
  <2> QED BY <1>1, <2>1, <2>2, PastStays
          DEF Own, Tried, Forward, Backward, Counted, TypeOK
<1>4. CASE StopWalk
  <2>1. cursor' = 0 /\ errors' = errors + 1
    BY <1>4 DEF StopWalk
  <2>2. Called' /\ Walked'
    BY <1>1, <1>2, <2>1 DEF Called, Walked, Visited
  <2> QED BY <1>1, <2>1, <2>2, PastStays
          DEF Own, Tried, Forward, Backward, Counted, TypeOK
<1> QED BY <1>3, <1>4

\* The failure is recorded.
LEMMA ReturnStep ==
    ASSUME PipelineInv, ReturnFailure, TypeOK'
    PROVE  PipelineInv'
<1> USE DEF PipelineInv
<1> DEFINE r == [failed |-> next, completed |-> completed,
                 compensated |-> compensated, errors |-> errors]
<1>1. /\ pc = "compensating" /\ pc' = "failed" /\ cursor = 0
      /\ records' = Append(records, r)
      /\ UNCHANGED <<hooked, attempt, completed, cursor, compensated, errors, world>>
      /\ attempt \in Nat \ {0} /\ completed \in Seq(Effects) /\ errors \in Nat
      /\ records \in Seq(PipelineFailure) /\ world \subseteq Effects
      /\ Len(records) = attempt - 1
  BY DEF ReturnFailure, TypeOK, Counted
<1>2. /\ Len(records') = attempt
      /\ DOMAIN records' = DOMAIN records \union {attempt}
      /\ attempt \notin DOMAIN records
      /\ \A a \in DOMAIN records : records'[a] = records[a]
      /\ records'[attempt] = r
  BY <1>1
<1>3. Called /\ Walked
  BY <1>1 DEF Backward
<1>4. Own(attempt, completed)' /\ Forward' /\ Tried'
  BY <1>1 DEF Own, Forward, Tried
<1>5. Backward'
  BY <1>1, <1>3 DEF Backward, Called, Walked, Visited
<1>6. Counted'
  BY <1>1, <1>2 DEF Counted
<1>7. \A a \in DOMAIN records' : Own(a, records'[a].completed)
  BY <1>1, <1>2 DEF Truthful
<1>8. RecordsTellStanding'
  <2> SUFFICES ASSUME NEW a \in DOMAIN records',
                      NEW i \in DOMAIN records'[a].completed
               PROVE  LET e == records'[a].completed[i]
                      IN  /\ UndoneBy(records'[a], e) => e \notin world
                          /\ ~CalledFor(records'[a], e) => e \in world
    BY <1>1 DEF RecordsTellStanding, UndoneBy, CalledFor
  <2>1. CASE a \in DOMAIN records
    BY <2>1, <1>2 DEF Truthful, RecordsTellStanding
  <2>2. CASE a = attempt
    <3>1. i \in DOMAIN completed /\ records'[a] = r /\ r.completed = completed
          /\ r.compensated = compensated
      BY <2>2, <1>2
    <3>2. UndoneBy(r, completed[i]) => completed[i] \notin world
      BY <3>1, <1>3 DEF UndoneBy, Called
    <3>3. ~CalledFor(r, completed[i]) => completed[i] \in world
      BY <3>1, <1>3 DEF CalledFor, Called, Visited
    <3> QED BY <3>1, <3>2, <3>3
  <2> QED BY <2>1, <2>2, <1>2
<1>9. ASSUME NEW e \in world, e.attempt \in DOMAIN records'
      PROVE  Explained(records'[e.attempt], e)
  <2>1. CASE e.attempt \in DOMAIN records
    BY <2>1, <1>2 DEF Truthful
  <2>2. CASE e.attempt = attempt
    <3>1. e = Effect(attempt, e.step) /\ e.step \in Nat \ {0}
      BY <2>2, <1>1, EffectFields DEF Steps
    <3>2. CASE e.step = next
      BY <3>2, <2>2, <1>2 DEF Explained
    <3>3. CASE e.step <= Len(completed)
      <4>1. e.step \in DOMAIN completed /\ completed[e.step] = e
        BY <3>1, <3>3, <1>1 DEF Own
      <4>2. e.step \in hooked => errors > 0
        BY <4>1, <3>1, <1>1, <1>3 DEF Walked
      <4> QED BY <4>2, <2>2, <1>2 DEF Explained
    <3> QED BY <2>2, <3>2, <3>3 DEF Tried, next
  <2> QED BY <2>1, <2>2, <1>2, <1>9
<1>10. Truthful'
  BY <1>1, <1>7, <1>8, <1>9 DEF Truthful, Explained, Own
<1> QED BY <1>4, <1>5, <1>6, <1>10

LEMMA InvStep ==
    ASSUME PipelineInv, [Next]_vars
    PROVE  PipelineInv'
<1>1. TypeOK'
  BY TypeStep
<1>2. CASE StepSucceeds \/ StepFails \/ Panic \/ Finish
  BY <1>1, <1>2, InvokingStep
<1>3. CASE HookSucceeds \/ HookFails
  BY <1>1, <1>3, HookStep
<1>4. CASE NoHook \/ StopWalk
  BY <1>1, <1>4, WalkStep
<1>5. CASE ReturnFailure
  BY <1>1, <1>5, ReturnStep
<1>6. CASE Retry
  <2>1. /\ pc = "failed" /\ pc' = "invoking" /\ attempt' = attempt + 1
        /\ completed' = <<>> /\ compensated' = <<>> /\ errors' = 0
        /\ UNCHANGED <<hooked, world, records>>
        /\ attempt \in Nat /\ world \subseteq Effects
    BY <1>6 DEF Retry, PipelineInv, TypeOK
  <2>2. Own(attempt, completed)' /\ Forward' /\ Backward' /\ Counted'
    BY <2>1 DEF PipelineInv, Own, Forward, Backward, Counted
  <2>3. Tried'
    <3>1. \A e \in world : e.attempt \in Nat /\ e.attempt <= attempt
      BY <2>1, EffectFields DEF PipelineInv, Tried
    <3> QED BY <2>1, <3>1 DEF Tried
  <2>4. Truthful'
    BY <2>1 DEF PipelineInv, Truthful, RecordsTellStanding, UndoneBy, CalledFor,
                Explained, Own
  <2> QED BY <1>1, <2>2, <2>3, <2>4 DEF PipelineInv
<1>7. CASE GiveUp \/ Cancel \/ UNCHANGED vars
  <2>1. /\ UNCHANGED <<hooked, attempt, completed, cursor, compensated, errors,
                       world, records>>
        /\ pc' = pc \/ (pc = "failed" /\ pc' = "returned")
    BY <1>7 DEF GiveUp, Cancel, vars
  <2>2. Own(attempt, completed)' /\ Counted'
    BY <2>1 DEF PipelineInv, Own, Counted
  <2>3. Forward' /\ Tried'
    BY <2>1 DEF PipelineInv, Forward, Tried
  <2>4. Backward'
    <3>1. (Called => Called') /\ (Walked => Walked')
      BY <2>1 DEF Called, Walked, Visited
    <3> QED BY <2>1, <3>1 DEF PipelineInv, Backward
  <2>5. Truthful'
    BY <2>1 DEF PipelineInv, Truthful, RecordsTellStanding, UndoneBy, CalledFor,
                Explained, Own
  <2> QED BY <1>1, <2>2, <2>3, <2>4, <2>5 DEF PipelineInv
<1> QED BY <1>2, <1>3, <1>4, <1>5, <1>6, <1>7 DEF Next, Step, Walk

LEMMA Invariant == Spec => []PipelineInv
<1> QED BY InvInit, InvStep, PTL DEF Spec

-----------------------------------------------------------------------------
(* What follows from it.                                                   *)

\* The type invariant of the pipeline.
THEOREM PipelineTyped == Spec => []TypeOK
<1>1. PipelineInv => TypeOK
  BY DEF PipelineInv
<1> QED BY <1>1, Invariant, PTL

\* Each PipelineFailure tells which effects of its attempt stand.
THEOREM RecordsTrue == Spec => []RecordsTellStanding
<1>1. PipelineInv => RecordsTellStanding
  BY DEF PipelineInv, Truthful
<1> QED BY <1>1, Invariant, PTL

\* Compensation runs in reverse order of completion.
THEOREM Reverse == Spec => []ReverseOrder
<1>1. PipelineInv => ReverseOrder
  <2> SUFFICES ASSUME PipelineInv, pc \in {"compensating", "failed"},
                      NEW i \in DOMAIN completed, NEW j \in DOMAIN completed,
                      i < j, completed[i] \notin world, completed[j] \in world,
                      j \in hooked
               PROVE  \E k \in DOMAIN compensated :
                          compensated[k].step = j /\ ~compensated[k].ok
    BY DEF ReverseOrder
  <2>1. Called /\ Walked
    BY DEF PipelineInv, Backward
  <2>2. Visited(j)
    BY <2>1 DEF Called, Walked
  <2> QED BY <2>1, <2>2 DEF Called, Visited
<1> QED BY <1>1, Invariant, PTL

\* All or nothing, as far as the hooks go.
THEOREM Atomicity == Spec => []AllOrNothing
<1>1. PipelineInv => AllOrNothing
  BY DEF PipelineInv, Forward, Truthful, Explained, AllOrNothing
<1> QED BY <1>1, Invariant, PTL

=============================================================================
