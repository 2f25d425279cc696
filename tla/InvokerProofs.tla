---------------------------- MODULE InvokerProofs -----------------------------
(***************************************************************************)
(* Theorems about the capability invoker, for any number of goroutines,    *)
(* nested calls, invocations and retries.                                  *)
(***************************************************************************)
EXTENDS Invoker, FiniteSetTheorems, SequenceTheorems, TLAPS

-----------------------------------------------------------------------------
(* The inductive invariant.                                                *)

made(f) == IF f.place = "ready" THEN f.attempt ELSE f.attempt + 1

\* What a call in progress knows of itself is what was counted for it.
Sound(f) ==
    /\ f.call \in DOMAIN attempts
    /\ attempts[f.call] = made(f)
    /\ f.attempt > 0 => idempotent
    /\ f.place \in {"failed", "backoff"} => retriable(f)
    /\ MaxInvocations > 0 => f.call <= MaxInvocations

FramesSound == \A w \in Workers : \A i \in DOMAIN stack[w] : Sound(stack[w][i])

\* No call is in two places.
CallsDistinct ==
    \A v, w \in Workers : \A i \in DOMAIN stack[v], j \in DOMAIN stack[w] :
        stack[v][i].call = stack[w][j].call => v = w /\ i = j

Counted == MaxInvocations > 0 => invocations = Len(attempts)

\* A refusal has a reason that does not go away.
RefusedForGood ==
    (\E i \in DOMAIN published : published[i].type = "budget.exceeded") =>
        expired \/ (MaxInvocations > 0 /\ invocations > MaxInvocations)

InvokerInv ==
    /\ TypeOK /\ FramesSound /\ CallsDistinct /\ Counted /\ RefusedForGood
    /\ AttemptsPerCall

-----------------------------------------------------------------------------
(* The stack.                                                              *)

Stacks == [Workers -> Seq(Frame)]

LEMMA Popped ==
    ASSUME stack \in Stacks, NEW w \in Workers, stack[w] # <<>>, pop(w)
    PROVE  /\ stack' \in Stacks
           /\ Len(stack'[w]) = Len(stack[w]) - 1
           /\ \A v \in Workers : \A i \in DOMAIN stack'[v] :
                  i \in DOMAIN stack[v] /\ stack'[v][i] = stack[v][i]
<1>1. stack' = [stack EXCEPT ![w] = SubSeq(stack[w], 1, Len(stack[w]) - 1)]
  BY DEF pop, Stacks
<1>2. stack[w] \in Seq(Frame) /\ Len(stack[w]) \in Nat \ {0}
  BY DEF Stacks
<1>3. /\ SubSeq(stack[w], 1, Len(stack[w]) - 1) \in Seq(Frame)
      /\ Len(SubSeq(stack[w], 1, Len(stack[w]) - 1)) = Len(stack[w]) - 1
      /\ \A i \in 1 .. Len(stack[w]) - 1 :
             SubSeq(stack[w], 1, Len(stack[w]) - 1)[i] = stack[w][i]
  BY <1>2
<1> QED BY <1>1, <1>2, <1>3 DEF Stacks

LEMMA Pushed ==
    ASSUME stack \in Stacks, NEW w \in Workers, NEW f \in Frame, push(w, f)
    PROVE  /\ stack' \in Stacks
           /\ Len(stack'[w]) = Len(stack[w]) + 1
           /\ stack'[w][Len(stack[w]) + 1] = f
           /\ \A v \in Workers : \A i \in DOMAIN stack'[v] :
                  \/ v = w /\ i = Len(stack[w]) + 1
                  \/ i \in DOMAIN stack[v] /\ stack'[v][i] = stack[v][i]
<1>1. stack' = [stack EXCEPT ![w] = Append(stack[w], f)]
  BY DEF push, Stacks
<1>2. stack[w] \in Seq(Frame) /\ Len(stack[w]) \in Nat
  BY DEF Stacks
<1> QED BY <1>1, <1>2 DEF Stacks

\* Replacing the innermost frame.
LEMMA Replaced ==
    ASSUME stack \in Stacks, NEW w \in Workers, stack[w] # <<>>, NEW f \in Frame,
           stack' = [stack EXCEPT ![w] = [stack[w] EXCEPT ![Len(stack[w])] = f]]
    PROVE  /\ stack' \in Stacks
           /\ Len(stack[w]) \in DOMAIN stack[w] /\ top(w) \in Frame
           /\ Len(stack'[w]) = Len(stack[w])
           /\ stack'[w][Len(stack[w])] = f
           /\ \A v \in Workers :
                  /\ DOMAIN stack'[v] = DOMAIN stack[v]
                  /\ \A i \in DOMAIN stack[v] :
                         v # w \/ i # Len(stack[w]) => stack'[v][i] = stack[v][i]
<1>1. stack[w] \in Seq(Frame) /\ Len(stack[w]) \in Nat \ {0}
  BY DEF Stacks
<1>2. [stack[w] EXCEPT ![Len(stack[w])] = f] \in Seq(Frame)
  BY <1>1, ExceptSeq
<1> QED BY <1>1, <1>2 DEF Stacks, top

LEMMA TopFrame ==
    ASSUME stack \in Stacks, NEW w \in Workers, stack[w] # <<>>
    PROVE  /\ Len(stack[w]) \in DOMAIN stack[w] /\ top(w) \in Frame
           /\ top(w) = stack[w][Len(stack[w])]
BY DEF Stacks, top

\* A step that only takes frames away, or nothing, and publishes no refusal.
LEMMA FewerFrames ==
    ASSUME InvokerInv, stack' \in Stacks,
           \A v \in Workers : \A i \in DOMAIN stack'[v] :
               i \in DOMAIN stack[v] /\ stack'[v][i] = stack[v][i],
           UNCHANGED <<idempotent, invocations, attempts>>
    PROVE  FramesSound' /\ CallsDistinct' /\ Counted' /\ AttemptsPerCall'
<1>1. FramesSound'
  BY DEF InvokerInv, FramesSound, Sound, made, retriable
<1>2. CallsDistinct'
  BY DEF InvokerInv, CallsDistinct
<1>3. Counted' /\ AttemptsPerCall'
  BY DEF InvokerInv, Counted, AttemptsPerCall
<1> QED BY <1>1, <1>2, <1>3

\* Publishing something else than a refusal.
LEMMA OtherEvent ==
    ASSUME InvokerInv, NEW e \in InvokerEvent, publish(e),
           e.type # "budget.exceeded", UNCHANGED <<invocations, expired>>
    PROVE  published' \in Seq(InvokerEvent) /\ RefusedForGood'
<1>1. published \in Seq(InvokerEvent) /\ published' = Append(published, e)
  BY DEF InvokerInv, TypeOK, publish
<1>2. /\ published' \in Seq(InvokerEvent)
      /\ \A i \in DOMAIN published' : published'[i].type = "budget.exceeded" =>
             i \in DOMAIN published /\ published'[i] = published[i]
  BY <1>1
<1> QED BY <1>2 DEF InvokerInv, RefusedForGood

LEMMA InvokerInit == Init => InvokerInv
<1> SUFFICES ASSUME Init
             PROVE  InvokerInv
  OBVIOUS
<1>1. /\ stack \in [Workers -> Seq(Frame)]
      /\ \A w \in Workers : DOMAIN stack[w] = {}
  BY DEF Init
<1>2. /\ published \in Seq(InvokerEvent) /\ DOMAIN published = {}
      /\ attempts \in Seq(Nat) /\ Len(attempts) = 0 /\ DOMAIN attempts = {}
  BY DEF Init
<1>3. 0 <= MaxCalls /\ 0 \in Nat
  BY InvokerAssumption
<1>6. TypeOK
  BY <1>1, <1>2, <1>3 DEF Init, TypeOK
<1>4. FramesSound /\ CallsDistinct
  BY <1>1 DEF FramesSound, CallsDistinct
<1>5. Counted /\ RefusedForGood /\ AttemptsPerCall
  BY <1>2 DEF Init, Counted, RefusedForGood, AttemptsPerCall
<1> QED BY <1>4, <1>5, <1>6 DEF InvokerInv

-----------------------------------------------------------------------------
(* One step.                                                               *)

\* The entry that a call leaves in attempts when it begins.
LEMMA Begun ==
    ASSUME InvokerInv, NEW w \in Workers, begin(w)
    PROVE  /\ attempts' \in Seq(Nat) /\ Len(attempts') = Len(attempts) + 1
           /\ Len(attempts') <= MaxCalls /\ Len(attempts) \in Nat
           /\ Len(attempts) + 1 \in Call
           /\ DOMAIN attempts' = DOMAIN attempts \union {Len(attempts) + 1}
           /\ Len(attempts) + 1 \notin DOMAIN attempts
           /\ attempts'[Len(attempts) + 1] = 0
           /\ \A c \in DOMAIN attempts : attempts'[c] = attempts[c]
           /\ invocations' \in Nat /\ Counted' /\ AttemptsPerCall'
           /\ invocations' >= invocations
<1>1. /\ attempts \in Seq(Nat) /\ Len(attempts) < MaxCalls
      /\ attempts' = Append(attempts, 0)
      /\ invocations \in Nat /\ invocations' = counted /\ idempotent' = idempotent
  BY DEF begin, InvokerInv, TypeOK
<1>2. /\ attempts' \in Seq(Nat) /\ Len(attempts') = Len(attempts) + 1
      /\ Len(attempts) \in Nat
      /\ DOMAIN attempts' = DOMAIN attempts \union {Len(attempts) + 1}
      /\ Len(attempts) + 1 \notin DOMAIN attempts
      /\ attempts'[Len(attempts) + 1] = 0
      /\ \A c \in DOMAIN attempts : attempts'[c] = attempts[c]
  BY <1>1
<1>3. Len(attempts') <= MaxCalls /\ Len(attempts) + 1 \in Call
  BY <1>1, <1>2, InvokerAssumption DEF Call
<1>4. invocations' \in Nat /\ Counted' /\ invocations' >= invocations
  BY <1>1, <1>2 DEF InvokerInv, Counted, counted
<1>5. AttemptsPerCall'
  BY <1>1, <1>2, InvokerAssumption DEF InvokerInv, AttemptsPerCall
<1> QED BY <1>2, <1>3, <1>4, <1>5

LEMMA RefuseStep ==
    ASSUME InvokerInv, NEW w \in Workers, Refuse(w)
    PROVE  InvokerInv'
<1>1. begin(w) /\ UNCHANGED <<stack, idempotent, expired, cancelled>>
  BY DEF Refuse, begin
<1>2. FramesSound' /\ CallsDistinct'
  BY <1>1, Begun DEF InvokerInv, FramesSound, CallsDistinct, Sound, made, retriable
<1>3. PICK kind \in {"invocations", "duration"} :
          publish(BudgetExceeded(Len(attempts) + 1, kind))
  BY DEF Refuse
<1>4. BudgetExceeded(Len(attempts) + 1, kind) \in InvokerEvent
  BY <1>1, Begun DEF InvokerEvent
<1>5. published' \in Seq(InvokerEvent)
  BY <1>3, <1>4 DEF publish, InvokerInv, TypeOK
<1>6. RefusedForGood'
  <2>1. CASE exhausted
    BY <1>1, <2>1 DEF begin, exhausted, RefusedForGood
  <2>2. CASE expired
    BY <1>1, <2>2 DEF RefusedForGood
  <2> QED BY <2>1, <2>2 DEF Refuse
<1>7. TypeOK'
  BY <1>1, <1>5, Begun DEF InvokerInv, TypeOK
<1> QED BY <1>1, <1>2, <1>6, <1>7, Begun DEF InvokerInv

LEMMA AdmitStep ==
    ASSUME InvokerInv, NEW w \in Workers, Admit(w)
    PROVE  InvokerInv'
<1>1. /\ begin(w) /\ ~exhausted /\ ~expired
      /\ UNCHANGED <<idempotent, expired, cancelled, published>>
  BY DEF Admit, begin
<1>2. stack \in Stacks
  BY DEF InvokerInv, TypeOK, Stacks
<1>3. RefusedForGood'
  <2>1. MaxInvocations > 0 => invocations <= MaxInvocations
    BY <1>1, InvokerAssumption DEF exhausted, counted, InvokerInv, TypeOK
  <2>2. ~ \E i \in DOMAIN published : published[i].type = "budget.exceeded"
    BY <1>1, <2>1, InvokerAssumption DEF InvokerInv, RefusedForGood, TypeOK
  <2> QED BY <1>1, <2>2 DEF RefusedForGood
<1>4. CASE UNCHANGED stack
  <2>1. FramesSound' /\ CallsDistinct'
    BY <1>1, <1>4, Begun
       DEF InvokerInv, FramesSound, CallsDistinct, Sound, made, retriable
  <2>2. TypeOK'
    BY <1>1, <1>4, Begun DEF InvokerInv, TypeOK
  <2> QED BY <1>1, <1>3, <2>1, <2>2, Begun DEF InvokerInv
<1>5. ASSUME NEW f \in Frame, push(w, f), f.call = Len(attempts) + 1,
             f.attempt = 0, f.place = "ready"
      PROVE  InvokerInv'
  <2>2. /\ stack' \in Stacks
        /\ stack'[w][Len(stack[w]) + 1] = f
        /\ \A v \in Workers : \A i \in DOMAIN stack'[v] :
               \/ v = w /\ i = Len(stack[w]) + 1
               \/ i \in DOMAIN stack[v] /\ stack'[v][i] = stack[v][i]
    BY <1>2, <1>5, Pushed
  <2>3. Sound(f)'
    <3>1. MaxInvocations > 0 => Len(attempts) + 1 <= MaxInvocations
      BY <1>1, Begun, InvokerAssumption
         DEF exhausted, counted, InvokerInv, Counted, TypeOK
    <3> QED BY <1>1, <1>5, <3>1, Begun DEF Sound, made
  <2>4. FramesSound'
    <3> SUFFICES ASSUME NEW v \in Workers, NEW i \in DOMAIN stack'[v]
                 PROVE  Sound(stack[v][i])'
      BY DEF FramesSound
    <3>1. CASE v = w /\ i = Len(stack[w]) + 1
      BY <2>2, <2>3, <3>1 DEF Sound, made, retriable
    <3>2. CASE i \in DOMAIN stack[v] /\ stack'[v][i] = stack[v][i]
      <4>1. Sound(stack[v][i])
        BY <3>2 DEF InvokerInv, FramesSound
      <4> QED BY <1>1, <3>2, <4>1, Begun DEF Sound, made, retriable
    <3> QED BY <2>2, <3>1, <3>2
  <2>5. \A v \in Workers : \A i \in DOMAIN stack[v] : stack[v][i].call # f.call
    BY <1>1, <1>5, Begun DEF InvokerInv, FramesSound, Sound
  <2>6. CallsDistinct'
    BY <2>2, <2>5 DEF InvokerInv, CallsDistinct
  <2>7. TypeOK'
    BY <1>1, <2>2, Begun DEF InvokerInv, TypeOK, Stacks
  <2> QED BY <1>1, <1>3, <2>4, <2>6, <2>7, Begun DEF InvokerInv
<1>6. ASSUME NEW composable \in BOOLEAN,
             push(w, [call |-> Len(attempts) + 1, attempt |-> 0,
                      place |-> "ready", composable |-> composable])
      PROVE  InvokerInv'
  <2>1. [call |-> Len(attempts) + 1, attempt |-> 0,
         place |-> "ready", composable |-> composable] \in Frame
    BY <1>1, Begun, InvokerAssumption DEF Frame
  <2> QED BY <1>5, <1>6, <2>1
<1> QED BY <1>4, <1>6 DEF Admit

\* The innermost call moves on within the loop.
LEMMA MoveStep ==
    ASSUME InvokerInv, NEW w \in Workers, stack[w] # <<>>,
           NEW f \in Frame, f.call = top(w).call,
           stack' = [stack EXCEPT ![w] = [stack[w] EXCEPT ![Len(stack[w])] = f]],
           attempts' \in Seq(Nat), Len(attempts') = Len(attempts),
           \A c \in DOMAIN attempts : c # f.call => attempts'[c] = attempts[c],
           Sound(f)', AttemptsPerCall',
           UNCHANGED <<idempotent, invocations, expired, cancelled>>,
           published' \in Seq(InvokerEvent), RefusedForGood'
    PROVE  InvokerInv'
<1>1. stack \in Stacks
  BY DEF InvokerInv, TypeOK, Stacks
<1>2. /\ stack' \in Stacks
      /\ Len(stack[w]) \in DOMAIN stack[w]
      /\ top(w) = stack[w][Len(stack[w])]
      /\ stack'[w][Len(stack[w])] = f
      /\ \A v \in Workers :
             /\ DOMAIN stack'[v] = DOMAIN stack[v]
             /\ \A i \in DOMAIN stack[v] :
                    v # w \/ i # Len(stack[w]) => stack'[v][i] = stack[v][i]
  BY <1>1, Replaced, TopFrame
<1>3. DOMAIN attempts' = DOMAIN attempts
  BY DEF InvokerInv, TypeOK
<1>4. CallsDistinct'
  BY <1>2 DEF InvokerInv, CallsDistinct
<1>5. FramesSound'
  <2> SUFFICES ASSUME NEW v \in Workers, NEW i \in DOMAIN stack[v]
               PROVE  Sound(stack[v][i])'
    BY <1>2 DEF FramesSound
  <2>1. CASE v = w /\ i = Len(stack[w])
    BY <1>2, <2>1 DEF Sound, made, retriable
  <2>2. CASE v # w \/ i # Len(stack[w])
    <3>1. Sound(stack[v][i]) /\ stack'[v][i] = stack[v][i]
      BY <1>2, <2>2 DEF InvokerInv, FramesSound
    <3>2. stack[v][i].call # f.call
      BY <1>2, <2>2 DEF InvokerInv, CallsDistinct
    <3> QED BY <1>3, <3>1, <3>2 DEF Sound, made, retriable
  <2> QED BY <2>1, <2>2
<1>6. Counted'
  BY DEF InvokerInv, Counted
<1>7. TypeOK'
  BY <1>2 DEF InvokerInv, TypeOK, Stacks
<1> QED BY <1>4, <1>5, <1>6, <1>7 DEF InvokerInv

\* The innermost call returns.
LEMMA PopStep ==
    ASSUME InvokerInv, NEW w \in Workers, stack[w] # <<>>, pop(w),
           UNCHANGED <<idempotent, invocations, expired, cancelled, attempts>>,
           published' \in Seq(InvokerEvent), RefusedForGood'
    PROVE  InvokerInv'
<1>1. stack \in Stacks
  BY DEF InvokerInv, TypeOK, Stacks
<1>2. FramesSound' /\ CallsDistinct' /\ Counted' /\ AttemptsPerCall'
  BY <1>1, Popped, FewerFrames
<1>3. TypeOK'
  BY <1>1, Popped DEF InvokerInv, TypeOK, Stacks
<1> QED BY <1>2, <1>3 DEF InvokerInv

LEMMA WorkStep ==
    ASSUME InvokerInv, NEW w \in Workers, Work(w)
    PROVE  InvokerInv'
<1> DEFINE n == Len(stack[w])
<1>0. /\ stack \in Stacks /\ TypeOK
      /\ stack[w] # <<>> => /\ top(w) \in Frame /\ Sound(top(w)) /\ n \in DOMAIN stack[w]
                            /\ top(w) = stack[w][n] /\ top(w).call \in DOMAIN attempts
  <2>1. stack \in Stacks /\ TypeOK
    BY DEF InvokerInv, TypeOK, Stacks
  <2> QED BY <2>1, TopFrame DEF InvokerInv, FramesSound, Sound
<1>1. CASE Refuse(w) \/ Admit(w)
  BY <1>1, RefuseStep, AdmitStep
<1>2. CASE Attempt(w)
  <2>0. PICK f : f = [top(w) EXCEPT !.place = "running"]
    OBVIOUS
  <2>1. /\ stack[w] # <<>> /\ top(w).place = "ready"
        /\ attempts' = [attempts EXCEPT ![top(w).call] = @ + 1]
        /\ UNCHANGED <<idempotent, invocations, expired, cancelled, published>>
    BY <1>2 DEF Attempt, inside
  <2>2. stack' = [stack EXCEPT ![w] = [stack[w] EXCEPT ![n] = f]]
    BY <1>0, <1>2, <2>0, <2>1 DEF Attempt, move, Stacks, top
  <2>3. f \in Frame /\ f.call = top(w).call /\ f.place = "running"
        /\ f.attempt = top(w).attempt
    BY <1>0, <2>0, <2>1 DEF Frame
  <2>4. /\ attempts' \in Seq(Nat) /\ Len(attempts') = Len(attempts)
        /\ DOMAIN attempts' = DOMAIN attempts
        /\ attempts'[f.call] = f.attempt + 1
        /\ \A c \in DOMAIN attempts : c # f.call => attempts'[c] = attempts[c]
    <3>1. attempts \in Seq(Nat) /\ attempts[top(w).call] = top(w).attempt
          /\ attempts[top(w).call] + 1 \in Nat /\ top(w).call \in 1 .. Len(attempts)
      BY <1>0, <2>1 DEF Sound, made, TypeOK
    <3>2. attempts' = [attempts EXCEPT ![top(w).call] = attempts[top(w).call] + 1]
      BY <2>1
    <3> QED BY <2>3, <3>1, <3>2, ExceptSeq
  <2>5. Sound(f)'
    BY <1>0, <2>1, <2>3, <2>4 DEF Sound, made, retriable
  <2>6. AttemptsPerCall'
    <3>1. f.attempt \in 0 .. MaxRetries /\ (f.attempt > 0 => idempotent)
          /\ (MaxInvocations > 0 => f.call <= MaxInvocations)
          /\ f.call \in Call
      BY <1>0, <2>1, <2>3 DEF Sound, Frame
    <3>2. SUFFICES ASSUME NEW c \in DOMAIN attempts
                   PROVE  /\ attempts'[c] <= (IF idempotent THEN MaxRetries + 1 ELSE 1)
                          /\ MaxInvocations > 0 /\ c > MaxInvocations => attempts'[c] = 0
      BY <2>1, <2>4 DEF AttemptsPerCall
    <3>3. CASE c = f.call
      <4>1. /\ f.attempt + 1 <= (IF idempotent THEN MaxRetries + 1 ELSE 1)
            /\ ~(MaxInvocations > 0 /\ f.call > MaxInvocations)
        BY <3>1, InvokerAssumption DEF Call
      <4> QED BY <2>4, <3>3, <4>1
    <3>4. CASE c # f.call
      BY <2>4, <3>4 DEF InvokerInv, AttemptsPerCall
    <3> QED BY <3>3, <3>4
  <2>7. published' \in Seq(InvokerEvent) /\ RefusedForGood'
    BY <1>0, <2>1 DEF InvokerInv, TypeOK, RefusedForGood
  <2> QED BY <2>1, <2>2, <2>3, <2>4, <2>5, <2>6, <2>7, MoveStep
<1>3. CASE Succeed(w)
  <2>1. /\ stack[w] # <<>> /\ pop(w)
        /\ publish(CapabilityInvoked(top(w).call, "success"))
        /\ UNCHANGED <<idempotent, invocations, expired, cancelled, attempts>>
    BY <1>3 DEF Succeed, inside
  <2>2. /\ CapabilityInvoked(top(w).call, "success") \in InvokerEvent
        /\ CapabilityInvoked(top(w).call, "success").type # "budget.exceeded"
    BY <1>0, <2>1 DEF InvokerEvent, CapabilityInvoked, Outcomes, Frame
  <2> QED BY <2>1, <2>2, OtherEvent, PopStep
<1>4. CASE FailAttempt(w)
  <2>1. /\ stack[w] # <<>> /\ top(w).place = "running"
        /\ publish(CapabilityInvoked(top(w).call, "error"))
        /\ UNCHANGED <<idempotent, invocations, expired, cancelled, attempts>>
    BY <1>4 DEF FailAttempt, inside
  <2>2. /\ CapabilityInvoked(top(w).call, "error") \in InvokerEvent
        /\ CapabilityInvoked(top(w).call, "error").type # "budget.exceeded"
    BY <1>0, <2>1 DEF InvokerEvent, CapabilityInvoked, Outcomes, Frame
  <2>3. published' \in Seq(InvokerEvent) /\ RefusedForGood'
    BY <2>1, <2>2, OtherEvent
  <2>4. CASE pop(w)
    BY <2>1, <2>3, <2>4, PopStep
  <2>5. CASE retriable(top(w)) /\ move(w, "failed")
    <3>0. PICK f : f = [top(w) EXCEPT !.place = "failed"]
      OBVIOUS
    <3>1. stack' = [stack EXCEPT ![w] = [stack[w] EXCEPT ![n] = f]]
      BY <1>0, <2>1, <2>5, <3>0 DEF move, Stacks, top
    <3>2. f \in Frame /\ f.call = top(w).call /\ f.place = "failed"
          /\ f.attempt = top(w).attempt
      BY <1>0, <2>1, <3>0 DEF Frame
    <3>3. Sound(f)'
      BY <1>0, <2>1, <2>5, <3>2 DEF Sound, made, retriable
    <3>4. AttemptsPerCall' /\ attempts' \in Seq(Nat)
      BY <1>0, <2>1 DEF InvokerInv, AttemptsPerCall, TypeOK
    <3> QED BY <2>1, <2>3, <3>1, <3>2, <3>3, <3>4, MoveStep
  <2> QED BY <1>4, <2>4, <2>5 DEF FailAttempt
<1>5. CASE CheckContext(w) \/ GiveUp(w)
  <2>1. /\ stack[w] # <<>> /\ top(w).place \in {"failed", "backoff"}
        /\ UNCHANGED <<idempotent, invocations, expired, cancelled, published, attempts>>
    BY <1>5 DEF CheckContext, GiveUp, inside
  <2>2. published' \in Seq(InvokerEvent) /\ RefusedForGood'
    BY <1>0, <2>1 DEF InvokerInv, TypeOK, RefusedForGood
  <2>3. CASE pop(w)
    BY <2>1, <2>2, <2>3, PopStep
  <2>4. CASE move(w, "backoff")
    <3>0. PICK f : f = [top(w) EXCEPT !.place = "backoff"]
      OBVIOUS
    <3>1. stack' = [stack EXCEPT ![w] = [stack[w] EXCEPT ![n] = f]]
      BY <1>0, <2>1, <2>4, <3>0 DEF move, Stacks, top
    <3>2. f \in Frame /\ f.call = top(w).call /\ f.place = "backoff"
          /\ f.attempt = top(w).attempt
      BY <1>0, <2>1, <3>0 DEF Frame
    <3>3. Sound(f)'
      BY <1>0, <2>1, <3>2 DEF Sound, made, retriable
    <3>4. AttemptsPerCall' /\ attempts' \in Seq(Nat)
      BY <1>0, <2>1 DEF InvokerInv, AttemptsPerCall, TypeOK
    <3> QED BY <2>1, <2>2, <3>1, <3>2, <3>3, <3>4, MoveStep
  <2> QED BY <1>5, <2>3, <2>4 DEF CheckContext, GiveUp
<1>6. CASE Retry(w)
  <2>0. PICK f : f = [top(w) EXCEPT !.attempt = @ + 1, !.place = "ready"]
    OBVIOUS
  <2>1. /\ stack[w] # <<>> /\ top(w).place = "backoff"
        /\ publish(CapabilityRetried(top(w).call, top(w).attempt + 1))
        /\ UNCHANGED <<idempotent, invocations, expired, cancelled, attempts>>
    BY <1>6 DEF Retry, inside, retryNumber
  <2>2. idempotent /\ top(w).attempt < MaxRetries
    BY <1>0, <2>1 DEF Sound, retriable
  <2>3. top(w).attempt \in 0 .. MaxRetries /\ MaxRetries \in Nat
        /\ top(w).call \in Call
    BY <1>0, <2>1, InvokerAssumption DEF Frame
  <2>4. /\ CapabilityRetried(top(w).call, top(w).attempt + 1) \in InvokerEvent
        /\ CapabilityRetried(top(w).call, top(w).attempt + 1).type # "budget.exceeded"
    <3>1. top(w).attempt + 1 \in 1 .. MaxRetries
      BY <2>2, <2>3
    <3> QED BY <2>3, <3>1 DEF InvokerEvent, CapabilityRetried
  <2>5. published' \in Seq(InvokerEvent) /\ RefusedForGood'
    BY <2>1, <2>4, OtherEvent
  <2>6. stack' = [stack EXCEPT ![w] = [stack[w] EXCEPT ![n] = f]]
    BY <1>0, <1>6, <2>0, <2>1 DEF Retry, Stacks
  <2>7. f \in Frame /\ f.call = top(w).call /\ f.place = "ready"
        /\ f.attempt = top(w).attempt + 1
    <3>1. top(w).attempt + 1 \in 0 .. MaxRetries
      BY <2>2, <2>3
    <3> QED BY <1>0, <2>0, <2>1, <3>1 DEF Frame
  <2>8. Sound(f)'
    BY <1>0, <2>1, <2>2, <2>7 DEF Sound, made, retriable
  <2>9. AttemptsPerCall' /\ attempts' \in Seq(Nat)
    BY <1>0, <2>1 DEF InvokerInv, AttemptsPerCall, TypeOK
  <2> QED BY <2>1, <2>5, <2>6, <2>7, <2>8, <2>9, MoveStep
<1> QED BY <1>1, <1>2, <1>3, <1>4, <1>5, <1>6 DEF Work

LEMMA InvokerStep ==
    ASSUME InvokerInv, [Next]_vars
    PROVE  InvokerInv'
<1>1. CASE Expire
  BY <1>1
     DEF Expire, InvokerInv, TypeOK, FramesSound, Sound, made, retriable,
         CallsDistinct, Counted, RefusedForGood, AttemptsPerCall
<1>2. CASE Cancel
  BY <1>2
     DEF Cancel, InvokerInv, TypeOK, FramesSound, Sound, made, retriable,
         CallsDistinct, Counted, RefusedForGood, AttemptsPerCall
<1>3. CASE UNCHANGED vars
  BY <1>3
     DEF vars, InvokerInv, TypeOK, FramesSound, Sound, made, retriable,
         CallsDistinct, Counted, RefusedForGood, AttemptsPerCall
<1> QED BY <1>1, <1>2, <1>3, WorkStep DEF Next

-----------------------------------------------------------------------------
(* What follows from it.                                                   *)

\* Every variable has its type, and no retry numbers past MaxRetries.
THEOREM InvokerTyped == Spec => []TypeOK
<1>1. InvokerInv => TypeOK
  BY DEF InvokerInv
<1>2. InvokerInv /\ [Next]_vars => InvokerInv'
  BY InvokerStep
<1> QED BY InvokerInit, <1>1, <1>2, PTL DEF Spec

\* However goroutines share and nest their calls, none makes more attempts than
\* its retries allow, and none beyond the budget makes any.
THEOREM AttemptsBounded == Spec => []AttemptsPerCall
<1>1. InvokerInv => AttemptsPerCall
  BY DEF InvokerInv
<1>2. InvokerInv /\ [Next]_vars => InvokerInv'
  BY InvokerStep
<1> QED BY InvokerInit, <1>1, <1>2, PTL DEF Spec

\* A refusal by the budget is the end of admissions.
THEOREM RefusalStays == Spec => RefusalIsFinal
<1> DEFINE Refused == \E i \in DOMAIN published : published[i].type = "budget.exceeded"
           Kept == Refused => \A w \in Workers : Len(stack'[w]) <= Len(stack[w])
<1>1. ASSUME InvokerInv, [Next]_vars
      PROVE  [Kept]_vars
  <2> SUFFICES ASSUME Refused, ~UNCHANGED vars, NEW v \in Workers
               PROVE  Len(stack'[v]) <= Len(stack[v])
    OBVIOUS
  <2>0. stack \in Stacks
    BY <1>1 DEF InvokerInv, TypeOK, Stacks
  <2>1. CASE UNCHANGED stack
    BY <2>0, <2>1 DEF Stacks
  <2>2. ASSUME NEW w \in Workers, stack[w] # <<>>, pop(w)
        PROVE  Len(stack'[v]) <= Len(stack[v])
    BY <2>0, <2>2, Popped DEF pop, Stacks
  <2>3. ASSUME NEW w \in Workers, NEW f, stack[w] # <<>>,
               stack' = [stack EXCEPT ![w] = [stack[w] EXCEPT ![Len(stack[w])] = f]]
        PROVE  Len(stack'[v]) <= Len(stack[v])
    BY <2>0, <2>3 DEF Stacks
  <2>4. ASSUME NEW w \in Workers, Admit(w)
        PROVE  FALSE
    <3>1. expired \/ (MaxInvocations > 0 /\ invocations > MaxInvocations)
      BY <1>1 DEF InvokerInv, RefusedForGood
    <3> QED BY <1>1, <2>4, <3>1, InvokerAssumption
            DEF Admit, exhausted, counted, InvokerInv, TypeOK
  <2>5. PICK w \in Workers : Work(w) \/ UNCHANGED stack
    BY <1>1 DEF Next, Expire, Cancel, vars
  <2>6. CASE Attempt(w)
    BY <2>0, <2>3, <2>6 DEF Attempt, inside, move, Stacks
  <2>7. CASE FailAttempt(w)
    BY <2>0, <2>2, <2>3, <2>7 DEF FailAttempt, inside, move, Stacks
  <2>8. CASE CheckContext(w)
    BY <2>0, <2>2, <2>3, <2>8 DEF CheckContext, inside, move, Stacks
  <2>9. CASE Retry(w)
    BY <2>0, <2>3, <2>9 DEF Retry, inside, Stacks
  <2>10. CASE Succeed(w) \/ GiveUp(w)
    BY <2>2, <2>10 DEF Succeed, GiveUp, inside
  <2> QED BY <2>1, <2>4, <2>5, <2>6, <2>7, <2>8, <2>9, <2>10 DEF Work, Refuse
<1>2. InvokerInv /\ [Next]_vars => InvokerInv'
  BY InvokerStep
<1> QED BY InvokerInit, <1>1, <1>2, PTL DEF Spec, RefusalIsFinal

\* The bound on outbound calls: the budget's counter and the retry loop, each
\* correct on its own, give their product for the whole run, whoever calls.
LEMMA OutboundBounded == InvokerInv => BudgetHolds
<1> SUFFICES ASSUME InvokerInv, MaxInvocations > 0
             PROVE  Cardinality(UNION {{c} \X (1 .. attempts[c]) : c \in DOMAIN attempts})
                        <= MaxInvocations * (MaxRetries + 1)
  BY DEF BudgetHolds
<1> DEFINE outbound == UNION {{c} \X (1 .. attempts[c]) : c \in DOMAIN attempts}
           slots == (1 .. MaxInvocations) \X (1 .. MaxRetries + 1)
<1>1. attempts \in Seq(Nat) /\ AttemptsPerCall
  BY DEF InvokerInv, TypeOK
<1>2. outbound \subseteq slots
  <2> SUFFICES ASSUME NEW c \in DOMAIN attempts, NEW k \in 1 .. attempts[c]
               PROVE  c \in 1 .. MaxInvocations /\ k \in 1 .. MaxRetries + 1
    OBVIOUS
  <2>1. attempts[c] \in Nat /\ attempts[c] > 0 /\ c \in Nat \ {0}
    BY <1>1
  <2>2. ~(c > MaxInvocations)
    BY <1>1, <2>1 DEF AttemptsPerCall
  <2>3. attempts[c] <= MaxRetries + 1
    BY <1>1, InvokerAssumption DEF AttemptsPerCall
  <2> QED BY <2>1, <2>2, <2>3, InvokerAssumption
<1>3. /\ IsFiniteSet(1 .. MaxInvocations) /\ Cardinality(1 .. MaxInvocations) = MaxInvocations
      /\ IsFiniteSet(1 .. MaxRetries + 1) /\ Cardinality(1 .. MaxRetries + 1) = MaxRetries + 1
  BY FS_Interval, InvokerAssumption
<1>4. /\ IsFiniteSet(slots)
      /\ Cardinality(slots) = Cardinality(1 .. MaxInvocations) * Cardinality(1 .. MaxRetries + 1)
  BY <1>3, FS_Product, Zenon
<1>5. Cardinality(outbound) <= Cardinality(slots)
  BY <1>2, <1>4, FS_Subset
<1>6. Cardinality(slots) = MaxInvocations * (MaxRetries + 1)
  BY <1>3, <1>4
<1> QED BY <1>5, <1>6

\* No sharing and nesting of calls takes more outbound calls than the budget and
\* the retries allow together.
THEOREM BudgetBoundsCalls == Spec => []BudgetHolds
<1>1. InvokerInv /\ [Next]_vars => InvokerInv'
  BY InvokerStep
<1> QED BY InvokerInit, OutboundBounded, <1>1, PTL DEF Spec

-----------------------------------------------------------------------------
(* What the published stream tells of each call.                           *)

seen(c) == about(c, Len(published))
told(c) == Cardinality(seen(c))
nth(c, i) == Cardinality(about(c, i))

running(c) == \E w \in Workers : \E i \in DOMAIN stack[w] :
                  stack[w][i].call = c /\ stack[w][i].place = "running"

\* The n-th of the m events that tell of call c.
expected(c, n, m) ==
    IF n % 2 = 0 THEN {CapabilityRetried(c, n \div 2)}
    ELSE IF n < m THEN {CapabilityInvoked(c, "error")}
    ELSE {CapabilityInvoked(c, o) : o \in Outcomes}

Alternates(c) == \A i \in seen(c) : published[i] \in expected(c, nth(c, i), told(c))
Sums(c) == attempts[c] = ((told(c) + 1) \div 2) + (IF running(c) THEN 1 ELSE 0)

CallTold == \A c \in DOMAIN attempts : Alternates(c) /\ Sums(c)

waits(f) == f.place \in {"failed", "backoff"}

\* Where a call in progress is in the loop says how much of it has been told.
FrameTold(f) ==
    /\ told(f.call) = 2 * f.attempt + (IF waits(f) THEN 1 ELSE 0)
    /\ waits(f) => \A i \in seen(f.call) :
                       nth(f.call, i) % 2 = 1 =>
                           published[i] = CapabilityInvoked(f.call, "error")

FramesTold == \A w \in Workers : \A i \in DOMAIN stack[w] : FrameTold(stack[w][i])

\* Nothing is told of a call that has not begun.
TellsOfBegun ==
    \A i \in DOMAIN published :
        published[i].type # "budget.exceeded" => published[i].call \in DOMAIN attempts

StreamInv == InvokerInv /\ TellsOfBegun /\ CallTold /\ FramesTold

\* Places in the stream, counted.
LEMMA Counts ==
    ASSUME published \in Seq(InvokerEvent), NEW c
    PROVE  /\ told(c) \in Nat /\ IsFiniteSet(seen(c))
           /\ seen(c) \subseteq DOMAIN published
           /\ \A i \in seen(c) : nth(c, i) \in Nat /\ nth(c, i) <= told(c)
<1>1. Len(published) \in Nat /\ DOMAIN published = 1 .. Len(published)
  OBVIOUS
<1>2. IsFiniteSet(1 .. Len(published))
  BY <1>1, FS_Interval
<1>3. seen(c) \subseteq 1 .. Len(published)
  BY DEF seen, about
<1>4. IsFiniteSet(seen(c))
  BY <1>2, <1>3, FS_Subset
<1>5. ASSUME NEW i \in seen(c)
      PROVE  nth(c, i) \in Nat /\ nth(c, i) <= told(c)
  <2>1. about(c, i) \subseteq seen(c)
    BY <1>1, <1>3 DEF seen, about
  <2> QED BY <1>4, <2>1, FS_Subset, FS_CardinalityType DEF nth, told
<1>6. told(c) \in Nat
  BY <1>4, FS_CardinalityType DEF told
<1> QED BY <1>1, <1>3, <1>4, <1>5, <1>6

\* An event that does not tell of call c, or none.
LEMMA Unheard ==
    ASSUME published \in Seq(InvokerEvent), NEW c,
           \/ UNCHANGED published
           \/ \E e \in InvokerEvent :
                  publish(e) /\ (e.call # c \/ e.type = "budget.exceeded")
    PROVE  /\ seen(c)' = seen(c) /\ told(c)' = told(c)
           /\ \A i \in seen(c) :
                  nth(c, i)' = nth(c, i) /\ published'[i] = published[i]
<1>1. CASE UNCHANGED published
  BY <1>1 DEF seen, told, nth, about
<1>2. ASSUME NEW e \in InvokerEvent, publish(e),
             e.call # c \/ e.type = "budget.exceeded"
      PROVE  /\ seen(c)' = seen(c) /\ told(c)' = told(c)
             /\ \A i \in seen(c) :
                    nth(c, i)' = nth(c, i) /\ published'[i] = published[i]
  <2>1. /\ Len(published) \in Nat /\ Len(published') = Len(published) + 1
        /\ \A i \in 1 .. Len(published) : published'[i] = published[i]
        /\ published'[Len(published) + 1] = e
    BY <1>2 DEF publish
  <2>2. seen(c)' = seen(c)
    BY <1>2, <2>1 DEF seen, about
  <2>3. ASSUME NEW i \in seen(c)
        PROVE  about(c, i)' = about(c, i) /\ published'[i] = published[i]
    BY <2>1 DEF seen, about
  <2> QED BY <2>2, <2>3 DEF told, nth
<1> QED BY <1>1, <1>2

\* An event that does.
LEMMA Heard ==
    ASSUME published \in Seq(InvokerEvent), NEW c,
           NEW e \in InvokerEvent, publish(e),
           e.call = c, e.type # "budget.exceeded"
    PROVE  /\ told(c)' = told(c) + 1
           /\ \A i \in seen(c)' :
                  \/ /\ i \in seen(c)
                     /\ nth(c, i)' = nth(c, i) /\ published'[i] = published[i]
                  \/ nth(c, i)' = told(c) + 1 /\ published'[i] = e
<1>1. /\ Len(published) \in Nat /\ Len(published') = Len(published) + 1
      /\ \A i \in 1 .. Len(published) : published'[i] = published[i]
      /\ published'[Len(published) + 1] = e
  BY DEF publish
<1>2. seen(c)' = seen(c) \union {Len(published) + 1}
      /\ Len(published) + 1 \notin seen(c)
  BY <1>1 DEF seen, about
<1>3. ASSUME NEW i \in seen(c)
      PROVE  about(c, i)' = about(c, i) /\ published'[i] = published[i]
  BY <1>1 DEF seen, about
<1>4. ASSUME NEW i, i = Len(published) + 1
      PROVE  about(c, i)' = seen(c)'
  BY <1>1, <1>4 DEF seen, about
<1>5. IsFiniteSet(seen(c))
  BY Counts
<1>6. Cardinality(seen(c) \union {Len(published) + 1}) = Cardinality(seen(c)) + 1
  BY <1>2, <1>5, FS_AddElement
<1>7. told(c)' = told(c) + 1
  BY <1>2, <1>6 DEF told
<1>8. SUFFICES ASSUME NEW i \in seen(c)'
               PROVE  \/ /\ i \in seen(c)
                         /\ nth(c, i)' = nth(c, i) /\ published'[i] = published[i]
                      \/ nth(c, i)' = told(c) + 1 /\ published'[i] = e
  BY <1>7
<1>9. CASE i \in seen(c)
  BY <1>3, <1>9 DEF nth
<1>10. CASE i = Len(published) + 1
  <2>1. nth(c, i)' = told(c)'
    BY <1>4, <1>10 DEF nth, told
  <2> QED BY <1>1, <1>7, <1>10, <2>1
<1> QED BY <1>2, <1>9, <1>10

\* A call of which nothing is told, and whose attempt goes on as it did.
LEMMA CallUnheard ==
    ASSUME StreamInv, NEW c \in DOMAIN attempts,
           \/ UNCHANGED published
           \/ \E e \in InvokerEvent :
                  publish(e) /\ (e.call # c \/ e.type = "budget.exceeded"),
           attempts'[c] = attempts[c], running(c)' <=> running(c)
    PROVE  Alternates(c)' /\ Sums(c)'
<1>1. published \in Seq(InvokerEvent) /\ Alternates(c) /\ Sums(c)
  BY DEF StreamInv, InvokerInv, TypeOK, CallTold
<1>2. /\ seen(c)' = seen(c) /\ told(c)' = told(c)
      /\ \A i \in seen(c) :
             nth(c, i)' = nth(c, i) /\ published'[i] = published[i]
  BY <1>1, Unheard
<1>3. Alternates(c)'
  BY <1>1, <1>2 DEF Alternates
<1>4. Sums(c)'
  BY <1>1, <1>2 DEF Sums
<1> QED BY <1>3, <1>4

\* A frame whose call nothing is told of.
LEMMA FrameUnheard ==
    ASSUME StreamInv, NEW f \in Frame, FrameTold(f),
           \/ UNCHANGED published
           \/ \E e \in InvokerEvent :
                  publish(e) /\ (e.call # f.call \/ e.type = "budget.exceeded")
    PROVE  FrameTold(f)'
<1>1. published \in Seq(InvokerEvent)
  BY DEF StreamInv, InvokerInv, TypeOK
<1>2. /\ seen(f.call)' = seen(f.call) /\ told(f.call)' = told(f.call)
      /\ \A i \in seen(f.call) :
             nth(f.call, i)' = nth(f.call, i) /\ published'[i] = published[i]
  BY <1>1, Unheard
<1> QED BY <1>2 DEF FrameTold, waits

\* The innermost call of worker w publishes the end of an attempt.
LEMMA AttemptTold ==
    ASSUME StreamInv, NEW c \in DOMAIN attempts, NEW a \in Nat,
           NEW o \in Outcomes, c \in Call,
           told(c) = 2 * a, attempts'[c] = a + 1, ~running(c)',
           publish(CapabilityInvoked(c, o))
    PROVE  /\ Alternates(c)' /\ Sums(c)' /\ told(c)' = 2 * a + 1
           /\ o = "error" => \A i \in seen(c)' :
                                nth(c, i)' % 2 = 1 =>
                                    published'[i] = CapabilityInvoked(c, "error")
<1> DEFINE e == CapabilityInvoked(c, o)
<1>1. published \in Seq(InvokerEvent) /\ Alternates(c)
  BY DEF StreamInv, InvokerInv, TypeOK, CallTold
<1>2. e \in InvokerEvent /\ e.call = c /\ e.type # "budget.exceeded"
  BY DEF InvokerEvent, CapabilityInvoked
<1>3. /\ told(c)' = told(c) + 1
      /\ \A i \in seen(c)' :
             \/ /\ i \in seen(c)
                /\ nth(c, i)' = nth(c, i) /\ published'[i] = published[i]
             \/ nth(c, i)' = told(c) + 1 /\ published'[i] = e
  BY <1>1, <1>2, Heard
<1>4. told(c)' = 2 * a + 1
  BY <1>3
<1>5. ASSUME NEW i \in seen(c)'
      PROVE  /\ published'[i] \in expected(c, nth(c, i)', told(c)')
             /\ o = "error" /\ nth(c, i)' % 2 = 1 =>
                    published'[i] = CapabilityInvoked(c, "error")
  <2>1. CASE i \in seen(c) /\ nth(c, i)' = nth(c, i) /\ published'[i] = published[i]
    <3>1. nth(c, i) \in Nat /\ nth(c, i) <= 2 * a
          /\ published[i] \in expected(c, nth(c, i), told(c))
      BY <1>1, <2>1, Counts DEF Alternates
    <3>2. nth(c, i) % 2 # 0 => nth(c, i) < told(c) /\ nth(c, i) < told(c)'
      BY <1>4, <3>1
    <3> QED BY <2>1, <3>1, <3>2 DEF expected
  <2>2. CASE nth(c, i)' = told(c) + 1 /\ published'[i] = e
    <3>1. nth(c, i)' % 2 # 0 /\ ~(nth(c, i)' < told(c)')
      BY <1>3, <1>4, <2>2
    <3> QED BY <2>2, <3>1 DEF expected
  <2> QED BY <1>3, <1>5, <2>1, <2>2
<1>6. Alternates(c)'
  BY <1>5 DEF Alternates, expected
<1>7. Sums(c)'
  BY <1>4 DEF Sums
<1> QED BY <1>4, <1>5, <1>6, <1>7

\* It publishes a retry.
LEMMA RetryTold ==
    ASSUME StreamInv, NEW c \in DOMAIN attempts, NEW a \in 0 .. MaxRetries - 1,
           c \in Call,
           told(c) = 2 * a + 1, attempts'[c] = a + 1, ~running(c)',
           \A i \in seen(c) : nth(c, i) % 2 = 1 =>
               published[i] = CapabilityInvoked(c, "error"),
           publish(CapabilityRetried(c, a + 1))
    PROVE  Alternates(c)' /\ Sums(c)' /\ told(c)' = 2 * (a + 1)
<1> DEFINE e == CapabilityRetried(c, a + 1)
<1>1. published \in Seq(InvokerEvent) /\ Alternates(c)
  BY DEF StreamInv, InvokerInv, TypeOK, CallTold
<1>2. e \in InvokerEvent /\ e.call = c /\ e.type # "budget.exceeded"
  <2>1. a + 1 \in 1 .. MaxRetries
    BY InvokerAssumption
  <2> QED BY <2>1 DEF InvokerEvent, CapabilityRetried
<1>3. /\ told(c)' = told(c) + 1
      /\ \A i \in seen(c)' :
             \/ /\ i \in seen(c)
                /\ nth(c, i)' = nth(c, i) /\ published'[i] = published[i]
             \/ nth(c, i)' = told(c) + 1 /\ published'[i] = e
  BY <1>1, <1>2, Heard
<1>4. told(c)' = 2 * (a + 1) /\ a \in Nat
  BY <1>3
<1>5. ASSUME NEW i \in seen(c)'
      PROVE  published'[i] \in expected(c, nth(c, i)', told(c)')
  <2>1. CASE i \in seen(c) /\ nth(c, i)' = nth(c, i) /\ published'[i] = published[i]
    <3>1. nth(c, i) \in Nat /\ nth(c, i) <= 2 * a + 1
          /\ published[i] \in expected(c, nth(c, i), told(c))
      BY <1>1, <2>1, Counts DEF Alternates
    <3>2. nth(c, i) < told(c)' /\ (nth(c, i) % 2 = 0 \/ nth(c, i) % 2 = 1)
      BY <1>4, <3>1
    <3> QED BY <2>1, <3>1, <3>2 DEF expected
  <2>2. CASE nth(c, i)' = told(c) + 1 /\ published'[i] = e
    <3>1. nth(c, i)' % 2 = 0 /\ nth(c, i)' \div 2 = a + 1
      BY <1>3, <1>4, <2>2
    <3> QED BY <2>2, <3>1 DEF expected
  <2> QED BY <1>3, <1>5, <2>1, <2>2
<1>6. Alternates(c)'
  BY <1>5 DEF Alternates, expected
<1>7. Sums(c)'
  BY <1>4 DEF Sums
<1> QED BY <1>4, <1>6, <1>7

\* What a step of the innermost call of worker w changes in who runs.
LEMMA Runs ==
    ASSUME InvokerInv, NEW w \in Workers, stack[w] # <<>>,
           NEW goesOn \in BOOLEAN, NEW g \in Frame,
           NEW c, c = top(w).call, g.call = c,
           goesOn => stack' = [stack EXCEPT ![w] = [stack[w] EXCEPT ![Len(stack[w])] = g]],
           ~goesOn => pop(w)
    PROVE  /\ \A v \in Workers : \A i \in DOMAIN stack'[v] :
                  \/ /\ i \in DOMAIN stack[v] /\ stack'[v][i] = stack[v][i]
                     /\ stack[v][i].call # c
                  \/ goesOn /\ v = w /\ i = Len(stack[w]) /\ stack'[v][i] = g
           /\ \A d : d # c => (running(d)' <=> running(d))
           /\ running(c)' <=> goesOn /\ g.place = "running"
           /\ running(c) <=> top(w).place = "running"
<1> DEFINE n == Len(stack[w])
<1>1. stack \in Stacks /\ CallsDistinct
  BY DEF InvokerInv, TypeOK, Stacks
<1>2. n \in DOMAIN stack[w] /\ top(w) = stack[w][n]
  BY <1>1, TopFrame
<1>3. \A v \in Workers : \A i \in DOMAIN stack[v] :
          v # w \/ i # n => stack[v][i].call # c
  BY <1>1, <1>2 DEF CallsDistinct
<1>4. \A v \in Workers : \A i \in DOMAIN stack[v] :
          v # w \/ i # n => i \in DOMAIN stack'[v] /\ stack'[v][i] = stack[v][i]
  <2>1. CASE goesOn
    BY <1>1, <2>1, Replaced
  <2>2. CASE ~goesOn
    <3>1. stack' = [stack EXCEPT ![w] = SubSeq(stack[w], 1, n - 1)]
      BY <1>1, <2>2 DEF pop, Stacks
    <3>2. stack[w] \in Seq(Frame) /\ n \in Nat \ {0}
      BY <1>1 DEF Stacks
    <3>3. /\ DOMAIN SubSeq(stack[w], 1, n - 1) = 1 .. n - 1
          /\ \A i \in 1 .. n - 1 : SubSeq(stack[w], 1, n - 1)[i] = stack[w][i]
      BY <3>2
    <3>4. \A v \in Workers : v # w => stack'[v] = stack[v]
      BY <1>1, <3>1 DEF Stacks
    <3>5. stack'[w] = SubSeq(stack[w], 1, n - 1)
      BY <1>1, <3>1 DEF Stacks
    <3> QED BY <3>2, <3>3, <3>4, <3>5
  <2> QED BY <2>1, <2>2
<1>5. \A v \in Workers : \A i \in DOMAIN stack'[v] :
          \/ /\ i \in DOMAIN stack[v] /\ stack'[v][i] = stack[v][i]
             /\ v # w \/ i # n
          \/ goesOn /\ v = w /\ i = n /\ stack'[v][i] = g
  <2>1. CASE goesOn
    BY <1>1, <2>1, Replaced
  <2>2. CASE ~goesOn
    <3>1. /\ stack' \in Stacks /\ Len(stack'[w]) = n - 1
          /\ \A v \in Workers : \A i \in DOMAIN stack'[v] :
                 i \in DOMAIN stack[v] /\ stack'[v][i] = stack[v][i]
      BY <1>1, <2>2, Popped
    <3>2. n \notin DOMAIN stack'[w]
      BY <1>2, <3>1 DEF Stacks
    <3> QED BY <3>1, <3>2
  <2> QED BY <2>1, <2>2
<1>6. \A d : d # c => (running(d)' <=> running(d))
  <2> SUFFICES ASSUME NEW d, d # c
               PROVE  running(d)' <=> running(d)
    OBVIOUS
  <2>1. running(d) => running(d)'
    BY <1>2, <1>4 DEF running
  <2>2. running(d)' => running(d)
    BY <1>5 DEF running
  <2> QED BY <2>1, <2>2
<1>7. /\ running(c)' <=> goesOn /\ g.place = "running"
      /\ running(c) <=> top(w).place = "running"
  <2>1. running(c) <=> top(w).place = "running"
    BY <1>2, <1>3 DEF running
  <2>2. running(c)' => goesOn /\ g.place = "running"
    BY <1>3, <1>5 DEF running
  <2>3. goesOn => n \in DOMAIN stack'[w] /\ stack'[w][n] = g
    BY <1>1, <1>2, Replaced
  <2>4. goesOn /\ g.place = "running" => running(c)'
    BY <2>3 DEF running
  <2> QED BY <2>1, <2>2, <2>4
<1> QED BY <1>3, <1>5, <1>6, <1>7

LEMMA RunsOn ==
    ASSUME InvokerInv, NEW w \in Workers, stack[w] # <<>>, NEW g \in Frame,
           NEW c, c = top(w).call, g.call = c,
           stack' = [stack EXCEPT ![w] = [stack[w] EXCEPT ![Len(stack[w])] = g]]
    PROVE  running(c)' <=> g.place = "running"
<1>1. stack \in Stacks /\ CallsDistinct
  BY DEF InvokerInv, TypeOK, Stacks
<1>2. /\ Len(stack[w]) \in DOMAIN stack[w] /\ top(w) = stack[w][Len(stack[w])]
      /\ stack'[w][Len(stack[w])] = g
      /\ \A v \in Workers :
             /\ DOMAIN stack'[v] = DOMAIN stack[v]
             /\ \A i \in DOMAIN stack[v] :
                    v # w \/ i # Len(stack[w]) => stack'[v][i] = stack[v][i]
  BY <1>1, TopFrame, Replaced
<1>3. \A v \in Workers : \A i \in DOMAIN stack[v] :
          v # w \/ i # Len(stack[w]) => stack[v][i].call # c
  BY <1>1, <1>2 DEF CallsDistinct
<1> QED BY <1>2, <1>3 DEF running

LEMMA RunningTop ==
    ASSUME InvokerInv, NEW w \in Workers, stack[w] # <<>>, running(top(w).call)
    PROVE  top(w).place = "running"
<1>1. stack \in Stacks /\ CallsDistinct
  BY DEF InvokerInv, TypeOK, Stacks
<1>2. Len(stack[w]) \in DOMAIN stack[w] /\ top(w) = stack[w][Len(stack[w])]
  BY <1>1, TopFrame
<1> QED BY <1>1, <1>2 DEF CallsDistinct, running

\* A step of the innermost call of worker w: the other calls are told as they
\* were.
LEMMA TopCallMoves ==
    ASSUME StreamInv, InvokerInv', NEW w \in Workers, stack[w] # <<>>,
           NEW goesOn \in BOOLEAN, NEW g \in Frame, NEW c, c = top(w).call,
           g.call = c,
           goesOn => stack' = [stack EXCEPT ![w] = [stack[w] EXCEPT ![Len(stack[w])] = g]],
           goesOn => FrameTold(g)',
           ~goesOn => pop(w),
           \/ UNCHANGED published
           \/ \E e \in InvokerEvent : publish(e) /\ e.call = c,
           DOMAIN attempts' = DOMAIN attempts,
           \A d \in DOMAIN attempts : d # c => attempts'[d] = attempts[d],
           Alternates(c)' /\ Sums(c)'
    PROVE  StreamInv'
<1>1. /\ \A v \in Workers : \A i \in DOMAIN stack'[v] :
             \/ /\ i \in DOMAIN stack[v] /\ stack'[v][i] = stack[v][i]
                /\ stack[v][i].call # c
             \/ goesOn /\ v = w /\ i = Len(stack[w]) /\ stack'[v][i] = g
      /\ \A d : d # c => (running(d)' <=> running(d))
  BY Runs DEF StreamInv
<1>2. stack \in Stacks /\ published \in Seq(InvokerEvent) /\ c \in DOMAIN attempts
  <2>1. stack \in Stacks /\ published \in Seq(InvokerEvent) /\ FramesSound
    BY DEF StreamInv, InvokerInv, TypeOK, Stacks
  <2> QED BY <2>1, TopFrame DEF FramesSound, Sound
<1>3. CallTold'
  <2> SUFFICES ASSUME NEW d \in DOMAIN attempts'
               PROVE  Alternates(d)' /\ Sums(d)'
    BY DEF CallTold
  <2>1. CASE d = c
    BY <2>1
  <2>2. CASE d # c
    BY <1>1, <2>2, CallUnheard
  <2> QED BY <2>1, <2>2
<1>4. FramesTold'
  <2> SUFFICES ASSUME NEW v \in Workers, NEW i \in DOMAIN stack'[v], NEW f, f = stack'[v][i]
               PROVE  FrameTold(f)'
    BY DEF FramesTold, FrameTold
  <2>1. CASE goesOn /\ f = g
    BY <2>1
  <2>2. CASE i \in DOMAIN stack[v] /\ f = stack[v][i] /\ f.call # c
    <3>1. f \in Frame /\ FrameTold(f)
      BY <1>2, <2>2 DEF Stacks, StreamInv, FramesTold, FrameTold
    <3> QED BY <2>2, <3>1, FrameUnheard
  <2> QED BY <1>1, <2>1, <2>2
<1>5. TellsOfBegun'
  <2>1. CASE UNCHANGED published
    BY <2>1 DEF StreamInv, TellsOfBegun
  <2>2. ASSUME NEW e \in InvokerEvent, publish(e), e.call = c
        PROVE  TellsOfBegun'
    BY <1>2, <2>2 DEF StreamInv, TellsOfBegun, publish
  <2> QED BY <2>1, <2>2
<1> QED BY <1>3, <1>4, <1>5 DEF StreamInv

\* A call begins: nothing is told of it yet.
LEMMA BeginTold ==
    ASSUME StreamInv, InvokerInv', NEW w \in Workers, Refuse(w) \/ Admit(w)
    PROVE  StreamInv'
<1>0. PICK c : c = Len(attempts) + 1
  OBVIOUS
<1>1. /\ DOMAIN attempts' = DOMAIN attempts \union {c} /\ c \notin DOMAIN attempts
      /\ attempts'[c] = 0 /\ c \in Call
      /\ \A d \in DOMAIN attempts : attempts'[d] = attempts[d]
  BY <1>0, Begun DEF StreamInv, Refuse, Admit
<1>2. \/ UNCHANGED published
      \/ \E e \in InvokerEvent : publish(e) /\ e.type = "budget.exceeded"
  <2>1. \A kind \in {"invocations", "duration"} :
            /\ BudgetExceeded(c, kind) \in InvokerEvent
            /\ BudgetExceeded(c, kind).type = "budget.exceeded"
    BY <1>1 DEF InvokerEvent, BudgetExceeded
  <2> QED BY <1>0, <2>1 DEF Refuse, Admit
<1>3. /\ stack \in Stacks /\ published \in Seq(InvokerEvent)
      /\ FramesSound /\ TellsOfBegun /\ FramesTold
  BY DEF StreamInv, InvokerInv, TypeOK, Stacks
<1>4. \A v \in Workers : \A i \in DOMAIN stack[v] : stack[v][i].call \in DOMAIN attempts
  BY <1>3 DEF FramesSound, Sound
<1>5. \/ UNCHANGED stack
      \/ \E f \in Frame : push(w, f) /\ f.call = c /\ f.place = "ready" /\ f.attempt = 0
  <2>1. \A b \in BOOLEAN :
            [call |-> c, attempt |-> 0, place |-> "ready", composable |-> b] \in Frame
    BY <1>1, InvokerAssumption DEF Frame
  <2> QED BY <1>0, <2>1 DEF Refuse, Admit
<1>6. /\ \A v \in Workers : \A i \in DOMAIN stack[v] :
             i \in DOMAIN stack'[v] /\ stack'[v][i] = stack[v][i]
      /\ \A v \in Workers : \A i \in DOMAIN stack'[v] :
             \/ i \in DOMAIN stack[v] /\ stack'[v][i] = stack[v][i]
             \/ /\ stack'[v][i] \in Frame /\ stack'[v][i].call = c
                /\ stack'[v][i].place = "ready" /\ stack'[v][i].attempt = 0
  <2>1. CASE UNCHANGED stack
    BY <2>1
  <2>2. ASSUME NEW f \in Frame, push(w, f), f.call = c, f.place = "ready", f.attempt = 0
        PROVE  <1>6!:
    <3>1. stack' = [stack EXCEPT ![w] = Append(stack[w], f)]
      BY <1>3, <2>2 DEF push, Stacks
    <3>2. stack[w] \in Seq(Frame)
      BY <1>3 DEF Stacks
    <3>3. /\ DOMAIN stack[w] \subseteq DOMAIN Append(stack[w], f)
          /\ \A i \in DOMAIN stack[w] : Append(stack[w], f)[i] = stack[w][i]
      BY <3>2
    <3>4. \A v \in Workers : \A i \in DOMAIN stack[v] :
              i \in DOMAIN stack'[v] /\ stack'[v][i] = stack[v][i]
      BY <1>3, <3>1, <3>3 DEF Stacks
    <3> QED BY <1>3, <2>2, <3>4, Pushed
  <2> QED BY <1>5, <2>1, <2>2
<1>7. seen(c) = {} /\ told(c) = 0
  <2>1. seen(c) = {}
    BY <1>1, <1>3 DEF seen, about, TellsOfBegun
  <2> QED BY <2>1, FS_EmptySet DEF told
<1>8. seen(c)' = {} /\ told(c)' = 0
  BY <1>2, <1>3, <1>7, Unheard
<1>9. CallTold'
  <2> SUFFICES ASSUME NEW d \in DOMAIN attempts'
               PROVE  Alternates(d)' /\ Sums(d)'
    BY DEF CallTold
  <2>1. CASE d = c
    <3>1. ~running(c)'
      BY <1>1, <1>4, <1>6 DEF running
    <3> QED BY <1>1, <1>8, <2>1, <3>1 DEF Alternates, Sums
  <2>2. CASE d \in DOMAIN attempts
    <3>1. d # c
      BY <1>1, <2>2
    <3>2. running(d)' => running(d)
      BY <1>6, <3>1 DEF running
    <3>3. running(d) => running(d)'
      BY <1>6 DEF running
    <3> QED BY <1>1, <1>2, <2>2, <3>2, <3>3, CallUnheard
  <2> QED BY <1>1, <2>1, <2>2
<1>10. FramesTold'
  <2> SUFFICES ASSUME NEW v \in Workers, NEW i \in DOMAIN stack'[v], NEW f, f = stack'[v][i]
               PROVE  FrameTold(f)'
    BY DEF FramesTold, FrameTold
  <2>1. CASE i \in DOMAIN stack[v] /\ f = stack[v][i]
    <3>1. f \in Frame /\ FrameTold(f)
      BY <1>3, <2>1 DEF Stacks, FramesTold, FrameTold
    <3> QED BY <1>2, <3>1, FrameUnheard
  <2>2. CASE f.call = c /\ f.place = "ready" /\ f.attempt = 0
    BY <1>8, <2>2 DEF FrameTold, waits
  <2> QED BY <1>6, <2>1, <2>2
<1>11. TellsOfBegun'
  BY <1>1, <1>2, <1>3 DEF TellsOfBegun, publish
<1> QED BY <1>9, <1>10, <1>11 DEF StreamInv

LEMMA WorkTold ==
    ASSUME StreamInv, InvokerInv', NEW w \in Workers, Work(w)
    PROVE  StreamInv'
<1>1. CASE Refuse(w) \/ Admit(w)
  BY <1>1, BeginTold
<1>2. SUFFICES ASSUME stack[w] # <<>>, ~(Refuse(w) \/ Admit(w))
               PROVE  StreamInv'
  BY <1>1 DEF Work, Attempt, Succeed, FailAttempt, CheckContext, Retry, GiveUp, inside
<1> DEFINE n == Len(stack[w])
<1>3. PICK f \in Frame, c \in Call, a \in Nat :
          f = top(w) /\ c = f.call /\ a = f.attempt /\ a \in 0 .. MaxRetries
  <2>1. stack \in Stacks
    BY DEF StreamInv, InvokerInv, TypeOK, Stacks
  <2> QED BY <1>2, <2>1, TopFrame, InvokerAssumption DEF Frame
<1>4. /\ FrameTold(f) /\ c \in DOMAIN attempts /\ attempts[c] = made(f)
      /\ waits(f) => retriable(f)
      /\ stack \in Stacks /\ attempts \in Seq(Nat)
      /\ \A d \in DOMAIN attempts : Alternates(d) /\ Sums(d)
  <2>1. stack \in Stacks /\ FramesTold /\ FramesSound /\ attempts \in Seq(Nat) /\ CallTold
    BY DEF StreamInv, InvokerInv, TypeOK, Stacks
  <2>2. n \in DOMAIN stack[w] /\ f = stack[w][n]
    BY <1>2, <1>3, <2>1, TopFrame
  <2>3. FrameTold(f) /\ Sound(f)
    BY <2>1, <2>2 DEF FramesTold, FramesSound, FrameTold, Sound
  <2> QED BY <1>3, <2>1, <2>3 DEF Sound, waits, CallTold
<1>5. /\ told(c) = 2 * a + (IF waits(f) THEN 1 ELSE 0)
      /\ waits(f) => \A i \in seen(c) : nth(c, i) % 2 = 1 =>
                         published[i] = CapabilityInvoked(c, "error")
  BY <1>3, <1>4 DEF FrameTold
<1>6. CASE Attempt(w)
  <2>0. PICK g : g = [f EXCEPT !.place = "running"]
    OBVIOUS
  <2>1. /\ f.place = "ready" /\ UNCHANGED published
        /\ attempts' = [attempts EXCEPT ![c] = attempts[c] + 1]
        /\ stack' = [stack EXCEPT ![w] = [stack[w] EXCEPT ![n] = g]]
    BY <1>3, <1>4, <1>6, <2>0 DEF Attempt, inside, move, Stacks, top
  <2>2. g \in Frame /\ g.call = c /\ g.place = "running" /\ g.attempt = a
    BY <1>3, <2>0, <2>1 DEF Frame
  <2>3. /\ DOMAIN attempts' = DOMAIN attempts /\ attempts'[c] = a + 1
        /\ \A d \in DOMAIN attempts : d # c => attempts'[d] = attempts[d]
    <3>1. attempts[c] = a
      BY <1>3, <1>4, <2>1 DEF made
    <3> QED BY <1>4, <2>1, <3>1
  <2>4. told(c) = 2 * a
    BY <1>5, <2>1 DEF waits
  <2>5. published \in Seq(InvokerEvent)
    BY DEF StreamInv, InvokerInv, TypeOK
  <2>6. /\ seen(c)' = seen(c) /\ told(c)' = told(c)
        /\ \A i \in seen(c) :
               nth(c, i)' = nth(c, i) /\ published'[i] = published[i]
    BY <2>1, <2>5, Unheard
  <2>7. running(c)'
    BY <1>2, <1>3, <2>1, <2>2, RunsOn DEF StreamInv
  <2>8. Alternates(c)'
    BY <1>4, <2>6 DEF Alternates
  <2>9. Sums(c)'
    BY <2>3, <2>4, <2>6, <2>7 DEF Sums
  <2>10. FrameTold(g)'
    BY <2>2, <2>4, <2>6 DEF FrameTold, waits
  <2> QED BY <1>2, <1>3, <2>1, <2>2, <2>3, <2>8, <2>9, <2>10, TopCallMoves
<1>7. CASE Succeed(w) \/ FailAttempt(w)
  <2>1. PICK o \in Outcomes :
            /\ f.place = "running" /\ UNCHANGED attempts
            /\ publish(CapabilityInvoked(c, o))
            /\ o = "success" => pop(w)
            /\ o = "error" => pop(w) \/ (retriable(f) /\ move(w, "failed"))
    BY <1>3, <1>7 DEF Succeed, FailAttempt, inside, Outcomes
  <2>2. told(c) = 2 * a /\ attempts'[c] = a + 1
    BY <1>3, <1>4, <1>5, <2>1 DEF waits, made
  <2>3. CapabilityInvoked(c, o) \in InvokerEvent /\ CapabilityInvoked(c, o).call = c
    BY DEF InvokerEvent, CapabilityInvoked
  <2>4. CASE pop(w)
    <3>1. ~running(c)'
      BY <1>2, <1>3, <2>4, Runs DEF StreamInv
    <3>2. Alternates(c)' /\ Sums(c)'
      BY <1>4, <2>1, <2>2, <3>1, AttemptTold
    <3>3. StreamInv'
      BY <1>2, <1>3, <2>1, <2>3, <2>4, <3>2, TopCallMoves
    <3> QED BY <3>3
  <2>5. CASE ~pop(w)
    <3>0. PICK g : g = [f EXCEPT !.place = "failed"]
      OBVIOUS
    <3>1. /\ o = "error"
          /\ stack' = [stack EXCEPT ![w] = [stack[w] EXCEPT ![n] = g]]
      BY <1>3, <1>4, <2>1, <2>5, <3>0 DEF move, Stacks, top, Outcomes
    <3>2. g \in Frame /\ g.call = c /\ g.place = "failed" /\ g.attempt = a
      BY <1>3, <2>1, <3>0 DEF Frame
    <3>3. ~running(c)'
      BY <1>2, <1>3, <3>1, <3>2, RunsOn DEF StreamInv
    <3>4. /\ Alternates(c)' /\ Sums(c)' /\ told(c)' = 2 * a + 1
          /\ \A i \in seen(c)' : nth(c, i)' % 2 = 1 =>
                 published'[i] = CapabilityInvoked(c, "error")
      BY <1>4, <2>1, <2>2, <3>1, <3>3, AttemptTold
    <3>5. FrameTold(g)'
      BY <3>2, <3>4 DEF FrameTold, waits
    <3> QED BY <1>2, <1>3, <2>1, <2>3, <3>1, <3>2, <3>4, <3>5, TopCallMoves
  <2> QED BY <2>4, <2>5
<1>8. CASE CheckContext(w) \/ GiveUp(w)
  <2>1. /\ waits(f) /\ UNCHANGED <<published, attempts>>
        /\ pop(w) \/ move(w, "backoff")
    BY <1>3, <1>8 DEF CheckContext, GiveUp, inside, waits
  <2>2. ~running(c)
    BY <1>2, <1>3, <2>1, RunningTop DEF StreamInv, waits
  <2>3. CASE pop(w)
    <3>1. ~running(c)'
      BY <1>2, <1>3, <2>3, Runs DEF StreamInv
    <3>2. Alternates(c)' /\ Sums(c)'
      BY <1>4, <2>1, <2>2, <3>1, CallUnheard
    <3> QED BY <1>2, <1>3, <2>1, <2>3, <3>2, TopCallMoves
  <2>4. CASE ~pop(w)
    <3>0. PICK g : g = [f EXCEPT !.place = "backoff"]
      OBVIOUS
    <3>1. stack' = [stack EXCEPT ![w] = [stack[w] EXCEPT ![n] = g]]
      BY <1>3, <1>4, <2>1, <2>4, <3>0 DEF move, Stacks, top
    <3>2. g \in Frame /\ g.call = c /\ g.place = "backoff" /\ g.attempt = a
      BY <1>3, <3>0 DEF Frame
    <3>3. ~running(c)'
      BY <1>2, <1>3, <3>1, <3>2, RunsOn DEF StreamInv
    <3>4. Alternates(c)' /\ Sums(c)'
      BY <1>4, <2>1, <2>2, <3>3, CallUnheard
    <3>5. FrameTold(g)
      BY <1>3, <1>4, <2>1, <3>2 DEF FrameTold, waits
    <3>6. FrameTold(g)'
      BY <2>1, <3>2, <3>5, FrameUnheard
    <3> QED BY <1>2, <1>3, <2>1, <3>1, <3>2, <3>4, <3>6, TopCallMoves
  <2> QED BY <2>3, <2>4
<1>9. CASE Retry(w)
  <2>0. PICK g : g = [f EXCEPT !.attempt = a + 1, !.place = "ready"]
    OBVIOUS
  <2>1. /\ waits(f) /\ UNCHANGED attempts
        /\ publish(CapabilityRetried(c, a + 1))
        /\ stack' = [stack EXCEPT ![w] = [stack[w] EXCEPT ![n] = g]]
    BY <1>3, <1>4, <1>9, <2>0 DEF Retry, inside, retryNumber, waits, Stacks
  <2>2. a \in 0 .. MaxRetries - 1 /\ a + 1 \in 1 .. MaxRetries
    BY <1>3, <1>4, <2>1, InvokerAssumption DEF retriable
  <2>3. g \in Frame /\ g.call = c /\ g.place = "ready" /\ g.attempt = a + 1
    <3>1. a + 1 \in 0 .. MaxRetries
      BY <2>2
    <3> QED BY <1>3, <2>0, <3>1 DEF Frame
  <2>4. ~running(c)'
    BY <1>2, <1>3, <2>1, <2>3, RunsOn DEF StreamInv
  <2>5. told(c) = 2 * a + 1 /\ attempts'[c] = a + 1
    BY <1>3, <1>4, <1>5, <2>1 DEF waits, made
  <2>6. Alternates(c)' /\ Sums(c)' /\ told(c)' = 2 * (a + 1)
    BY <1>4, <1>5, <2>1, <2>2, <2>4, <2>5, RetryTold
  <2>7. FrameTold(g)'
    BY <2>3, <2>6 DEF FrameTold, waits
  <2>8. CapabilityRetried(c, a + 1) \in InvokerEvent /\ CapabilityRetried(c, a + 1).call = c
    BY <2>2 DEF InvokerEvent, CapabilityRetried
  <2> QED BY <1>2, <1>3, <2>1, <2>3, <2>6, <2>7, <2>8, TopCallMoves
<1> QED BY <1>2, <1>6, <1>7, <1>8, <1>9 DEF Work

LEMMA StreamInit == Init => StreamInv
<1> SUFFICES ASSUME Init
             PROVE  StreamInv
  OBVIOUS
<1>1. InvokerInv
  BY InvokerInit
<1>2. /\ DOMAIN published = {} /\ DOMAIN attempts = {}
      /\ \A w \in Workers : DOMAIN stack[w] = {}
  BY DEF Init
<1> QED BY <1>1, <1>2 DEF StreamInv, TellsOfBegun, CallTold, FramesTold

LEMMA StreamStep ==
    ASSUME StreamInv, [Next]_vars
    PROVE  StreamInv'
<1>1. InvokerInv'
  BY InvokerStep DEF StreamInv
<1>2. CASE UNCHANGED <<stack, published, attempts>>
  <2>1. \A c : /\ seen(c)' = seen(c) /\ told(c)' = told(c) /\ (running(c)' <=> running(c))
               /\ \A i : nth(c, i)' = nth(c, i)
    BY <1>2 DEF seen, told, nth, about, running
  <2>2. CallTold'
    BY <1>2, <2>1 DEF StreamInv, CallTold, Alternates, Sums
  <2>3. FramesTold'
    BY <1>2, <2>1 DEF StreamInv, FramesTold, FrameTold
  <2> QED BY <1>1, <1>2, <2>2, <2>3 DEF StreamInv, TellsOfBegun
<1> QED BY <1>1, <1>2, WorkTold DEF Next, Expire, Cancel, vars

\* The published stream tells of each call every attempt but the one that is
\* running, and every retry, in order and numbered, however the goroutines'
\* calls interleave and nest.
THEOREM EventsFollowCalls == Spec => []EventsTellAttempts
<1>1. StreamInv => EventsTellAttempts
  <2> SUFFICES ASSUME StreamInv, NEW c \in DOMAIN attempts
               PROVE  /\ \A i \in about(c, Len(published)) :
                             published[i] \in expected(c, nth(c, i), told(c))
                      /\ attempts[c] = ((told(c) + 1) \div 2) + (IF running(c) THEN 1 ELSE 0)
    BY DEF EventsTellAttempts, expected, nth, told, seen, running
  <2> QED BY DEF StreamInv, CallTold, Alternates, Sums, seen
<1>2. StreamInv /\ [Next]_vars => StreamInv'
  BY StreamStep
<1> QED BY StreamInit, <1>1, <1>2, PTL DEF Spec
=============================================================================
