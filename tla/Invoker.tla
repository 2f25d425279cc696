------------------------------- MODULE Invoker -------------------------------
(***************************************************************************)
(* The capability invoker of one run of an executor: boundInvoker in       *)
(* domain/execution.go with the budgetEnforcer of domain/budget.go.        *)
(*                                                                         *)
(* Workers are the goroutines in which the executor's code calls Invoke.   *)
(* A capability whose executor is composable is handed the same invoker    *)
(* and may call Invoke again, so a worker has a stack of calls, the        *)
(* innermost one last.  Shared are the budget's counter, the context and   *)
(* the publisher.                                                          *)
(***************************************************************************)
EXTENDS Integers, Sequences, FiniteSets

CONSTANTS
    Workers,        \* goroutines of the action's executor
    MaxInvocations, \* budget.MaxCapabilityInvocations, 0: no limit
    MaxRetries,     \* budget.MaxRetries
    MaxCalls        \* bound: calls of Invoke in the run

ASSUME InvokerAssumption ==
    /\ MaxInvocations \in Nat
    /\ MaxRetries \in Nat
    /\ MaxCalls \in Nat

VARIABLES
    idempotent,     \* the action's idempotency profile
    stack,          \* the calls each worker is in
    invocations,    \* budgetEnforcer.invocations
    expired,        \* MaxDuration > 0 and more than that has passed
    cancelled,      \* ctx.Err() != nil
    published,      \* what the invoker has published
    attempts        \* history: attempts made for each call, by its number

vars == <<idempotent, stack, invocations, expired, cancelled, published, attempts>>

Call == 1 .. MaxCalls
Outcomes == {"success", "error"}

CapabilityInvoked(c, outcome) ==
    [type |-> "capability.invoked", call |-> c, outcome |-> outcome]
CapabilityRetried(c, k) ==
    [type |-> "capability.retried", call |-> c, attempt |-> k]
BudgetExceeded(c, kind) ==
    [type |-> "budget.exceeded", call |-> c, kind |-> kind]

\* One call of Invoke: its number, the attempt counter of the retry loop, where
\* in the loop it is, and whether its executor is composable.
Frame == [call : Call, attempt : 0 .. MaxRetries,
          place : {"ready", "running", "failed", "backoff"},
          composable : BOOLEAN]

Init ==
    /\ idempotent \in BOOLEAN
    /\ stack = [w \in Workers |-> <<>>]
    /\ invocations = 0
    /\ expired = FALSE
    /\ cancelled = FALSE
    /\ published = <<>>
    /\ attempts = <<>>

-----------------------------------------------------------------------------
top(w) == stack[w][Len(stack[w])]

inside(w, place) == stack[w] # <<>> /\ top(w).place = place

push(w, frame) == stack' = [stack EXCEPT ![w] = Append(@, frame)]
pop(w) == stack' = [stack EXCEPT ![w] = SubSeq(@, 1, Len(@) - 1)]
move(w, place) == stack' = [stack EXCEPT ![w][Len(stack[w])].place = place]

publish(e) == published' = Append(published, e)

\* The executor of the action, or of a composable capability, is running.
mayInvoke(w) == stack[w] = <<>> \/ (inside(w, "running") /\ top(w).composable)

\* checkInvocation counts the call before it compares, refused ones included.
counted == IF MaxInvocations > 0 THEN invocations + 1 ELSE invocations
comparesFirst == MaxInvocations > 0 /\ invocations > MaxInvocations  \* mutant
exhausted == MaxInvocations > 0 /\ counted > MaxInvocations

\* A call begins.  The number it gets also marks its entry in attempts.
begin(w) ==
    /\ mayInvoke(w)
    /\ Len(attempts) < MaxCalls
    /\ invocations' = counted
    /\ attempts' = Append(attempts, 0)
    /\ UNCHANGED <<idempotent, expired, cancelled>>

\* The budget refuses the call, whatever its caller makes of that.
Refuse(w) ==
    /\ begin(w)
    /\ \/ exhausted /\ publish(BudgetExceeded(Len(attempts) + 1, "invocations"))
       \/ /\ ~exhausted /\ expired
          /\ publish(BudgetExceeded(Len(attempts) + 1, "duration"))
    /\ UNCHANGED stack

\* The budget admits the call; the capability or its executor may be unknown.
Admit(w) ==
    /\ begin(w)
    /\ ~exhausted /\ ~expired
    /\ \/ UNCHANGED stack
       \/ \E composable \in BOOLEAN :
              push(w, [call |-> Len(attempts) + 1, attempt |-> 0,
                       place |-> "ready", composable |-> composable])
    /\ UNCHANGED published

\* invokeOnce.
Attempt(w) ==
    /\ inside(w, "ready")
    /\ move(w, "running")
    /\ attempts' = [attempts EXCEPT ![top(w).call] = @ + 1]
    /\ UNCHANGED <<idempotent, invocations, expired, cancelled, published>>

Succeed(w) ==
    /\ inside(w, "running")
    /\ publish(CapabilityInvoked(top(w).call, "success"))
    /\ pop(w)
    /\ UNCHANGED <<idempotent, invocations, expired, cancelled, attempts>>

retriesOnceMore(frame) == idempotent /\ frame.attempt <= MaxRetries   \* mutant
retriable(frame) == idempotent /\ frame.attempt < MaxRetries

FailAttempt(w) ==
    /\ inside(w, "running")
    /\ publish(CapabilityInvoked(top(w).call, "error"))
    /\ \/ ~retriable(top(w)) /\ pop(w)
       \/ retriable(top(w)) /\ move(w, "failed")
    /\ UNCHANGED <<idempotent, invocations, expired, cancelled, attempts>>

\* The look at the context before the wait.
CheckContext(w) ==
    /\ inside(w, "failed")
    /\ \/ cancelled /\ pop(w)
       \/ ~cancelled /\ move(w, "backoff")
    /\ UNCHANGED <<idempotent, invocations, expired, cancelled, published, attempts>>

retryFromZero(w) == top(w).attempt     \* mutant
retryNumber(w) == top(w).attempt + 1

restartsClock(w) ==     \* mutant
    /\ inside(w, "backoff")
    /\ publish(CapabilityRetried(top(w).call, retryNumber(w)))
    /\ stack' = [stack EXCEPT ![w][Len(stack[w])] =
                     [top(w) EXCEPT !.attempt = @ + 1, !.place = "ready"]]
    /\ expired' = FALSE
    /\ UNCHANGED <<idempotent, invocations, cancelled, attempts>>

\* The timer fires (or there is no backoff): the loop goes round.
Retry(w) ==
    /\ inside(w, "backoff")
    /\ publish(CapabilityRetried(top(w).call, retryNumber(w)))
    /\ stack' = [stack EXCEPT ![w][Len(stack[w])] =
                     [top(w) EXCEPT !.attempt = @ + 1, !.place = "ready"]]
    /\ UNCHANGED <<idempotent, invocations, expired, cancelled, attempts>>

\* The context ends the wait.
GiveUp(w) ==
    /\ inside(w, "backoff")
    /\ cancelled
    /\ pop(w)
    /\ UNCHANGED <<idempotent, invocations, expired, cancelled, published, attempts>>

\* Time passes; the caller of the kernel cancels.
Expire ==
    /\ expired' = TRUE
    /\ UNCHANGED <<idempotent, stack, invocations, cancelled, published, attempts>>

Cancel ==
    /\ cancelled' = TRUE
    /\ UNCHANGED <<idempotent, stack, invocations, expired, published, attempts>>

Work(w) ==
    \/ Refuse(w) \/ Admit(w) \/ Attempt(w) \/ Succeed(w) \/ FailAttempt(w)
    \/ CheckContext(w) \/ Retry(w) \/ GiveUp(w)

Next == Expire \/ Cancel \/ \E w \in Workers : Work(w)

Spec == Init /\ [][Next]_vars

-----------------------------------------------------------------------------
(* Correctness.                                                            *)

InvokerEvent ==
    {CapabilityInvoked(c, o) : c \in Call, o \in Outcomes}
        \union {CapabilityRetried(c, k) : c \in Call, k \in 1 .. MaxRetries}
        \union {BudgetExceeded(c, kind) :
                    c \in Call, kind \in {"invocations", "duration"}}

\* Every variable has its type; a retry never numbers past MaxRetries.
TypeOK ==
    /\ idempotent \in BOOLEAN
    /\ stack \in [Workers -> Seq(Frame)]
    /\ invocations \in Nat
    /\ expired \in BOOLEAN /\ cancelled \in BOOLEAN
    /\ published \in Seq(InvokerEvent)
    /\ attempts \in Seq(Nat) /\ Len(attempts) <= MaxCalls

\* "MaxRetries=3 and MaxCapabilityInvocations=10 can generate up to 40
\* outbound calls" (domain/budget.go), and no more, however the executor's
\* goroutines and composable capabilities share and nest them.
BudgetHolds ==
    MaxInvocations > 0 =>
        LET outbound == UNION {{c} \X (1 .. attempts[c]) : c \in DOMAIN attempts}
        IN  Cardinality(outbound) <= MaxInvocations * (MaxRetries + 1)

\* What that bound rests on: one call makes at most MaxRetries + 1 attempts,
\* one if the action is not idempotent, and only the first MaxInvocations
\* calls make any.
AttemptsPerCall ==
    \A c \in DOMAIN attempts :
        /\ attempts[c] <= IF idempotent THEN MaxRetries + 1 ELSE 1
        /\ MaxInvocations > 0 /\ c > MaxInvocations => attempts[c] = 0

\* Where the first k events tell of an attempt or a retry of call c.
about(c, k) ==
    {i \in 1 .. k : published[i].call = c /\ published[i].type # "budget.exceeded"}

\* Subscribers can follow each call: its attempts and retries alternate in the
\* published stream, the k-th retry is numbered k, only the last attempt may
\* have succeeded, and an attempt missing from the stream is still running.
EventsTellAttempts ==
    \A c \in DOMAIN attempts :
        LET told == Cardinality(about(c, Len(published)))
            nth(i) == Cardinality(about(c, i))
            running == \E w \in Workers : \E i \in DOMAIN stack[w] :
                           stack[w][i].call = c /\ stack[w][i].place = "running"
        IN  /\ \A i \in about(c, Len(published)) :
                   published[i] \in IF nth(i) % 2 = 0
                                    THEN {CapabilityRetried(c, nth(i) \div 2)}
                                    ELSE IF nth(i) < told
                                    THEN {CapabilityInvoked(c, "error")}
                                    ELSE {CapabilityInvoked(c, o) : o \in Outcomes}
            /\ attempts[c] = ((told + 1) \div 2) + (IF running THEN 1 ELSE 0)

\* Once the budget has refused a call it admits no other: the executor's
\* goroutines cannot free a slot by finishing, nor win back time.
RefusalIsFinal ==
    [][(\E i \in DOMAIN published : published[i].type = "budget.exceeded") =>
           \A w \in Workers : Len(stack'[w]) <= Len(stack[w])]_vars
=============================================================================
