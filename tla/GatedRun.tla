------------------------------ MODULE GatedRun -------------------------------
(***************************************************************************)
(* What the kernel promises of one execution session, whoever calls it:    *)
(* the action's executor runs at most once; for an action with external    *)
(* write effects it runs only after somebody granted the session; and a    *)
(* closed session stays closed and is never granted.                       *)
(*                                                                         *)
(* There is no code behind this module; Execution is shown to implement it.*)
(***************************************************************************)
EXTENDS Naturals

VARIABLES
    external,   \* the action writes to an external system
    stage,      \* "open", "waiting", "cleared" or "closed"
    granted,    \* somebody approved the session
    runs        \* how often the executor has been entered

vars == <<external, stage, granted, runs>>

Init ==
    /\ external \in BOOLEAN
    /\ stage = "open"
    /\ granted = FALSE
    /\ runs = 0

\* An external write waits, anything else is cleared at once.
Admit ==
    /\ stage = "open"
    /\ stage' = IF external THEN "waiting" ELSE "cleared"
    /\ UNCHANGED <<external, granted, runs>>

Grant ==
    /\ stage = "waiting"
    /\ stage' = "cleared"
    /\ granted' = TRUE
    /\ UNCHANGED <<external, runs>>

Run ==
    /\ runs = 0
    /\ stage \in {"cleared", "closed"}
    /\ external => granted
    /\ runs' = 1
    /\ UNCHANGED <<external, stage, granted>>

Close ==
    /\ stage # "closed"
    /\ stage' = "closed"
    /\ UNCHANGED <<external, granted, runs>>

Next == Admit \/ Grant \/ Run \/ Close

Spec == Init /\ [][Next]_vars
=============================================================================
