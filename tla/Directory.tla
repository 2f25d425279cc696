------------------------------ MODULE Directory ------------------------------
(***************************************************************************)
(* What the composition service promises, whatever happens inside it:      *)
(* plugins are registered and deregistered as wholes, and no two of them   *)
(* are registered at a time that share an identifier or a name.            *)
(*                                                                         *)
(* There is no code behind this module; Registry is shown to implement it. *)
(***************************************************************************)
CONSTANT Packages       \* contributions: records with an id and names

VARIABLE registered

Names(c) == c.actions \union c.capabilities

clash(c, d) == c.id = d.id \/ Names(c) \intersect Names(d) # {}

Init == registered = {}

Register(c) ==
    /\ \A d \in registered : ~clash(c, d)
    /\ registered' = registered \union {c}

Deregister(c) ==
    /\ c \in registered
    /\ registered' = registered \ {c}

Next == \E c \in Packages : Register(c) \/ Deregister(c)

Spec == Init /\ [][Next]_registered
=============================================================================
