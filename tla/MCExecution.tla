----------------------------- MODULE MCExecution -----------------------------
(***************************************************************************)
(* Small instances of Execution for TLC.                                   *)
(***************************************************************************)
EXTENDS Execution

MCValues == {1}
MCHashes == 0 .. 40
MCHash(v, h) == ((3 * h + v) % 40) + 1
=============================================================================
