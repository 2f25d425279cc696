------------------------------ MODULE MCDurable ------------------------------
(***************************************************************************)
(* A small instance of Durable for TLC.  Payload 1 is plain data, 2 a      *)
(* struct that comes back from JSON as the map 3, 4 cannot be marshalled;  *)
(* the hash function has no collisions on trails this short.               *)
(***************************************************************************)
EXTENDS Durable

MCValues == {1, 2, 3, 4}
MCEncodable == {1, 2, 3}
MCHashes == 0 .. 40
MCHash(v, h) == ((3 * h + v) % 40) + 1
MCReloaded(v) == IF v = 2 THEN 3 ELSE v
=============================================================================
