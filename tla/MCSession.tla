------------------------------ MODULE MCSession ------------------------------
(***************************************************************************)
(* A small instance of Session for TLC: payloads 1 and 2 can be encoded, 3 *)
(* cannot, and the hash function has no collisions on trails this short.   *)
(***************************************************************************)
EXTENDS Session

MCValues == {1, 3}
MCEncodable == {1}
MCHashes == 0 .. 40
MCHash(v, h) == ((3 * h + v) % 40) + 1
=============================================================================
