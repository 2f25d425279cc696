-------------------------------- MODULE MCSaga --------------------------------
(***************************************************************************)
(* Sagas of up to three steps around an action with external effects.      *)
(***************************************************************************)
EXTENDS Saga, TLC

MCPlans == {<<"reserve", "charge">>, <<"charge", "reserve", "charge">>,
            <<"reserve", NoName>>}

MCSymmetry == Permutations(Sagas) \union Permutations(SessionIDs)
=============================================================================
