---------------------------- MODULE MCMissing3mf ----------------------------
(***************************************************************************)
(* Two models of one site on a small instance: both instances of the first *)
(* lack their file and one of the second.                                  *)
(***************************************************************************)
EXTENDS Missing3mf

CONSTANTS a, b, i1, i2

MCInit ==
    /\ MissingInit
    /\ lacking = {<<a, i2>>, <<b, i1>>}
    /\ offered \in {Entries \ {<<a, i2>>}, Of(b)}
MCSpec == MCInit /\ [][MissingNext]_missingVars /\ MissingFair
=============================================================================
