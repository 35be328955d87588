-------------------------- MODULE MCBetSettlement --------------------------
(***************************************************************************)
(* Instances of BetSettlement for TLC.                                     *)
(***************************************************************************)
EXTENDS BetSettlement, TLC

CONSTANTS win, lose, late, w1, w2

\* The executions of the job are interchangeable.
WorkersAlike == Permutations(Workers)

=============================================================================
