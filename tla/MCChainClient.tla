--------------------------- MODULE MCChainClient ---------------------------
(***************************************************************************)
(* Instances of ChainClient for TLC: a method of each shape, so that     *)
(* pairs of them meet on one round.                                        *)
(***************************************************************************)
EXTENDS ChainClient

Shapes == {openRound, settleBet, commitOutcomeHashER,
  revealOutcomeER, commitRoundStateER, delegateRound,
  ensureRoundUndelegated, waitForRoundOutcomeOnBase, requestRandomness}
=============================================================================
