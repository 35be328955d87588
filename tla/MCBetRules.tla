----------------------------- MODULE MCBetRules -----------------------------
(***************************************************************************)
(* Instance of BetRules for TLC: every type of market, two edges of the    *)
(* house the seeds use, numbers at, inside and outside the bounds of the   *)
(* selections and of 16 bits, and, of a wallet's own, selections of every  *)
(* kind with numbers a page would and would not send.                      *)
(***************************************************************************)
EXTENDS BetRules

TypedNumbers == {-1, 0, 2, 9, 10, 50, 100, 101, 255, 256, 65538}

WalletSelections ==
  {Encoded(kind, a, 2, 0) : kind \in 0 .. 9, a \in {0, 7}}
    \cup {Encoded(0, 90, 200, 0), Encoded(0, 0, 65535, 0), Encoded(6, 255, 9, 255)}
=============================================================================
