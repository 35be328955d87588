---------------------------- MODULE MCBetPlacing ----------------------------
(***************************************************************************)
(* Instances of BetPlacing for TLC: two players, one of them with two      *)
(* pages, and budgets each of which makes one kind of trouble likely.      *)
(***************************************************************************)
EXTENDS BetPlacing, TLC

CONSTANTS a, b, \* the players
          a1, a2, b1, \* their pages
          w, v \* two wagers

TwoPages == a1 :> a @@ a2 :> a @@ b1 :> b

Budget(tries, repeats, joins, reads, faults) ==
  [tries |-> tries, repeats |-> repeats, joins |-> joins, reads |-> reads, faults |-> faults]

\* A market's first bets, and one that has had bets of everyone.
NoneOrAll == {{}, Players \cup {Vault}}

\* Two bets and a fault; a bet confirmed three times and a fault; players
\* who join, one twice, and a fault.
Troubles == {Budget(2, 0, 0, 0, 1), Budget(1, 2, 0, 0, 1), Budget(0, 0, 3, 1, 1)}

\* Two bets, and nothing fails.
Few == {Budget(2, 0, 0, 0, 0)}

\* The pages of one player, and the wagers, may be exchanged.
Symmetric == Permutations({a1, a2}) \cup Permutations({w, v})
=============================================================================
