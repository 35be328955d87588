------------------------------ MODULE BetBook ------------------------------
(***************************************************************************)
(* What the on-chain program promises about wagers, with no account, no    *)
(* counter, no rollup and no clock: a book for every round that takes bets *)
(* while it is open, closes, and is settled only when every bet taken has  *)
(* been closed; a bet is closed at most once, after the book stopped       *)
(* taking bets, and receives nothing, its stake back, or its winnings at   *)
(* the odds it was taken at.                                               *)
(***************************************************************************)
EXTENDS Integers

CONSTANTS Users, RoundIds, Stakes, OddsValues

VARIABLES
  book, \* book[r] \in BookStates
  slip  \* slip[r][u]: the bet of u in the book of r

vars == <<book, slip>>

BookStates == {"Absent", "Predicting", "Locked", "Settled"}

NoSlip == [state |-> "none", stake |-> 0, odds |-> 0, paid |-> 0]

Init ==
  /\ book = [r \in RoundIds |-> "Absent"]
  /\ slip = [r \in RoundIds |-> [u \in Users |-> NoSlip]]

OpenBook(r) ==
  /\ book[r] = "Absent"
  /\ book' = [book EXCEPT ![r] = "Predicting"]
  /\ UNCHANGED slip

CloseBook(r) ==
  /\ book[r] = "Predicting"
  /\ book' = [book EXCEPT ![r] = "Locked"]
  /\ UNCHANGED slip

TakeBet(u, r, stake, odds) ==
  /\ book[r] = "Predicting"
  /\ slip[r][u].state = "none"
  /\ slip' = [slip EXCEPT ![r][u] = [state |-> "open", stake |-> stake,
                                     odds |-> odds, paid |-> 0]]
  /\ UNCHANGED book

Payouts(s) == {0, s.stake, (s.stake * s.odds) \div 100}

Closed(s, paid) ==
  [state |-> "closed", stake |-> s.stake, odds |-> s.odds, paid |-> paid]

CloseSlip(u, r) ==
  /\ book[r] = "Locked"
  /\ slip[r][u].state = "open"
  /\ \E paid \in Payouts(slip[r][u]) :
       slip' = [slip EXCEPT ![r][u] = Closed(@, paid)]
  /\ UNCHANGED book

SettleBook(r) ==
  /\ book[r] = "Locked"
  /\ \A u \in Users : slip[r][u].state # "open"
  /\ book' = [book EXCEPT ![r] = "Settled"]
  /\ UNCHANGED slip

Next ==
  \E r \in RoundIds :
    \/ OpenBook(r)
    \/ CloseBook(r)
    \/ SettleBook(r)
    \/ \E u \in Users :
         \/ \E stake \in Stakes, odds \in OddsValues : TakeBet(u, r, stake, odds)
         \/ CloseSlip(u, r)

Spec == Init /\ [][Next]_vars

=============================================================================
