---------------------------- MODULE RoundSeries ----------------------------
(***************************************************************************)
(* What the schedulers promise of one market: its rounds are open one at a *)
(* time, and a number that was open is never open again.                   *)
(***************************************************************************)
EXTENDS Naturals

CONSTANT Numbers \* of rounds, from 1

VARIABLES
  current, \* the number of the round open for bets, 0 when there is none
  highest  \* the highest number that has been open

vars == <<current, highest>>

Init == current = 0 /\ highest = 0

Open(n) ==
  /\ current = 0
  /\ n > highest
  /\ current' = n
  /\ highest' = n

Close ==
  /\ current # 0
  /\ current' = 0
  /\ UNCHANGED highest

Next == (\E n \in Numbers : Open(n)) \/ Close

Spec == Init /\ [][Next]_vars

=============================================================================
