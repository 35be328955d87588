---------------------------- MODULE RoundAccount ----------------------------
(***************************************************************************)
(* What the on-chain program promises about one round account, with no     *)
(* bets, no counter and no clock, and with one copy of the account however *)
(* many the chain, the rollup and the commits between them hold: it is     *)
(* opened, locked, and settled only with an outcome; it is written where   *)
(* it lives, on the base chain or on the rollup, and by nobody while it    *)
(* travels back; and it comes back exactly as it left.                     *)
(***************************************************************************)
CONSTANTS Outcomes, CommunityOutcomes, Randomness, Pending, None

VARIABLES
  acct, \* the contents of the account, wherever the current copy is
  home  \* "program": on the base chain; "rollup"; "leaving" the rollup

vars == <<acct, home>>

Homes == {"program", "rollup", "leaving"}

Account == [status : {"Absent", "Predicting", "Locked", "Settled"},
            inputs : Randomness \cup {None},
            commitment : Outcomes \cup {None},
            outcome : Outcomes \cup CommunityOutcomes \cup {Pending}]

NoAccount == [status |-> "Absent", inputs |-> None, commitment |-> None,
              outcome |-> Pending]

Init ==
  /\ acct = NoAccount
  /\ home = "program"

\* Every instruction that writes the account.
Write(status, contents) ==
  /\ acct.status = status
  /\ home # "leaving"
  /\ acct' = contents
  /\ UNCHANGED home

Open ==
  /\ home = "program"
  /\ Write("Absent", [acct EXCEPT !.status = "Predicting"])

Lock == Write("Predicting", [acct EXCEPT !.status = "Locked"])
Callback(h) == Write("Locked", [acct EXCEPT !.inputs = h])
CommitHash(o) == Write("Locked", [acct EXCEPT !.commitment = o])
ErReveal(o) == Write("Locked", [acct EXCEPT !.outcome = o])

\* The commitment opens to the outcome revealed.
Reveal(o, h) ==
  /\ acct.commitment = o
  /\ Write("Locked", [status |-> "Locked", inputs |-> h, commitment |-> o,
                      outcome |-> o])

Community(o) ==
  /\ acct.status # "Absent"
  /\ Write(acct.status, [acct EXCEPT !.outcome = o])

Settle ==
  /\ acct.outcome # Pending
  /\ Write("Locked", [acct EXCEPT !.status = "Settled"])

Delegate ==
  /\ acct.status # "Absent"
  /\ home = "program"
  /\ home' = "rollup"
  /\ UNCHANGED acct

Undelegate ==
  /\ home = "rollup"
  /\ home' = "leaving"
  /\ UNCHANGED acct

Return ==
  /\ home = "leaving"
  /\ home' = "program"
  /\ UNCHANGED acct

Next ==
  \/ Open
  \/ Lock
  \/ \E h \in Randomness : Callback(h)
  \/ \E o \in Outcomes : CommitHash(o) \/ ErReveal(o)
  \/ \E o \in Outcomes, h \in Randomness : Reveal(o, h)
  \/ \E o \in CommunityOutcomes : Community(o)
  \/ Settle
  \/ Delegate
  \/ Undelegate
  \/ Return

Spec == Init /\ [][Next]_vars

=============================================================================
