-------------------------- MODULE MCRoundLifecycle --------------------------
(***************************************************************************)
(* Instances of RoundLifecycle for TLC.                                    *)
(***************************************************************************)
EXTENDS RoundLifecycle

Nothing == [k \in Kinds |-> 0]

\* Each fault once, or the worker among the other callers.
MCBudgets == {[k \in Kinds |-> IF k \in {"admin", "expiries"} THEN 0 ELSE 1],
              [Nothing EXCEPT !.admin = 1, !.expiries = 1]}

MCTwoTimeouts == {[Nothing EXCEPT !.timeouts = 2]}

MCNoFault == {Nothing}

=============================================================================
