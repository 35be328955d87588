--------------------------- MODULE MCTokkuEngine ---------------------------
(***************************************************************************)
(* Instances of TokkuEngine for TLC.                                       *)
(***************************************************************************)
EXTENDS TokkuEngine

CONSTANTS ua, ub, even, odd, comm

MCUsers1 == {ua}
MCUsers2 == {ua, ub}
MCSelections == {"even", "odd"}
MCWinsOn == [s \in MCSelections |-> (IF s = "even" THEN {even} ELSE {odd})
              \cap (Outcomes \cup CommunityOutcomes)]
\* One edge value pays evens at 1.8, the other at 1.5.
MCOddsBps == [e \in Edges |->
                [s \in MCSelections |-> IF e = 0 THEN 180 ELSE 150]]

=============================================================================
