----------------------------- MODULE ChainCall -----------------------------
(***************************************************************************)
(* What a caller of TokkuProgramService may rely on.  Operations asked for *)
(* are performed or not; a performed one becomes final in time.  A call    *)
(* may end in an error whatever became of its operation, which may even be *)
(* performed afterwards.  An answer says how much its caller knows: the    *)
(* operation is final, it is performed, or (the router) it was sent.       *)
(***************************************************************************)
CONSTANT Callers

VARIABLES
  asked,  \* asked[c]: the operation of the call of c
  answer, \* answer[c]: "none" until the call ends
  done,   \* operations performed
  final   \* those that cannot be undone

vars == <<asked, answer, done, final>>

Init ==
  /\ answer = [c \in Callers |-> "none"]
  /\ final \subseteq done

\* Operations are performed because somebody asked for them.
Perform ==
  /\ done' \subseteq done \cup {asked[c] : c \in Callers}
  /\ done \subseteq done'
  /\ UNCHANGED <<asked, answer, final>>

Finalize ==
  /\ final \subseteq final' /\ final' \subseteq done
  /\ UNCHANGED <<asked, answer, done>>

Answer(c) ==
  /\ answer[c] = "none"
  /\ \E a \in {"error", "sent"} \cup (IF asked[c] \in done THEN {"done"} ELSE {})
                 \cup (IF asked[c] \in final THEN {"final"} ELSE {}) :
       answer' = [answer EXCEPT ![c] = a]
  /\ UNCHANGED <<asked, done, final>>

Next == Perform \/ Finalize \/ \E c \in Callers : Answer(c)

Spec == Init /\ [][Next]_vars
=============================================================================
