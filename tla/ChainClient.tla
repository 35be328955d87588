---------------------------- MODULE ChainClient ----------------------------
(***************************************************************************)
(* TokkuProgramService: how the server executes an instruction on the base *)
(* chain, on the ephemeral rollup or through the router, what it takes for *)
(* a success, when it sends again, and what it waits for.                  *)
(*                                                                         *)
(* A method is a record: what it waits for first, its legs (where it sends *)
(* the instruction, how far the transaction must have come, after which    *)
(* errors the next leg is tried) and what it does afterwards.  Accounts    *)
(* and encodings of instructions are abstracted to the operation on the    *)
(* account of one round, on its bet, or on the market.                     *)
(***************************************************************************)
EXTENDS Integers, Sequences, FiniteSets

CONSTANTS
  Callers,  \* requests and jobs, each with one call
  Methods,  \* the methods they may call
  Polls     \* bound: greater numbers of repetitions of one leg are cut to it

VARIABLES
  base,   \* the account on the base chain: its owner, the operations done
  er,     \* the copy on the rollup, and what the rollup has yet to write back
  final,  \* the finalized state of the base chain
  call,   \* call[c]: the execution of a method
  router  \* is there a connection to the router

vars == <<base, er, final, call, router>>

-----------------------------------------------------------------------------
(* Methods *)

\* Error messages, as the regular expressions and includes() of the methods
\* tell them apart: a transport error; the rollup's "cannot be written"; a
\* simulation that fails, with the program's names; a transaction that failed,
\* with a code only; a deadline; an account that does not get initialized.
Errors == {"net", "unwritable", "rejected", "failed", "timeout", "unready"}

Leg(via, level, on) == [via |-> via, level |-> level, on |-> on]
Times(n, leg) == [i \in 1..(IF n < Polls THEN n ELSE Polls) |-> leg]
Method(op, pre, legs, post) == [op |-> op, pre |-> pre, legs |-> legs, post |-> post]

Base == Leg("base", "finalized", {})
Router(on) == Leg("router", "confirmed", on)
Rollup(on) == Leg("er", "confirmed", on)

OnBase(op) == Method(op, "none", <<Base>>, "none")
OnRollup(op) == Method(op, "none",
  <<Rollup({"net", "unwritable"}), Router({})>>, "none")
Confirmed(op) == Method(op, "none", <<Leg("base", "confirmed", {})>>, "none")

setHouseEdgeBps == Confirmed("edge")
fundVault == Confirmed("fund")
initializeMarket == OnBase("market")
openRound == OnBase("open")
settleBet == OnBase("settleBet")
refundBet == OnBase("refundBet")
settleRound == OnBase("settleRound")
lockRound == OnBase("lock")
lockRoundER == Method("lock", "none", <<Router(Errors), Rollup({})>>, "none")
commitOutcomeHash == OnBase("commit")
commitOutcomeHashER ==
  Method("commit", "none", <<Router(Errors)>> \o Times(3, Rollup({"net"})), "none")
revealOutcome == OnBase("reveal")
revealShapeOutcome == OnBase("reveal")
revealPatternOutcome == OnBase("reveal")
revealEntropyOutcome == OnBase("reveal")
revealCommunityOutcome == OnBase("reveal")
revealOutcomeER == OnRollup("revealER")
revealShapeOutcomeER == OnRollup("revealER")
revealPatternOutcomeER == OnRollup("revealER")
revealEntropyOutcomeER == OnRollup("revealER")
revealCommunityOutcomeER == OnRollup("revealER")
requestRandomness == Confirmed("request")
requestRandomnessER == OnRollup("request")
commitRoundState == Method("copy", "none", <<Router(Errors), Rollup({})>>, "none")
commitRoundStateER == [commitRoundState EXCEPT !.post = "lookup"]
commitAndUndelegateRoundER ==
  Method("undelegate", "none", Times(3, Router(Errors)) \o <<Rollup({})>>, "lookup")
commitAndUndelegateRound ==
  Method("undelegate", "none", <<Rollup({"net"}), Router({})>>, "none")
delegateRound == Method("delegate", "initialized",
  Times(5, Leg("base", "finalized", {"unready", "rejected"})), "none")
ensureRoundUndelegated ==
  [commitAndUndelegateRoundER EXCEPT !.pre = "owner", !.post = "lookup and poll"]
waitForRoundOutcomeOnBase == Method("wait", "outcome", <<>>, "none")

\* All methods of the class that execute an instruction or wait for one.
ClientMethods ==
  {setHouseEdgeBps, fundVault, initializeMarket, openRound, settleBet, refundBet,
   settleRound, lockRound, lockRoundER, commitOutcomeHash, commitOutcomeHashER,
   revealOutcome, revealShapeOutcome, revealPatternOutcome, revealEntropyOutcome,
   revealCommunityOutcome, revealOutcomeER, revealShapeOutcomeER, revealPatternOutcomeER,
   revealEntropyOutcomeER, revealCommunityOutcomeER, requestRandomness,
   requestRandomnessER, commitRoundState, commitRoundStateER, commitAndUndelegateRound,
   commitAndUndelegateRoundER, delegateRound, ensureRoundUndelegated,
   waitForRoundOutcomeOnBase}

ASSUME ClientAssumption == Methods \subseteq ClientMethods /\ Polls \in Nat \ {0}

-----------------------------------------------------------------------------
(* The chains *)

MarketOps == {"market", "fund", "edge"}

\* What the program asks of the state of the account.
Allowed(op, did) ==
  CASE op \in {"fund", "edge"}   -> "market" \in did
    [] op = "market"             -> "market" \notin did
    [] op = "open"               -> "market" \in did /\ "open" \notin did
    [] op = "lock"               -> "open" \in did /\ "lock" \notin did
    [] op \in {"commit", "revealER"} -> "lock" \in did /\ "settleRound" \notin did
    [] op = "reveal"             -> {"lock", "commit"} \subseteq did /\ "settleRound" \notin did
    [] op = "settleBet"          -> /\ {"lock", "outcome"} \subseteq did
                                    /\ {"settleBet", "refundBet", "settleRound"} \cap did = {}
    [] op = "refundBet"          -> /\ "lock" \in did
                                    /\ {"settleBet", "refundBet", "settleRound"} \cap did = {}
    [] op = "settleRound"        -> /\ {"lock", "outcome"} \subseteq did
                                    /\ {"settleBet", "refundBet"} \cap did # {}
                                    /\ "settleRound" \notin did
    [] OTHER                     -> "open" \in did

Live == base.owner = "delegation" /\ er.due # "return"

Accepts(layer, op) ==
  IF layer = "base"
  THEN /\ op \in MarketOps \/ base.owner = "program"
       /\ op \notin {"copy", "undelegate"}
       /\ Allowed(op, base.done)
  ELSE /\ Live
       /\ op \notin MarketOps \cup {"open", "delegate", "settleBet", "refundBet", "settleRound"}
       /\ Allowed(op, er.done)

Effect(op) == IF op \in {"reveal", "revealER", "wait"} THEN "outcome" ELSE op

Execute(layer, op) ==
  IF layer = "base"
  THEN /\ base' = [owner |-> IF op = "delegate" THEN "delegation" ELSE base.owner,
                   done |-> base.done \cup {Effect(op)}]
       /\ er' = IF op = "delegate"
                THEN [done |-> base.done \cup {op}, copy |-> {}, due |-> "nothing"] ELSE er
  ELSE LET did == er.done \cup {Effect(op)} IN
       /\ er' = [done |-> did,
                 copy |-> IF op \in {"copy", "undelegate"} THEN did ELSE er.copy,
                 due |-> CASE op = "copy" -> "copy" [] op = "undelegate" -> "return"
                           [] OTHER -> er.due]
       /\ UNCHANGED base

\* A transaction that was sent is executed, or fails.  It may also never land.
Land(c, i) ==
  LET t == call[c].tx[i] IN
  /\ t.status = "sent"
  /\ IF Accepts(t.to, call[c].m.op)
     THEN /\ Execute(t.to, call[c].m.op)
          /\ call' = [call EXCEPT ![c].tx[i].status = "executed"]
     ELSE /\ call' = [call EXCEPT ![c].tx[i].status = "failed"]
          /\ UNCHANGED <<base, er>>
  /\ UNCHANGED <<final, router>>

\* The validator of the rollup writes the account back.
WriteBack ==
  /\ er.due # "nothing"
  /\ base' = [owner |-> IF er.due = "return" THEN "program" ELSE base.owner,
              done |-> base.done \cup er.copy]
  /\ er' = [er EXCEPT !.due = "nothing"]
  /\ UNCHANGED <<final, call, router>>

Finalize ==
  /\ \/ final # base
     \/ \E c \in Callers : \E i \in DOMAIN call[c].tx :
          call[c].tx[i] = [to |-> "base", status |-> "executed"]
  /\ final' = base
  /\ call' = [c \in Callers |-> [call[c] EXCEPT !.tx =
       [i \in DOMAIN @ |-> IF @[i] = [to |-> "base", status |-> "executed"]
                           THEN [@[i] EXCEPT !.status = "final"] ELSE @[i]]]]
  /\ UNCHANGED <<base, er, router>>

-----------------------------------------------------------------------------
(* A call *)

At(c, pc) == call[c].pc = pc
Goto(c, pc) == call' = [call EXCEPT ![c].pc = pc]
ThisLeg(c) == call[c].m.legs[call[c].leg]
ThisTx(c) == call[c].tx[Len(call[c].tx)]

Begin(m) == IF m.pre = "none" THEN "send" ELSE "wait"

\* Mutants of Fails: the last attempt retries too; the attempt is not counted.
FailsBeyond(c, error, tx) ==
  IF call[c].leg <= Len(call[c].m.legs) /\ error \in ThisLeg(c).on
  THEN call' = [call EXCEPT ![c].tx = tx, ![c].leg = @ + 1, ![c].pc = "send"]
  ELSE call' = [call EXCEPT ![c].tx = tx, ![c].pc = "error"]
FailsForEver(c, error, tx) ==
  IF call[c].leg < Len(call[c].m.legs) /\ error \in ThisLeg(c).on
  THEN call' = [call EXCEPT ![c].tx = tx, ![c].pc = "send"]
  ELSE call' = [call EXCEPT ![c].tx = tx, ![c].pc = "error"]

\* The call throws, unless the error is one after which the next leg is tried.
\* The transactions given are those sent by then.
Fails(c, error, tx) ==
  IF /\ call[c].leg < Len(call[c].m.legs)
     /\ error \in ThisLeg(c).on
  THEN call' = [call EXCEPT ![c].tx = tx, ![c].leg = @ + 1,
                            ![c].pc = IF call[c].m.pre = "initialized" THEN "wait" ELSE "send"]
  ELSE call' = [call EXCEPT ![c].tx = tx, ![c].pc = "error"]

\* What the finalized account must be before the method goes on.
Satisfied(pre) ==
  /\ final.owner = "program"
  /\ CASE pre = "outcome"     -> "outcome" \in final.done
       [] pre = "initialized" -> "open" \in final.done
       [] OTHER               -> TRUE

Found(c) ==
  /\ Satisfied(call[c].m.pre)
  /\ Goto(c, IF call[c].m.pre = "initialized" THEN "send" ELSE "ok")

\* The owner is looked at once; the other waits end at a deadline.  The first
\* wait of delegateRound is outside of its try.
NotFound(c) ==
  CASE call[c].m.pre = "owner" -> ~Satisfied("owner") /\ Goto(c, "send")
    [] call[c].m.pre = "initialized" /\ call[c].leg > 1 -> Fails(c, "unready", call[c].tx)
    [] OTHER -> Goto(c, "error")

Wait(c) == At(c, "wait") /\ (Found(c) \/ NotFound(c) \/ Goto(c, "error"))

\* Where a leg submits the transaction.  The router looks where the account is.
Target(leg, op) ==
  IF leg.via = "router"
  THEN IF base.owner = "delegation" /\ op \notin MarketOps THEN "er" ELSE "base"
  ELSE leg.via

Simulates(c) == call[c].m.op = "request" \/ Accepts("base", call[c].m.op)

\* The base chain simulates the transaction first, unless skipPreflight says not
\* to, as for all of the rollup's, which refuses an account that it does not have.
Refused(c) ==
  CASE ThisLeg(c).via = "router" -> ~router /\ Fails(c, "net", call[c].tx)
    [] ThisLeg(c).via = "er"     -> ~Live /\ Fails(c, "unwritable", call[c].tx)
    [] OTHER -> ~Simulates(c) /\ Fails(c, "rejected", call[c].tx)

Submit(c) ==
  LET leg == ThisLeg(c)
      tx == Append(call[c].tx, [to |-> Target(leg, call[c].m.op), status |-> "sent"]) IN
  /\ leg.via = "base" => Simulates(c)
  /\ leg.via = "er" => Live
  /\ leg.via = "router" => router
  /\ \/ call' = [call EXCEPT ![c].tx = tx, ![c].pc = "confirm"]
     \/ Fails(c, "net", tx)   \* submitted, but the answer is lost

Send(c) ==
  /\ At(c, "send")
  /\ Refused(c) \/ Submit(c) \/ Fails(c, "net", call[c].tx)

\* A mutant of Reached: the level asked for is not looked at.
ReachedEarly(leg, t) ==
  IF leg.via = "router" THEN t.status # "sent" ELSE t.status \in {"executed", "final"}

\* confirmTransactionHTTP; confirmWithHttpOnly takes no notice of status.err.
Reached(leg, t) ==
  CASE leg.via = "router"        -> t.status # "sent"
    [] leg.level = "finalized"   -> t.status = "final"
    [] OTHER                     -> t.status \in {"executed", "final"}

Failed(leg, t) == leg.via # "router" /\ t.status = "failed"

Confirm(c) ==
  /\ At(c, "confirm")
  /\ \/ /\ Reached(ThisLeg(c), ThisTx(c))
        /\ Goto(c, CASE call[c].m.post = "none" -> "ok"
                     [] OTHER -> "lookup")
     \/ /\ Failed(ThisLeg(c), ThisTx(c))
        /\ Fails(c, "failed", call[c].tx)
     \/ \E error \in {"net", "timeout"} : Fails(c, error, call[c].tx)

\* getCommitmentSignatureFromEr: found or not, the call goes on.
Lookup(c) ==
  /\ At(c, "lookup")
  /\ Goto(c, IF call[c].m.post = "lookup" THEN "ok" ELSE "poll")

\* The last part of ensureRoundUndelegated.  A mutant: it is not looked at.
ReturnedUnseen == TRUE
Returned == final.owner = "program"
Poll(c) ==
  /\ At(c, "poll")
  /\ (Returned /\ Goto(c, "ok")) \/ Goto(c, "error")

Step(c) ==
  /\ Wait(c) \/ Send(c) \/ Confirm(c) \/ Lookup(c) \/ Poll(c)
  /\ UNCHANGED <<base, er, final, router>>

-----------------------------------------------------------------------------
(* Specification *)

\* States of a round the callers find: some way through its life, delegated or not.
Lives == {{"market"}, {"market", "open"}, {"market", "open", "lock"},
          {"market", "open", "lock", "outcome"},
          {"market", "open", "lock", "outcome", "settleBet"}}

Init ==
  /\ \E did \in Lives :
       \/ /\ base = [owner |-> "program", done |-> did]
          /\ er = [done |-> {}, copy |-> {}, due |-> "nothing"]
       \/ /\ "open" \in did /\ "settleBet" \notin did
          /\ base = [owner |-> "delegation", done |-> {"market", "open", "delegate"}]
          /\ er = [done |-> did \cup {"delegate"}, copy |-> {}, due |-> "nothing"]
  /\ final = base
  /\ router \in BOOLEAN
  /\ \E m \in [Callers -> Methods] :
       call = [c \in Callers |-> [m |-> m[c], pc |-> Begin(m[c]), leg |-> 1, tx |-> <<>>]]

Next ==
  \/ WriteBack
  \/ Finalize
  \/ \E c \in Callers : Step(c) \/ \E i \in DOMAIN call[c].tx : Land(c, i)

Spec == Init /\ [][Next]_vars /\ \A c \in Callers : WF_vars(Step(c))

-----------------------------------------------------------------------------
(* Properties *)

Ops == MarketOps \cup {"open", "lock", "commit", "outcome", "request",
         "copy", "delegate", "undelegate", "settleBet", "refundBet", "settleRound"}

\* An execution is at a leg its method has, its transactions are where it sent them.
TypeOK ==
  /\ base \in [owner : {"program", "delegation"}, done : SUBSET Ops]
  /\ final \in [owner : {"program", "delegation"}, done : SUBSET Ops]
  /\ er \in [done : SUBSET Ops, copy : SUBSET Ops, due : {"nothing", "copy", "return"}]
  /\ \A c \in Callers :
       /\ call[c].m \in Methods
       /\ call[c].pc \in {"wait", "send", "confirm", "lookup", "poll", "ok", "error"}
       /\ call[c].leg = 1 \/ call[c].leg \in 1..Len(call[c].m.legs)
       /\ \A i \in DOMAIN call[c].tx : call[c].tx[i] \in
            [to : {"base", "er"}, status : {"sent", "executed", "final", "failed"}]

\* When ensureRoundUndelegated returns, the account is on the base chain: the
\* settlement worker goes on with instructions that need it there.  The router
\* may have said yes to an undelegation that failed; what it waits for
\* afterwards makes up for it.  Unless somebody delegates the round meanwhile.
BackOnBase ==
  \A c \in Callers :
    /\ call[c].m = ensureRoundUndelegated
    /\ call[c].pc = "ok"
    /\ \A d \in Callers : call[d].m.op # "delegate"
    => base.owner = "program"

\* What a caller knows from an answer.
Promise(c) ==
  IF call[c].m.pre = "outcome" THEN "final"
  ELSE IF call[c].m.pre = "owner" \/ ThisLeg(c).via = "router" THEN "sent"
  ELSE IF ThisLeg(c).level = "finalized" THEN "final" ELSE "done"

Answer(c) ==
  CASE call[c].pc = "error" -> "error"
    [] call[c].pc = "ok"    -> Promise(c)
    [] OTHER                -> "none"

\* The calls are those of ChainCall: whatever is sent again, and whichever
\* transaction given up lands late, a call that waits for "finalized" returns
\* only when its operation is final, one that waits for the rollup only when
\* its operation is done; nothing is done that nobody asked for.
Calls == INSTANCE ChainCall WITH
  asked <- [c \in Callers |-> Effect(call[c].m.op)],
  answer <- [c \in Callers |-> Answer(c)],
  done <- base.done \cup er.done,
  final <- final.done

ImplementsChainCall == Calls!Spec

\* Every call ends, though an instruction may be sent again, lost or never
\* executed: no retry goes on for ever and every wait has a deadline.
CallEnds == <>(\A c \in Callers : call[c].pc \in {"ok", "error"})
=============================================================================
