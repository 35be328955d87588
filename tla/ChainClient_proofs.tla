------------------------- MODULE ChainClient_proofs -------------------------
(***************************************************************************)
(* For any callers of any methods: an answer of the client promises what   *)
(* ChainCall says, and an undelegation that is reported is complete.       *)
(***************************************************************************)
EXTENDS ChainClient, SequenceTheorems, TLAPS

-----------------------------------------------------------------------------
(* The methods *)

Legs == [via : {"base", "er", "router"}, level : {"finalized", "confirmed"},
         on : SUBSET Errors]

\* Only the wait for an outcome has no leg.
WellFormed(m) ==
  /\ m.legs \in Seq(Legs)
  /\ m.pre \in {"none", "initialized", "owner", "outcome"}
  /\ m.pre = "outcome" <=> m.legs = <<>>
  /\ m.pre = "outcome" => Effect(m.op) = "outcome"
  /\ Effect(m.op) \in Ops

LEMMA TimesOK ==
  ASSUME NEW n \in Nat \ {0}, NEW leg \in Legs
  PROVE  Times(n, leg) \in Seq(Legs) /\ Times(n, leg) # <<>>
<1>. DEFINE k == IF n < Polls THEN n ELSE Polls
            e(i) == leg
<1>1. k \in Nat /\ k > 0
  BY ClientAssumption
<1>2. Times(n, leg) = [i \in 1..k |-> e(i)]
  BY DEF Times
<1>3. \A i \in 1..k : e(i) \in Legs
  OBVIOUS
<1>. HIDE DEF k
<1>4. [i \in 1..k |-> leg] \in [1..k -> Legs]
  OBVIOUS
<1>5. [i \in 1..k |-> leg] \in Seq(Legs)
  BY <1>1, <1>4, SeqDef
<1>6. 1 \in DOMAIN [i \in 1..k |-> leg] /\ 1 \notin DOMAIN <<>>
  BY <1>1
<1>. QED BY <1>2, <1>5, <1>6

LEMMA LegsOK ==
  /\ Base \in Legs /\ Leg("base", "confirmed", {}) \in Legs
  /\ \A on \in SUBSET Errors : Rollup(on) \in Legs /\ Router(on) \in Legs
  /\ Leg("base", "finalized", {"unready", "rejected"}) \in Legs
  BY DEF Base, Leg, Rollup, Router, Legs, Errors

LEMMA OneLeg ==
  ASSUME NEW a \in Legs
  PROVE  <<a>> \in Seq(Legs) /\ <<a>> # <<>>
  OBVIOUS

LEMMA TwoLegs ==
  ASSUME NEW a \in Legs, NEW b \in Legs
  PROVE  <<a, b>> \in Seq(Legs) /\ <<a, b>> # <<>>
  OBVIOUS

LEMMA MoreLegs ==
  ASSUME NEW s \in Seq(Legs), NEW t \in Seq(Legs), s # <<>> \/ t # <<>>
  PROVE  s \o t \in Seq(Legs) /\ s \o t # <<>>
  BY ConcatProperties, ConcatEqualIffEmpty

\* A method that sends something.
LEMMA Sends ==
  ASSUME NEW op, Effect(op) \in Ops, NEW pre \in {"none", "initialized", "owner"}, NEW post,
         NEW legs \in Seq(Legs), legs # <<>>
  PROVE  WellFormed(Method(op, pre, legs, post))
  BY DEF WellFormed, Method

LEMMA EffectsOK ==
  /\ \A op \in {"edge", "fund", "market", "open", "lock", "commit", "request", "copy", "delegate",
                "undelegate", "settleBet", "refundBet", "settleRound", "reveal", "revealER"} :
       Effect(op) \in Ops
  /\ Effect("wait") = "outcome" /\ "outcome" \in Ops
  BY DEF Effect, Ops, MarketOps

LEMMA MethodsOK == \A m \in Methods : WellFormed(m)
<1>. USE EffectsOK, LegsOK
<1>1. /\ WellFormed(setHouseEdgeBps) /\ WellFormed(fundVault) /\ WellFormed(requestRandomness)
  BY OneLeg, Sends DEF setHouseEdgeBps, fundVault, requestRandomness, Confirmed
<1>2. /\ WellFormed(initializeMarket) /\ WellFormed(openRound) /\ WellFormed(settleBet)
      /\ WellFormed(refundBet) /\ WellFormed(settleRound) /\ WellFormed(lockRound)
      /\ WellFormed(commitOutcomeHash) /\ WellFormed(revealOutcome)
  BY OneLeg, Sends DEF initializeMarket, openRound, settleBet, refundBet, settleRound, lockRound,
                       commitOutcomeHash, revealOutcome, OnBase
<1>3. /\ revealShapeOutcome = revealOutcome /\ revealPatternOutcome = revealOutcome
      /\ revealEntropyOutcome = revealOutcome /\ revealCommunityOutcome = revealOutcome
      /\ revealShapeOutcomeER = revealOutcomeER /\ revealPatternOutcomeER = revealOutcomeER
      /\ revealEntropyOutcomeER = revealOutcomeER /\ revealCommunityOutcomeER = revealOutcomeER
  BY DEF revealOutcome, revealShapeOutcome, revealPatternOutcome, revealEntropyOutcome,
         revealCommunityOutcome, revealOutcomeER, revealShapeOutcomeER, revealPatternOutcomeER,
         revealEntropyOutcomeER, revealCommunityOutcomeER
<1>4. {} \subseteq Errors /\ {"net"} \subseteq Errors /\ {"net", "unwritable"} \subseteq Errors
  BY DEF Errors
<1>5. WellFormed(revealOutcomeER) /\ WellFormed(requestRandomnessER)
  BY <1>4, TwoLegs, Sends DEF revealOutcomeER, requestRandomnessER, OnRollup
<1>6. /\ WellFormed(lockRoundER) /\ WellFormed(commitRoundState)
      /\ WellFormed(commitAndUndelegateRound)
  BY <1>4, TwoLegs, Sends DEF lockRoundER, commitRoundState, commitAndUndelegateRound
<1>7. WellFormed(commitRoundStateER)
  BY <1>6 DEF commitRoundStateER, WellFormed, commitRoundState, Method
<1>8. WellFormed(commitOutcomeHashER)
  <2>1. /\ <<Router(Errors)>> \in Seq(Legs) /\ <<Router(Errors)>> # <<>>
        /\ Times(3, Rollup({"net"})) \in Seq(Legs)
    BY <1>4, OneLeg, TimesOK
  <2>. QED BY <2>1, MoreLegs, Sends DEF commitOutcomeHashER
<1>9. WellFormed(commitAndUndelegateRoundER) /\ WellFormed(ensureRoundUndelegated)
  <2>1. /\ Times(3, Router(Errors)) \in Seq(Legs) /\ Times(3, Router(Errors)) # <<>>
        /\ <<Rollup({})>> \in Seq(Legs)
    BY <1>4, OneLeg, TimesOK
  <2>2. WellFormed(commitAndUndelegateRoundER)
    BY <2>1, MoreLegs, Sends DEF commitAndUndelegateRoundER
  <2>3. /\ ensureRoundUndelegated.op = commitAndUndelegateRoundER.op
        /\ ensureRoundUndelegated.legs = commitAndUndelegateRoundER.legs
        /\ ensureRoundUndelegated.pre = "owner" /\ commitAndUndelegateRoundER.pre = "none"
    BY DEF ensureRoundUndelegated, commitAndUndelegateRoundER, Method
  <2>. QED BY <2>2, <2>3 DEF WellFormed
<1>10. WellFormed(delegateRound)
  BY TimesOK, Sends DEF delegateRound
<1>11. WellFormed(waitForRoundOutcomeOnBase)
  BY DEF waitForRoundOutcomeOnBase, WellFormed, Method
<1>. QED BY <1>1, <1>2, <1>3, <1>5, <1>6, <1>7, <1>8, <1>9, <1>10, <1>11, ClientAssumption
         DEF ClientMethods

-----------------------------------------------------------------------------
(* The invariant *)

Tx == [to : {"base", "er"}, status : {"sent", "executed", "final", "failed"}]
Pcs == {"wait", "send", "confirm", "lookup", "poll", "ok", "error"}
Execution == [m : Methods, pc : Pcs, leg : Nat, tx : Seq(Tx)]

Account == [owner : {"program", "delegation"}, done : SUBSET Ops]
Copy == [done : SUBSET Ops, copy : SUBSET Ops, due : {"nothing", "copy", "return"}]

LegFits(e) == e.leg = 1 \/ e.leg \in 1..Len(e.m.legs)

Typed ==
  /\ base \in Account /\ final \in Account /\ er \in Copy
  /\ call \in [Callers -> Execution]
  /\ \A c \in Callers : LegFits(call[c])

\* What the base chain does not know yet, the rollup writes back before the
\* account returns.
LayersOK ==
  /\ final.done \subseteq base.done
  /\ er.copy \subseteq er.done
  /\ base.owner = "program" => er.due = "nothing" /\ er.done \subseteq base.done
  /\ er.due = "return" => er.done \subseteq er.copy

Done == base.done \cup er.done
Operation(c) == Effect(call[c].m.op)

\* The answer that a call would give now would be true.
Earned(c) == /\ Promise(c) = "final" => Operation(c) \in final.done
             /\ Promise(c) = "done" => Operation(c) \in Done

\* A transaction that executed has done its operation.
TxsOK(c) ==
  \A i \in DOMAIN call[c].tx :
    LET t == call[c].tx[i] IN
    /\ t.status = "executed" => Operation(c) \in IF t.to = "base" THEN base.done ELSE Done
    /\ t.status = "final" => Operation(c) \in final.done

CallOK(c) ==
  /\ call[c].pc = "wait" => call[c].m.pre # "none"
  /\ call[c].pc \in {"send", "confirm", "lookup", "poll"} => call[c].m.pre # "outcome"
  /\ call[c].pc = "confirm" => call[c].tx # <<>>
  /\ call[c].pc \in {"lookup", "poll"} => Earned(c)

CallsOK == \A c \in Callers : TxsOK(c) /\ CallOK(c)

NobodyDelegates == \A c \in Callers : call[c].m.op # "delegate"

\* The finalized owner is the owner, unless somebody delegates the account.
OwnerOK == NobodyDelegates /\ final.owner = "program" => base.owner = "program"

ClientInv == Typed /\ LayersOK /\ CallsOK /\ OwnerOK /\ BackOnBase

-----------------------------------------------------------------------------
(* The chains *)

\* What the chains do: calls only learn what became of their transactions.
ChainStep ==
  /\ call' \in [Callers -> Execution]
  /\ \A c \in Callers : /\ call'[c].m = call[c].m /\ call'[c].pc = call[c].pc
                        /\ call'[c].leg = call[c].leg
                        /\ Len(call'[c].tx) = Len(call[c].tx)
  /\ base.done \subseteq base'.done /\ final.done \subseteq final'.done
  /\ Done \subseteq Done'

LEMMA OperationOK == Typed => \A c \in Callers : Operation(c) \in Ops /\ WellFormed(call[c].m)
  BY MethodsOK DEF Typed, Execution, Operation, WellFormed

LEMMA ExecuteOK ==
  ASSUME Typed, LayersOK, NEW to \in {"base", "er"}, NEW op, Effect(op) \in Ops,
         Accepts(to, op), Execute(to, op)
  PROVE  /\ base' \in Account /\ er' \in Copy
         /\ base.done \subseteq base'.done /\ Done \subseteq Done'
         /\ Done' \subseteq Done \cup {Effect(op)}
         /\ Effect(op) \in Done' /\ (to = "base" => Effect(op) \in base'.done)
         /\ op # "delegate" => base'.owner = base.owner
         /\ er'.copy \subseteq er'.done
         /\ base'.owner = "program" => er'.due = "nothing" /\ er'.done \subseteq base'.done
         /\ er'.due = "return" => er'.done \subseteq er'.copy
<1>. USE DEF Typed, LayersOK
<1>1. CASE to = "base" /\ op = "delegate"
  <2>1. base.owner = "program" /\ Effect(op) = op
    BY <1>1 DEF Accepts, MarketOps, Effect
  <2>2. /\ base' = [owner |-> "delegation", done |-> base.done \cup {op}]
        /\ er' = [done |-> base.done \cup {op}, copy |-> {}, due |-> "nothing"]
    BY <1>1, <2>1 DEF Execute
  <2>. QED BY <1>1, <2>1, <2>2 DEF Account, Copy, Done
<1>2. CASE to = "base" /\ op # "delegate"
  <2>1. base' = [owner |-> base.owner, done |-> base.done \cup {Effect(op)}] /\ er' = er
    BY <1>2 DEF Execute
  <2>. QED BY <1>2, <2>1 DEF Account, Copy, Done
<1>3. CASE to = "er"
  <2>. DEFINE did == er.done \cup {Effect(op)}
              due == CASE op = "copy" -> "copy" [] op = "undelegate" -> "return"
                       [] OTHER -> er.due
              copy == IF op \in {"copy", "undelegate"} THEN did ELSE er.copy
  <2>1. /\ base' = base /\ er' = [done |-> did, copy |-> copy, due |-> due]
        /\ base.owner = "delegation" /\ er.due # "return"
    BY <1>3 DEF Execute, Accepts, Live
  <2>2. due \in {"nothing", "copy", "return"} /\ (due = "return" => op = "undelegate")
    BY <2>1 DEF Copy
  <2>3. did \in SUBSET Ops /\ copy \in SUBSET Ops /\ copy \subseteq did
    BY DEF Copy
  <2>4. due = "return" => copy = did
    BY <2>2
  <2>5. er'.done = did /\ er'.copy = copy /\ er'.due = due
    BY <2>1
  <2>. HIDE DEF copy, due
  <2>. QED BY <1>3, <2>1, <2>2, <2>3, <2>4, <2>5 DEF Account, Copy, Done
<1>. QED BY <1>1, <1>2, <1>3

\* A step changes the status of one transaction of one call.
OnlyStatus(c, i, status) ==
  /\ call' \in [Callers -> Execution]
  /\ \A d \in Callers : d # c => call'[d] = call[d]
  /\ call'[c].m = call[c].m /\ call'[c].pc = call[c].pc /\ call'[c].leg = call[c].leg
  /\ Len(call'[c].tx) = Len(call[c].tx)
  /\ DOMAIN call'[c].tx = DOMAIN call[c].tx
  /\ \A j \in DOMAIN call[c].tx : j # i => call'[c].tx[j] = call[c].tx[j]
  /\ call'[c].tx[i].to = call[c].tx[i].to /\ call'[c].tx[i].status = status

\* Transactions and calls after the chains' steps.
LEMMA StatusChanges ==
  ASSUME Typed, NEW c \in Callers, NEW i \in DOMAIN call[c].tx,
         NEW status \in {"sent", "executed", "final", "failed"},
         call' = [call EXCEPT ![c].tx[i].status = status]
  PROVE  OnlyStatus(c, i, status)
<1>. DEFINE t == [call[c].tx[i] EXCEPT !.status = status]
            txs == [call[c].tx EXCEPT ![i] = t]
            e == [call[c] EXCEPT !.tx = txs]
<1>1. call' = [call EXCEPT ![c] = e]
  OBVIOUS
<1>2. call[c] \in Execution /\ call[c].tx \in Seq(Tx)
  BY DEF Typed, Execution
<1>3. i \in 1..Len(call[c].tx) /\ DOMAIN call[c].tx = 1..Len(call[c].tx)
  BY <1>2, LenProperties
<1>4. t \in Tx /\ t.to = call[c].tx[i].to /\ t.status = status
  <2>1. call[c].tx[i] \in Tx
    BY <1>2, <1>3, ElementOfSeq
  <2>. QED BY <2>1 DEF Tx
<1>. HIDE DEF t
<1>5. /\ txs \in Seq(Tx) /\ Len(txs) = Len(call[c].tx) /\ txs[i] = t
      /\ DOMAIN txs = DOMAIN call[c].tx
      /\ \A j \in DOMAIN call[c].tx : j # i => txs[j] = call[c].tx[j]
  BY <1>2, <1>3, <1>4, ExceptSeq
<1>. HIDE DEF txs
<1>6. e \in Execution /\ e.tx = txs /\ e.m = call[c].m /\ e.pc = call[c].pc /\ e.leg = call[c].leg
  BY <1>2, <1>5 DEF Execution
<1>. HIDE DEF e
<1>7. call' \in [Callers -> Execution] /\ call'[c] = e /\ \A d \in Callers : d # c => call'[d] = call[d]
  BY <1>1, <1>6 DEF Typed
<1>. QED BY <1>4, <1>5, <1>6, <1>7 DEF OnlyStatus

LEMMA LandOK ==
  ASSUME Typed, LayersOK, CallsOK, OwnerOK, NEW c \in Callers, NEW i \in DOMAIN call[c].tx, Land(c, i)
  PROVE  /\ ChainStep /\ base' \in Account /\ er' \in Copy /\ final' = final
         /\ LayersOK' /\ OwnerOK'
         /\ \A d \in Callers : TxsOK(d)'
         /\ Done' \subseteq Done \cup {Operation(c)}
         /\ NobodyDelegates => base'.owner = base.owner
<1>. DEFINE t == call[c].tx[i]
            op == call[c].m.op
<1>0. /\ t.status = "sent" /\ t \in Tx /\ final' = final
      /\ Effect(op) \in Ops /\ Effect(op) = Operation(c)
  <2>1. call[c].tx \in Seq(Tx)
    BY DEF Typed, Execution
  <2>2. i \in 1..Len(call[c].tx)
    BY <2>1, LenProperties
  <2>3. t \in Tx
    BY <2>1, <2>2, ElementOfSeq
  <2>. QED BY <2>3, OperationOK DEF Land, Operation
<1>1. PICK status \in {"executed", "failed"} :
        /\ call' = [call EXCEPT ![c].tx[i].status = status]
        /\ IF status = "executed" THEN Accepts(t.to, op) /\ Execute(t.to, op)
                                  ELSE UNCHANGED <<base, er>>
  BY DEF Land
<1>2. /\ call' \in [Callers -> Execution]
      /\ \A d \in Callers : d # c => call'[d] = call[d]
      /\ call'[c].m = call[c].m /\ call'[c].pc = call[c].pc /\ call'[c].leg = call[c].leg
      /\ Len(call'[c].tx) = Len(call[c].tx) /\ DOMAIN call'[c].tx = DOMAIN call[c].tx
      /\ \A j \in DOMAIN call[c].tx : j # i => call'[c].tx[j] = call[c].tx[j]
      /\ call'[c].tx[i].to = t.to /\ call'[c].tx[i].status = status
  <2>1. OnlyStatus(c, i, status)
    BY <1>1, StatusChanges
  <2>. QED BY <2>1 DEF OnlyStatus
<1>3. /\ base' \in Account /\ er' \in Copy
      /\ base.done \subseteq base'.done /\ Done \subseteq Done'
      /\ Done' \subseteq Done \cup {Effect(op)}
      /\ status = "executed" =>
           Effect(op) \in Done' /\ (t.to = "base" => Effect(op) \in base'.done)
      /\ op # "delegate" => base'.owner = base.owner
      /\ LayersOK'
  <2>1. CASE status = "executed"
    <3>. HIDE DEF op, t
    <3>1. t.to \in {"base", "er"}
      BY <1>0 DEF Tx
    <3>2. /\ base' \in Account /\ er' \in Copy
          /\ base.done \subseteq base'.done /\ Done \subseteq Done'
          /\ Done' \subseteq Done \cup {Effect(op)}
          /\ Effect(op) \in Done' /\ (t.to = "base" => Effect(op) \in base'.done)
          /\ op # "delegate" => base'.owner = base.owner
          /\ er'.copy \subseteq er'.done
          /\ base'.owner = "program" => er'.due = "nothing" /\ er'.done \subseteq base'.done
          /\ er'.due = "return" => er'.done \subseteq er'.copy
      BY <1>0, <1>1, <2>1, <3>1, ExecuteOK
    <3>. QED BY <1>0, <3>2 DEF LayersOK
  <2>2. CASE status # "executed"
    BY <1>0, <1>1, <2>2 DEF Typed, LayersOK, Done
  <2>. QED BY <2>1, <2>2
<1>4. \A d \in Callers : TxsOK(d)'
  <2>. SUFFICES ASSUME NEW d \in Callers, NEW j \in DOMAIN call'[d].tx
                PROVE  /\ call'[d].tx[j].status = "executed" =>
                            Operation(d)' \in IF call'[d].tx[j].to = "base" THEN base'.done ELSE Done'
                       /\ call'[d].tx[j].status = "final" => Operation(d)' \in final'.done
    BY DEF TxsOK
  <2>1. Operation(d)' = Operation(d)
    BY <1>2 DEF Operation
  <2>2. CASE d = c /\ j = i
    BY <1>0, <1>1, <1>2, <1>3, <2>1, <2>2
  <2>3. CASE ~ (d = c /\ j = i)
    <3>1. j \in DOMAIN call[d].tx /\ call'[d].tx[j] = call[d].tx[j]
      BY <1>2, <2>3
    <3>. QED BY <1>0, <1>3, <2>1, <3>1 DEF CallsOK, TxsOK
  <2>. QED BY <2>2, <2>3
<1>5. ChainStep
  BY <1>0, <1>2, <1>3 DEF ChainStep
<1>6. NobodyDelegates => base'.owner = base.owner
  BY <1>3 DEF NobodyDelegates
<1>7. OwnerOK'
  BY <1>0, <1>2, <1>6 DEF OwnerOK, NobodyDelegates
<1>. QED BY <1>0, <1>3, <1>4, <1>5, <1>6, <1>7

LEMMA WriteBackOK ==
  ASSUME Typed, LayersOK, CallsOK, OwnerOK, WriteBack
  PROVE  /\ ChainStep /\ base' \in Account /\ er' \in Copy /\ UNCHANGED <<final, call>>
         /\ LayersOK' /\ OwnerOK'
         /\ \A d \in Callers : TxsOK(d)'
         /\ Done' = Done
         /\ base.owner = "program" => base'.owner = base.owner
<1>1. /\ base' = [owner |-> IF er.due = "return" THEN "program" ELSE base.owner,
                  done |-> base.done \cup er.copy]
      /\ er' = [er EXCEPT !.due = "nothing"]
      /\ final' = final /\ call' = call /\ er.due # "nothing"
  BY DEF WriteBack
<1>2. base' \in Account /\ er' \in Copy
  BY <1>1 DEF Typed, Account, Copy
<1>3. /\ er'.done = er.done /\ er'.copy = er.copy /\ er'.due = "nothing"
      /\ base'.done = base.done \cup er.copy
      /\ base'.owner = "program" => er.due = "return"
      /\ base.owner = "program" => base'.owner = "program"
  BY <1>1 DEF Typed, Account, Copy, LayersOK
<1>4. LayersOK' /\ Done' = Done
  BY <1>1, <1>3 DEF LayersOK, Done
<1>5. OwnerOK'
  BY <1>1, <1>3 DEF OwnerOK, NobodyDelegates
<1>6. \A d \in Callers : TxsOK(d)'
  BY <1>1, <1>3, <1>4 DEF CallsOK, TxsOK, Operation
<1>. QED BY <1>1, <1>2, <1>3, <1>4, <1>5, <1>6 DEF ChainStep, Typed

LEMMA FinalizeOK ==
  ASSUME Typed, LayersOK, CallsOK, OwnerOK, Finalize
  PROVE  /\ ChainStep /\ UNCHANGED <<base, er>> /\ final' = base
         /\ LayersOK' /\ OwnerOK'
         /\ \A d \in Callers : TxsOK(d)'
<1>. DEFINE Settled(t) == IF t = [to |-> "base", status |-> "executed"]
                          THEN [t EXCEPT !.status = "final"] ELSE t
            e(c) == [call[c] EXCEPT !.tx = [i \in DOMAIN call[c].tx |-> Settled(call[c].tx[i])]]
<1>1. /\ final' = base /\ base' = base /\ er' = er
      /\ call' = [c \in Callers |-> e(c)]
  BY DEF Finalize
<1>2. ASSUME NEW c \in Callers
      PROVE  /\ call'[c] \in Execution /\ call'[c].m = call[c].m /\ call'[c].pc = call[c].pc
             /\ call'[c].leg = call[c].leg /\ Len(call'[c].tx) = Len(call[c].tx)
             /\ DOMAIN call'[c].tx = DOMAIN call[c].tx
             /\ \A i \in DOMAIN call[c].tx : call'[c].tx[i] = Settled(call[c].tx[i])
  <2>. DEFINE txs == [i \in DOMAIN call[c].tx |-> Settled(call[c].tx[i])]
  <2>1. /\ call[c] \in Execution /\ call[c].tx \in Seq(Tx) /\ Len(call[c].tx) \in Nat
        /\ DOMAIN call[c].tx = 1..Len(call[c].tx)
    <3>1. call[c] \in Execution /\ call[c].tx \in Seq(Tx)
      BY DEF Typed, Execution
    <3>. QED BY <3>1, LenProperties
  <2>2. \A i \in 1..Len(call[c].tx) : Settled(call[c].tx[i]) \in Tx
    <3>1. \A i \in 1..Len(call[c].tx) : call[c].tx[i] \in Tx
      BY <2>1, ElementOfSeq
    <3>. QED BY <3>1 DEF Tx
  <2>. HIDE DEF Settled
  <2>3. txs \in [1..Len(call[c].tx) -> Tx]
    BY <2>1, <2>2
  <2>4. txs \in Seq(Tx) /\ Len(txs) = Len(call[c].tx)
    <3>1. txs \in Seq(Tx)
      BY <2>1, <2>3, SeqDef
    <3>2. Len(txs) \in Nat /\ DOMAIN txs = 1..Len(txs) /\ DOMAIN txs = 1..Len(call[c].tx)
      BY <2>1, <3>1, LenProperties
    <3>. QED BY <2>1, <3>1, <3>2
  <2>5. call'[c] = [call[c] EXCEPT !.tx = txs]
    BY <1>1
  <2>6. /\ DOMAIN txs = DOMAIN call[c].tx
        /\ \A i \in DOMAIN call[c].tx : txs[i] = Settled(call[c].tx[i])
    OBVIOUS
  <2>. HIDE DEF txs
  <2>. QED BY <2>1, <2>4, <2>5, <2>6 DEF Execution
<1>3. ChainStep
  <2>1. call' \in [Callers -> Execution]
    BY <1>1, <1>2
  <2>. QED BY <1>1, <1>2, <2>1 DEF ChainStep, LayersOK, Done
<1>4. LayersOK' /\ OwnerOK'
  BY <1>1 DEF LayersOK, OwnerOK
<1>5. \A d \in Callers : TxsOK(d)'
  <2>. SUFFICES ASSUME NEW d \in Callers, NEW j \in DOMAIN call'[d].tx
                PROVE  /\ call'[d].tx[j].status = "executed" =>
                            Operation(d)' \in IF call'[d].tx[j].to = "base" THEN base'.done ELSE Done'
                       /\ call'[d].tx[j].status = "final" => Operation(d)' \in final'.done
    BY DEF TxsOK
  <2>. DEFINE t == call[d].tx[j]
  <2>1. /\ Operation(d)' = Operation(d) /\ j \in DOMAIN call[d].tx
        /\ call'[d].tx[j] = Settled(t)
    BY <1>2 DEF Operation
  <2>2. /\ t.status = "executed" => Operation(d) \in IF t.to = "base" THEN base.done ELSE Done
        /\ t.status = "final" => Operation(d) \in final.done
    BY <2>1 DEF CallsOK, TxsOK
  <2>3. Done' = Done /\ final.done \subseteq base.done
    BY <1>1 DEF Done, LayersOK
  <2>4. CASE t = [to |-> "base", status |-> "executed"]
    <3>1. t.status = "executed" /\ t.to = "base"
      BY <2>4
    <3>2. Operation(d) \in base.done
      BY <2>2, <3>1
    <3>3. Settled(t).status = "final"
      BY <2>4
    <3>. QED BY <1>1, <2>1, <3>2, <3>3
  <2>5. CASE t # [to |-> "base", status |-> "executed"]
    BY <1>1, <2>1, <2>2, <2>3, <2>5
  <2>. QED BY <2>4, <2>5
<1>. QED BY <1>1, <1>3, <1>4, <1>5

-----------------------------------------------------------------------------
(* The steps of a call *)

\* A call goes on, sends at most one transaction more, and ends well only with
\* what it promises.
Moves(c) ==
  /\ UNCHANGED <<base, er, final>>
  /\ call[c].pc \notin {"ok", "error"}
  /\ call' \in [Callers -> Execution]
  /\ \A d \in Callers : d # c => call'[d] = call[d]
  /\ call'[c].m = call[c].m
  /\ LegFits(call'[c])
  /\ \/ call'[c].tx = call[c].tx
     \/ \E to \in {"base", "er"} :
          call'[c].tx = Append(call[c].tx, [to |-> to, status |-> "sent"])
  /\ call'[c].pc = "wait" => call[c].m.pre # "none"
  /\ call'[c].pc \in {"send", "confirm", "lookup", "poll"} => call[c].m.pre # "outcome"
  /\ call'[c].pc = "confirm" => call'[c].tx # <<>>
  /\ call'[c].pc \in {"lookup", "poll", "ok"} => call'[c].leg = call[c].leg /\ Earned(c)
  /\ call'[c].pc = "ok" /\ call[c].m.pre = "owner" /\ call[c].m.post = "lookup and poll" =>
       final.owner = "program"

\* What a call becomes.
LEMMA CallChanges ==
  ASSUME Typed, NEW c \in Callers, NEW e \in Execution, call' = [call EXCEPT ![c] = e]
  PROVE  /\ call' \in [Callers -> Execution] /\ call'[c] = e
         /\ \A d \in Callers : d # c => call'[d] = call[d]
  BY DEF Typed

LEMMA FailsMoves ==
  ASSUME Typed, NEW c \in Callers, NEW error, NEW tx \in Seq(Tx), Fails(c, error, tx)
  PROVE  /\ call' \in [Callers -> Execution]
         /\ \A d \in Callers : d # c => call'[d] = call[d]
         /\ call'[c].m = call[c].m /\ call'[c].tx = tx /\ LegFits(call'[c])
         /\ call'[c].pc \in {"wait", "send", "error"}
         /\ call'[c].pc # "error" => call[c].m.pre # "outcome"
         /\ call'[c].pc = "wait" => call[c].m.pre # "none"
<1>0. /\ call[c] \in Execution /\ LegFits(call[c]) /\ call[c].m.legs \in Seq(Legs)
      /\ call[c].m.pre = "outcome" => call[c].m.legs = <<>>
      /\ call[c].leg \in Nat /\ call[c].leg > 0 /\ Len(call[c].m.legs) \in Nat
  <2>1. call[c] \in Execution /\ LegFits(call[c]) /\ WellFormed(call[c].m)
    BY OperationOK DEF Typed
  <2>. QED BY <2>1, LenProperties DEF WellFormed, LegFits, Execution
<1>1. CASE /\ call[c].leg < Len(call[c].m.legs)
           /\ call' = [call EXCEPT ![c].tx = tx, ![c].leg = @ + 1,
                            ![c].pc = IF call[c].m.pre = "initialized" THEN "wait" ELSE "send"]
  <2>. DEFINE pc == IF call[c].m.pre = "initialized" THEN "wait" ELSE "send"
              leg == call[c].leg + 1
              e == [call[c] EXCEPT !.tx = tx, !.leg = leg, !.pc = pc]
  <2>1. call' = [call EXCEPT ![c] = e]
    BY <1>1
  <2>2. /\ pc \in Pcs /\ pc \in {"wait", "send"}
        /\ leg \in Nat /\ leg \in 1..Len(call[c].m.legs)
        /\ pc = "wait" => call[c].m.pre # "none"
    BY SMTT(60), <1>0, <1>1 DEF Pcs
  <2>. HIDE DEF pc, leg
  <2>3. e \in Execution /\ e.m = call[c].m /\ e.tx = tx /\ e.pc = pc /\ e.leg = leg
    BY <1>0, <2>2 DEF Execution
  <2>4. call[c].m.pre # "outcome"
    <3>1. Len(<<>>) = 0
      OBVIOUS
    <3>. QED BY <1>0, <1>1, <3>1
  <2>. HIDE DEF e
  <2>5. call' \in [Callers -> Execution] /\ call'[c] = e /\ \A d \in Callers : d # c => call'[d] = call[d]
    BY <2>1, <2>3, CallChanges
  <2>6. LegFits(e)
    BY <2>2, <2>3 DEF LegFits
  <2>. QED BY <2>2, <2>3, <2>4, <2>5, <2>6
<1>2. CASE call' = [call EXCEPT ![c].tx = tx, ![c].pc = "error"]
  <2>. DEFINE e == [call[c] EXCEPT !.tx = tx, !.pc = "error"]
  <2>1. call' = [call EXCEPT ![c] = e]
    BY <1>2
  <2>2. e \in Execution /\ e.m = call[c].m /\ e.tx = tx /\ e.pc = "error" /\ e.leg = call[c].leg
    BY <1>0 DEF Execution, Pcs
  <2>. HIDE DEF e
  <2>. QED BY <1>0, <2>1, <2>2, CallChanges DEF LegFits
<1>. QED BY <1>1, <1>2 DEF Fails

LEMMA GotoMoves ==
  ASSUME Typed, NEW c \in Callers, NEW pc \in Pcs, Goto(c, pc)
  PROVE  /\ call' \in [Callers -> Execution]
         /\ \A d \in Callers : d # c => call'[d] = call[d]
         /\ call'[c].m = call[c].m /\ call'[c].tx = call[c].tx /\ call'[c].leg = call[c].leg
         /\ LegFits(call'[c]) /\ call'[c].pc = pc
<1>. DEFINE e == [call[c] EXCEPT !.pc = pc]
<1>1. call[c] \in Execution /\ LegFits(call[c])
  BY DEF Typed
<1>2. call' = [call EXCEPT ![c] = e]
  BY DEF Goto
<1>3. e \in Execution /\ e.m = call[c].m /\ e.tx = call[c].tx /\ e.pc = pc /\ e.leg = call[c].leg
  BY <1>1 DEF Execution
<1>. HIDE DEF e
<1>. QED BY <1>1, <1>2, <1>3, CallChanges DEF LegFits

\* An attempt fails with the transactions sent before.
LEMMA FailsStep ==
  ASSUME Typed, NEW c \in Callers, NEW error, Fails(c, error, call[c].tx),
         call[c].pc \notin {"ok", "error"}, UNCHANGED <<base, er, final>>
  PROVE  Moves(c)
<1>1. call[c].tx \in Seq(Tx)
  BY DEF Typed, Execution
<1>. QED BY <1>1, FailsMoves DEF Moves

LEMMA WaitMoves ==
  ASSUME Typed, CallsOK, NEW c \in Callers, Wait(c), UNCHANGED <<base, er, final>>
  PROVE  Moves(c)
<1>0. /\ call[c].pc = "wait" /\ call[c].m.pre \in {"initialized", "owner", "outcome"}
      /\ call[c].m.pre = "outcome" => Operation(c) = "outcome"
  BY OperationOK DEF Wait, At, WellFormed, Operation, CallsOK, CallOK
<1>1. CASE Goto(c, "error")
  BY <1>0, <1>1, GotoMoves DEF Moves, Pcs
<1>2. CASE Satisfied(call[c].m.pre) /\ call[c].m.pre = "initialized" /\ Goto(c, "send")
  BY <1>0, <1>2, GotoMoves DEF Moves, Pcs
<1>3. CASE Satisfied(call[c].m.pre) /\ call[c].m.pre # "initialized" /\ Goto(c, "ok")
  <2>1. CASE call[c].m.pre = "outcome" \/ call[c].m.pre = "owner"
    <3>1. Earned(c) /\ (call[c].m.pre = "owner" => final.owner = "program")
      BY <1>0, <1>3, <2>1 DEF Earned, Promise, Satisfied
    <3>. QED BY <1>0, <1>3, <3>1, GotoMoves DEF Moves, Pcs
  <2>. QED BY <1>0, <1>3, <2>1
<1>4. CASE call[c].m.pre = "owner" /\ Goto(c, "send")
  BY <1>0, <1>4, GotoMoves DEF Moves, Pcs
<1>5. CASE Fails(c, "unready", call[c].tx)
  BY <1>0, <1>5, FailsStep
<1>. QED BY <1>1, <1>2, <1>3, <1>4, <1>5 DEF Wait, Found, NotFound

\* The transactions sent are of the kinds there are.
LEMMA TargetOK ==
  ASSUME NEW leg \in Legs, NEW op
  PROVE  Target(leg, op) \in {"base", "er"}
  BY DEF Target, Legs

LEMMA ThisLegOK ==
  ASSUME Typed, NEW c \in Callers, call[c].m.pre # "outcome"
  PROVE  ThisLeg(c) \in Legs
<1>1. /\ call[c].m.legs \in Seq(Legs) /\ call[c].m.legs # <<>> /\ LegFits(call[c])
  BY OperationOK DEF Typed, WellFormed
<1>2. call[c].leg \in 1..Len(call[c].m.legs)
  <2>1. Len(call[c].m.legs) \in Nat \ {0}
    BY <1>1, EmptySeq
  <2>. QED BY <1>1, <2>1 DEF LegFits
<1>. QED BY <1>1, <1>2, ElementOfSeq DEF ThisLeg

LEMMA SendMoves ==
  ASSUME Typed, CallsOK, NEW c \in Callers, Send(c), UNCHANGED <<base, er, final>>
  PROVE  Moves(c)
<1>0. call[c].pc = "send" /\ call[c].m.pre # "outcome" /\ call[c] \in Execution
  BY DEF Send, At, CallsOK, CallOK, Typed
<1>1. CASE Refused(c) \/ Fails(c, "net", call[c].tx)
  <2>1. \E error : Fails(c, error, call[c].tx)
    BY <1>1 DEF Refused
  <2>. QED BY <1>0, <2>1, FailsStep
<1>2. CASE Submit(c)
  <2>. DEFINE to == Target(ThisLeg(c), call[c].m.op)
              sent == [to |-> to, status |-> "sent"]
              tx == Append(call[c].tx, sent)
              e == [call[c] EXCEPT !.tx = tx, !.pc = "confirm"]
  <2>1. to \in {"base", "er"} /\ sent \in Tx
    BY <1>0, ThisLegOK, TargetOK DEF Tx
  <2>2. call' = [call EXCEPT ![c] = e] \/ Fails(c, "net", tx)
    BY <1>2 DEF Submit
  <2>. HIDE DEF to
  <2>3. tx \in Seq(Tx) /\ tx # <<>>
    <3>1. tx \in Seq(Tx) /\ Len(tx) = Len(call[c].tx) + 1 /\ Len(call[c].tx) \in Nat
      BY <1>0, <2>1, AppendProperties, LenProperties DEF Execution
    <3>2. Len(<<>>) = 0
      OBVIOUS
    <3>. QED BY <3>1, <3>2
  <2>. HIDE DEF tx
  <2>4. e \in Execution /\ e.m = call[c].m /\ e.tx = tx /\ e.pc = "confirm" /\ e.leg = call[c].leg
    BY <1>0, <2>3 DEF Execution, Pcs
  <2>. HIDE DEF e
  <2>5. CASE call' = [call EXCEPT ![c] = e]
    <3>1. call' \in [Callers -> Execution] /\ call'[c] = e /\ \A d \in Callers : d # c => call'[d] = call[d]
      BY <2>4, <2>5, CallChanges
    <3>2. LegFits(call'[c])
      BY <2>4, <3>1 DEF Typed, LegFits
    <3>. QED BY <1>0, <2>1, <2>3, <2>4, <3>1, <3>2 DEF Moves, tx
  <2>6. CASE Fails(c, "net", tx)
    <3>1. /\ call' \in [Callers -> Execution]
          /\ \A d \in Callers : d # c => call'[d] = call[d]
          /\ call'[c].m = call[c].m /\ call'[c].tx = tx /\ LegFits(call'[c])
          /\ call'[c].pc \in {"wait", "send", "error"}
          /\ call'[c].pc # "error" => call[c].m.pre # "outcome"
          /\ call'[c].pc = "wait" => call[c].m.pre # "none"
      BY <2>3, <2>6, FailsMoves
    <3>. QED BY <1>0, <2>1, <3>1 DEF Moves, tx
  <2>. QED BY <2>2, <2>5, <2>6
<1>. QED BY <1>1, <1>2 DEF Send

\* What has come as far as the leg asks is what the call promises.
LEMMA ReachedEarns ==
  ASSUME Typed, LayersOK, CallsOK, NEW c \in Callers, call[c].pc = "confirm",
         Reached(ThisLeg(c), ThisTx(c))
  PROVE  Earned(c)
<1>1. ThisTx(c).status = "executed" => Operation(c) \in Done
  <2>1. Len(call[c].tx) \in DOMAIN call[c].tx
    <3>1. call[c].tx \in Seq(Tx) /\ call[c].tx # <<>>
      BY DEF Typed, Execution, CallsOK, CallOK
    <3>. QED BY <3>1, EmptySeq, LenProperties
  <2>. QED BY <2>1 DEF CallsOK, TxsOK, ThisTx, Done
<1>2. ThisTx(c).status = "final" => Operation(c) \in final.done
  <2>1. Len(call[c].tx) \in DOMAIN call[c].tx
    <3>1. call[c].tx \in Seq(Tx) /\ call[c].tx # <<>>
      BY DEF Typed, Execution, CallsOK, CallOK
    <3>. QED BY <3>1, EmptySeq, LenProperties
  <2>. QED BY <2>1 DEF CallsOK, TxsOK, ThisTx
<1>3. call[c].m.pre # "outcome" /\ final.done \subseteq Done
  BY DEF CallsOK, CallOK, LayersOK, Done
<1>. QED BY <1>1, <1>2, <1>3 DEF Earned, Promise, Reached

LEMMA ConfirmMoves ==
  ASSUME Typed, LayersOK, CallsOK, NEW c \in Callers, Confirm(c), UNCHANGED <<base, er, final>>
  PROVE  Moves(c)
<1>0. call[c].pc = "confirm" /\ call[c].m.pre # "outcome"
  BY DEF Confirm, At, CallsOK, CallOK
<1>1. CASE /\ Reached(ThisLeg(c), ThisTx(c))
           /\ \/ Goto(c, "ok") /\ call[c].m.post = "none"
              \/ Goto(c, "lookup")
  <2>1. Earned(c)
    BY <1>0, <1>1, ReachedEarns
  <2>. QED BY <1>0, <1>1, <2>1, GotoMoves DEF Moves, Pcs
<1>2. ASSUME NEW error, Fails(c, error, call[c].tx)
      PROVE  Moves(c)
  BY <1>0, <1>2, FailsStep
<1>. QED BY <1>1, <1>2 DEF Confirm

LEMMA EndMoves ==
  ASSUME Typed, CallsOK, NEW c \in Callers, Lookup(c) \/ Poll(c), UNCHANGED <<base, er, final>>
  PROVE  Moves(c)
<1>0. call[c].pc \in {"lookup", "poll"} /\ call[c].m.pre # "outcome" /\ Earned(c)
  BY DEF Lookup, Poll, At, CallsOK, CallOK
<1>1. CASE Lookup(c)
  <2>1. \/ Goto(c, "ok") /\ call[c].m.post = "lookup"
        \/ Goto(c, "poll")
    BY <1>1 DEF Lookup
  <2>. QED BY <1>0, <2>1, GotoMoves DEF Moves, Pcs
<1>2. CASE Poll(c)
  <2>1. \/ Goto(c, "ok") /\ final.owner = "program"
        \/ Goto(c, "error")
    BY <1>2 DEF Poll, Returned
  <2>. QED BY <1>0, <2>1, GotoMoves DEF Moves, Pcs
<1>. QED BY <1>1, <1>2

LEMMA StepMoves ==
  ASSUME Typed, LayersOK, CallsOK, NEW c \in Callers, Step(c)
  PROVE  Moves(c)
  BY WaitMoves, SendMoves, ConfirmMoves, EndMoves DEF Step

-----------------------------------------------------------------------------
(* Every step keeps the invariant *)

LEMMA InvInit == Init => ClientInv
<1>. SUFFICES ASSUME Init PROVE ClientInv
  OBVIOUS
<1>1. PICK did \in Lives :
       \/ /\ base = [owner |-> "program", done |-> did]
          /\ er = [done |-> {}, copy |-> {}, due |-> "nothing"]
       \/ /\ base = [owner |-> "delegation", done |-> {"market", "open", "delegate"}]
          /\ er = [done |-> did \cup {"delegate"}, copy |-> {}, due |-> "nothing"]
  BY DEF Init
<1>2. did \subseteq Ops /\ {"market", "open", "delegate"} \subseteq Ops
  BY DEF Lives, Ops, MarketOps
<1>3. final = base /\ base \in Account /\ er \in Copy
  BY <1>1, <1>2 DEF Init, Account, Copy
<1>4. PICK m \in [Callers -> Methods] :
        call = [c \in Callers |-> [m |-> m[c], pc |-> Begin(m[c]), leg |-> 1, tx |-> <<>>]]
  BY DEF Init
<1>5. \A c \in Callers : call[c].m \in Methods /\ call[c].pc = Begin(call[c].m)
                         /\ call[c].leg = 1 /\ call[c].tx = <<>>
  BY <1>4
<1>6. \A c \in Callers : Begin(m[c]) \in Pcs
  BY DEF Begin, Pcs
<1>7. call \in [Callers -> Execution]
  <2>1. <<>> \in Seq(Tx)
    BY EmptySeq
  <2>. QED BY <1>4, <1>6, <2>1 DEF Execution
<1>8. Typed
  BY <1>3, <1>5, <1>7 DEF Typed, LegFits
<1>9. LayersOK /\ OwnerOK
  BY <1>1, <1>3 DEF LayersOK, OwnerOK
<1>10. CallsOK
  <2>1. \A c \in Callers : TxsOK(c)
    BY <1>5 DEF TxsOK
  <2>2. \A c \in Callers : CallOK(c)
    BY <1>5 DEF CallOK, Begin
  <2>. QED BY <2>1, <2>2 DEF CallsOK
<1>11. BackOnBase
  BY <1>5 DEF BackOnBase, Begin
<1>. QED BY <1>8, <1>9, <1>10, <1>11 DEF ClientInv

\* Calls know no less when the chains go on.
LEMMA ChainKeeps ==
  ASSUME ClientInv, ChainStep
  PROVE  /\ (\A c \in Callers : CallOK(c)')
         /\ base' \in Account /\ final' \in Account /\ er' \in Copy => Typed'
         /\ (NobodyDelegates /\ base.owner = "program" => base'.owner = "program") => BackOnBase'
<1>. USE DEF ClientInv, ChainStep
<1>1. ASSUME NEW c \in Callers
      PROVE  CallOK(c)'
  <2>1. Operation(c)' = Operation(c) /\ Promise(c)' = Promise(c)
    BY DEF Operation, Promise, ThisLeg
  <2>2. Earned(c) => Earned(c)'
    BY <2>1 DEF Earned
  <2>3. call[c].tx # <<>> => call'[c].tx # <<>>
    <3>1. call[c].tx \in Seq(Tx) /\ Len(call'[c].tx) = Len(call[c].tx)
      BY DEF Typed, Execution
    <3>2. Len(<<>>) = 0
      OBVIOUS
    <3>. QED BY <3>1, <3>2, EmptySeq
  <2>. QED BY <2>2, <2>3 DEF CallsOK, CallOK
<1>2. base' \in Account /\ final' \in Account /\ er' \in Copy => Typed'
  BY DEF Typed, LegFits
<1>3. (NobodyDelegates /\ base.owner = "program" => base'.owner = "program") => BackOnBase'
  BY DEF BackOnBase, NobodyDelegates
<1>. QED BY <1>1, <1>2, <1>3

LEMMA OneMore ==
  ASSUME NEW s \in Seq(Tx), NEW x \in Tx, NEW i \in DOMAIN Append(s, x)
  PROVE  Append(s, x)[i] = x \/ (i \in DOMAIN s /\ Append(s, x)[i] = s[i])
<1>1. /\ Append(s, x) \in Seq(Tx) /\ Len(Append(s, x)) = Len(s) + 1
      /\ \A j \in 1..Len(s) : Append(s, x)[j] = s[j]
      /\ Append(s, x)[Len(s) + 1] = x
  BY AppendProperties
<1>2. Len(s) \in Nat /\ DOMAIN s = 1..Len(s) /\ DOMAIN Append(s, x) = 1..Len(s) + 1
  BY <1>1, LenProperties
<1>. QED BY <1>1, <1>2

LEMMA CallKeeps ==
  ASSUME ClientInv, NEW c \in Callers, Moves(c)
  PROVE  ClientInv'
<1>. USE DEF ClientInv, Moves
<1>1. Typed'
  BY DEF Typed
<1>2. LayersOK' /\ Done' = Done
  BY DEF LayersOK, Done
<1>3. \A d \in Callers : call'[d].m = call[d].m /\ Operation(d)' = Operation(d)
  BY DEF Operation
<1>4. OwnerOK'
  BY <1>3 DEF OwnerOK, NobodyDelegates
<1>5. BackOnBase'
  <2>. SUFFICES ASSUME NEW d \in Callers, call'[d].m = ensureRoundUndelegated, call'[d].pc = "ok",
                       \A b \in Callers : call'[b].m.op # "delegate"
                PROVE  base'.owner = "program"
    BY DEF BackOnBase
  <2>1. NobodyDelegates
    BY <1>3 DEF NobodyDelegates
  <2>2. CASE d = c
    <3>1. call[c].m.pre = "owner" /\ call[c].m.post = "lookup and poll"
      BY ZenonT(60), <1>3, <2>2 DEF ensureRoundUndelegated, commitAndUndelegateRoundER, Method
    <3>. QED BY <2>1, <2>2, <3>1 DEF OwnerOK
  <2>3. CASE d # c
    BY <1>3, <2>1, <2>3 DEF BackOnBase, NobodyDelegates
  <2>. QED BY <2>2, <2>3
<1>6. ASSUME NEW d \in Callers
      PROVE  TxsOK(d)' /\ CallOK(d)'
  <2>1. CASE d # c
    <3>1. Promise(d)' = Promise(d)
      BY <2>1 DEF Promise, ThisLeg
    <3>. QED BY ZenonT(60), <1>2, <1>3, <2>1, <3>1 DEF CallsOK, TxsOK, CallOK, Earned
  <2>2. CASE d = c
    <3>1. TxsOK(c)'
      <4>1. CASE call'[c].tx = call[c].tx
        BY ZenonT(60), <1>2, <1>3, <4>1 DEF CallsOK, TxsOK
      <4>2. ASSUME NEW to \in {"base", "er"},
                   call'[c].tx = Append(call[c].tx, [to |-> to, status |-> "sent"])
            PROVE  TxsOK(c)'
        <5>1. call[c].tx \in Seq(Tx) /\ [to |-> to, status |-> "sent"] \in Tx
          BY DEF Typed, Execution, Tx
        <5>2. \A i \in DOMAIN call'[c].tx :
                call'[c].tx[i].status = "sent" \/ (i \in DOMAIN call[c].tx /\ call'[c].tx[i] = call[c].tx[i])
          <6>. DEFINE s == call[c].tx
                      x == [to |-> to, status |-> "sent"]
          <6>1. s \in Seq(Tx) /\ x \in Tx /\ x.status = "sent" /\ call'[c].tx = Append(s, x)
            BY <4>2, <5>1
          <6>. HIDE DEF s, x
          <6>2. \A i \in DOMAIN Append(s, x) : Append(s, x)[i] = x \/ (i \in DOMAIN s /\ Append(s, x)[i] = s[i])
            BY <6>1, OneMore
          <6>. QED BY <6>1, <6>2 DEF s
        <5>. SUFFICES ASSUME NEW i \in DOMAIN call'[c].tx
                      PROVE  /\ call'[c].tx[i].status = "executed" =>
                                   Operation(c)' \in IF call'[c].tx[i].to = "base" THEN base'.done ELSE Done'
                             /\ call'[c].tx[i].status = "final" => Operation(c)' \in final'.done
          BY DEF TxsOK
        <5>. QED BY ZenonT(60), <1>2, <1>3, <5>2 DEF CallsOK, TxsOK
      <4>. QED BY <4>1, <4>2
    <3>2. CallOK(c)'
      <4>1. call'[c].pc \in {"lookup", "poll"} => Earned(c)'
        <5>1. call'[c].leg = call[c].leg => Promise(c)' = Promise(c)
          BY <1>3 DEF Promise, ThisLeg
        <5>. QED BY <1>2, <1>3, <5>1 DEF Earned
      <4>. QED BY <1>3, <4>1 DEF CallOK
    <3>. QED BY <2>2, <3>1, <3>2
  <2>. QED BY <2>1, <2>2
<1>. QED BY <1>1, <1>2, <1>4, <1>5, <1>6 DEF CallsOK

LEMMA InvNext == ClientInv /\ [Next]_vars => ClientInv'
<1>. SUFFICES ASSUME ClientInv, [Next]_vars PROVE ClientInv'
  OBVIOUS
<1>1. ASSUME NEW c \in Callers, NEW i \in DOMAIN call[c].tx, Land(c, i)
      PROVE  ClientInv'
  BY <1>1, LandOK, ChainKeeps DEF ClientInv, CallsOK, Typed
<1>2. CASE WriteBack
  BY <1>2, WriteBackOK, ChainKeeps DEF ClientInv, CallsOK, Typed
<1>3. CASE Finalize
  BY <1>3, FinalizeOK, ChainKeeps DEF ClientInv, CallsOK, Typed
<1>4. ASSUME NEW c \in Callers, Step(c)
      PROVE  ClientInv'
  BY <1>4, StepMoves, CallKeeps DEF ClientInv
<1>5. CASE UNCHANGED vars
  BY <1>5 DEF vars, ClientInv, Typed, LayersOK, CallsOK, TxsOK, CallOK, OwnerOK, BackOnBase, Done,
              Operation, Earned, Promise, ThisLeg, NobodyDelegates
<1>. QED BY <1>1, <1>2, <1>3, <1>4, <1>5 DEF Next

\* A transaction that executed has done its operation, the finalized account
\* knows no more than the base chain, the rollup nothing that its write-back
\* would lose; and a call that may still end well has what it will promise.
THEOREM ClientInvariant == Spec => []ClientInv
  BY InvInit, InvNext, PTL DEF Spec

\* The type invariant: an execution is at a leg its method has.
THEOREM ClientTypes == Spec => []TypeOK
<1>1. ClientInv => TypeOK
  <2>. SUFFICES ASSUME ClientInv PROVE TypeOK
    OBVIOUS
  <2>1. \A c \in Callers : \A i \in DOMAIN call[c].tx : call[c].tx[i] \in Tx
    <3>. TAKE c \in Callers
    <3>1. call[c].tx \in Seq(Tx)
      BY DEF ClientInv, Typed, Execution
    <3>. QED BY <3>1, LenProperties, ElementOfSeq
  <2>. QED BY <2>1 DEF ClientInv, Typed, TypeOK, Account, Copy, Execution, Pcs, LegFits, Tx
<1>. QED BY <1>1, ClientInvariant, PTL

\* When ensureRoundUndelegated returns, the account is on the base chain, and
\* stays there unless somebody delegates it.
THEOREM BackTheorem == Spec => []BackOnBase
<1>1. ClientInv => BackOnBase
  BY DEF ClientInv
<1>. QED BY <1>1, ClientInvariant, PTL

-----------------------------------------------------------------------------
(* The client implements ChainCall *)

Asked == [c \in Callers |-> Operation(c)]
Answers == [c \in Callers |-> Answer(c)]

LEMMA AnswerIs ==
  /\ \A c \in Callers : Answer(c) = IF call[c].pc = "error" THEN "error"
                                    ELSE IF call[c].pc # "ok" THEN "none" ELSE Promise(c)
  /\ \A c \in Callers : Answer(c)' = IF call'[c].pc = "error" THEN "error"
                                     ELSE IF call'[c].pc # "ok" THEN "none" ELSE Promise(c)'
  BY DEF Answer

LEMMA ChainRefines ==
  ASSUME ClientInv, ChainStep,
         \/ final' = final /\ Done' \subseteq Done \cup {Operation(c) : c \in Callers}
         \/ Done' = Done /\ final'.done \subseteq Done
  PROVE  Calls!Next \/ UNCHANGED <<Asked, Answers, Done, final.done>>
<1>1. \A c \in Callers : Operation(c)' = Operation(c) /\ Promise(c)' = Promise(c)
  BY DEF ChainStep, Operation, Promise, ThisLeg
<1>2. Asked' = Asked /\ Answers' = Answers
  BY <1>1, AnswerIs DEF Asked, Answers, ChainStep
<1>3. \A c \in Callers : Asked[c] = Operation(c)
  BY DEF Asked
<1>4. CASE final' = final /\ Done' \subseteq Done \cup {Operation(c) : c \in Callers}
  BY <1>2, <1>3, <1>4 DEF Calls!Next, Calls!Perform, ChainStep, Asked, Answers, Operation, Done
<1>5. CASE Done' = Done /\ final'.done \subseteq Done
  BY <1>2, <1>5 DEF Calls!Next, Calls!Finalize, ChainStep, Asked, Answers, Operation, Done
<1>. QED BY <1>4, <1>5

LEMMA CallRefines ==
  ASSUME ClientInv, NEW c \in Callers, Moves(c)
  PROVE  Calls!Next \/ UNCHANGED <<Asked, Answers, Done, final.done>>
<1>1. /\ Asked' = Asked /\ Done' = Done /\ final' = final
      /\ \A d \in Callers : d # c => Answer(d)' = Answer(d)
  <2>1. \A d \in Callers : Operation(d)' = Operation(d)
    BY DEF Moves, Operation
  <2>2. \A d \in Callers : d # c => Promise(d)' = Promise(d)
    BY DEF Moves, Promise, ThisLeg
  <2>. QED BY ZenonT(60), <2>1, <2>2, AnswerIs DEF Moves, Asked, Done
<1>2. Answer(c) = "none"
  BY AnswerIs DEF Moves
<1>3. Answer(c)' \in {"none", "error", "sent"}
          \cup (IF Operation(c) \in Done THEN {"done"} ELSE {})
          \cup (IF Operation(c) \in final.done THEN {"final"} ELSE {})
  <2>1. CASE call'[c].pc = "ok"
    <3>1. Promise(c)' = Promise(c) /\ Earned(c)
      BY <2>1 DEF Moves, Promise, ThisLeg
    <3>2. Promise(c) \in {"final", "sent", "done"}
      BY DEF Promise
    <3>3. Answer(c)' = Promise(c)
      BY <2>1, <3>1, AnswerIs
    <3>. HIDE DEF Promise
    <3>. QED BY <3>1, <3>2, <3>3 DEF Earned
  <2>2. CASE call'[c].pc # "ok"
    BY <2>2, AnswerIs
  <2>. QED BY <2>1, <2>2
<1>4. CASE Answer(c)' = "none"
  <2>1. Answers' = Answers
    BY <1>1, <1>2, <1>4 DEF Answers
  <2>. QED BY <1>1, <2>1
<1>5. CASE Answer(c)' # "none"
  <2>1. Answers' = [Answers EXCEPT ![c] = Answer(c)'] /\ Answers[c] = "none"
    BY <1>1, <1>2 DEF Answers
  <2>2. Asked[c] = Operation(c)
    BY DEF Asked
  <2>3. Calls!Answer(c)
    BY <1>1, <1>3, <1>5, <2>1, <2>2 DEF Calls!Answer, Asked, Answers, Operation, Done
  <2>. QED BY <2>3 DEF Calls!Next
<1>. QED BY <1>4, <1>5

LEMMA RefinesInit == Init => Calls!Init
<1>. SUFFICES ASSUME Init PROVE Calls!Init
  OBVIOUS
<1>1. ClientInv
  BY InvInit
<1>2. \A c \in Callers : call[c].pc \in {"send", "wait"}
  BY DEF Init, Begin
<1>3. \A c \in Callers : Answer(c) = "none"
  BY <1>2, AnswerIs
<1>4. final.done \subseteq Done
  BY <1>1 DEF ClientInv, LayersOK, Done
<1>. QED BY <1>3, <1>4 DEF Calls!Init, Done

LEMMA RefinesNext ==
  ClientInv /\ [Next]_vars => Calls!Next \/ UNCHANGED <<Asked, Answers, Done, final.done>>
<1>. SUFFICES ASSUME ClientInv, [Next]_vars
              PROVE  Calls!Next \/ UNCHANGED <<Asked, Answers, Done, final.done>>
  OBVIOUS
<1>. USE DEF ClientInv
<1>1. ASSUME NEW c \in Callers, NEW i \in DOMAIN call[c].tx, Land(c, i)
      PROVE  Calls!Next \/ UNCHANGED <<Asked, Answers, Done, final.done>>
  <2>1. ChainStep /\ final' = final /\ Done' \subseteq Done \cup {Operation(c)}
    BY <1>1, LandOK
  <2>. QED BY <2>1, ChainRefines
<1>2. CASE WriteBack
  <2>1. ChainStep /\ final' = final /\ Done' = Done
    BY <1>2, WriteBackOK
  <2>. QED BY <2>1, ChainRefines
<1>3. CASE Finalize
  <2>1. ChainStep /\ Done' = Done /\ final'.done \subseteq Done
    BY <1>3, FinalizeOK DEF Done
  <2>. QED BY <2>1, ChainRefines
<1>4. ASSUME NEW c \in Callers, Step(c)
      PROVE  Calls!Next \/ UNCHANGED <<Asked, Answers, Done, final.done>>
  BY <1>4, StepMoves, CallRefines
<1>5. CASE UNCHANGED vars
  BY <1>5, AnswerIs DEF vars, Asked, Answers, Done, Operation, Promise, ThisLeg
<1>. QED BY <1>1, <1>2, <1>3, <1>4, <1>5 DEF Next

\* The client keeps the promises of ChainCall: whatever is sent again, and
\* whichever transaction given up lands late, a call ends with no more than it
\* knows, and nothing is done that nobody asked for.
THEOREM CallTheorem == Spec => ImplementsChainCall
<1>1. ClientInv /\ [Next]_vars => [Calls!Next]_(Calls!vars)
  BY RefinesNext DEF Calls!vars, Asked, Answers, Operation, Done
<1>. QED BY <1>1, RefinesInit, ClientInvariant, PTL DEF Spec, Calls!Spec, ImplementsChainCall

=============================================================================
