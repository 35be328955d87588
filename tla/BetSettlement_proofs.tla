------------------------ MODULE BetSettlement_proofs ------------------------
(***************************************************************************)
(* For any bets, workers, attempts and faults: the database says of a bet  *)
(* what the chain did with it, the leaderboard counts it once, and only    *)
(* faults lose its record.                                                 *)
(*                                                                         *)
(* A bet is closed once, so at most one execution or request has closed it *)
(* and is about to record it; nobody else writes of it until then.         *)
(***************************************************************************)
EXTENDS BetSettlement, TLAPS

-----------------------------------------------------------------------------
(* The chain *)

SlipsOK == slip \in [{R} -> [Bets -> [state : {"none", "open", "closed"},
                                     stake : Nat, odds : Nat, paid : Nat]]]

LEMMA AmountOK ==
  ASSUME NEW tx \in Tx
  PROVE  Amount(tx) \in Nat
<1>1. Stake * Odds \in Nat
  BY SettlementAssumption
<1>2. (Stake * Odds) \div 100 \in Nat
  BY <1>1
<1>. QED BY <1>2, SettlementAssumption DEF Amount, Payout

\* A transaction that is executed closes an open slip, and pays from what the
\* vault holds.
LEMMA ExecuteCloses ==
  ASSUME TypeOK, NEW tx \in Tx, Execute(tx)
  PROVE  /\ slip[R][tx.bet].state = "open"
         /\ SlipsOK'
         /\ slip'[R][tx.bet].state = "closed" /\ slip'[R][tx.bet].paid = Amount(tx)
         /\ \A u \in Bets : u # tx.bet => slip'[R][u] = slip[R][u]
         /\ vault' \in Nat /\ UNCHANGED <<book, owner>>
<1>. DEFINE s == slip[R][tx.bet]
<1>0. tx.bet \in Bets /\ s \in [state : {"none", "open", "closed"}, stake : Nat, odds : Nat, paid : Nat]
  BY DEF TypeOK, Tx
<1>1. PICK paid : slip' = [slip EXCEPT ![R][tx.bet] = Chain!Closed(slip[R][tx.bet], paid)]
  BY DEF Execute, Chain!CloseSlip
<1>2. slip'[R][tx.bet] = Chain!Closed(s, paid)
  BY <1>0, <1>1 DEF TypeOK
<1>3. paid = Amount(tx) /\ Amount(tx) \in Nat
  BY <1>2, AmountOK DEF Execute, Chain!Closed
<1>4. SlipsOK'
  BY <1>0, <1>1, <1>3 DEF TypeOK, SlipsOK, Chain!Closed
<1>5. \A u \in Bets : u # tx.bet => slip'[R][u] = slip[R][u]
  BY <1>1 DEF TypeOK
<1>6. vault' \in Nat
  BY <1>3 DEF Execute, TypeOK
<1>7. s.state = "open" /\ UNCHANGED <<book, owner>>
  BY DEF Execute, Chain!CloseSlip
<1>. QED BY <1>2, <1>3, <1>4, <1>5, <1>6, <1>7 DEF Chain!Closed

-----------------------------------------------------------------------------
(* Types *)

WorkerPc == {"idle", "undelegate", "noteUndelegated", "ensure", "await", "settle",
             "record", "count", "close", "loadRefunds", "ensureRefund", "refund",
             "recordRefund"}
Execution == [pc : WorkerPc, todo : SUBSET Bets, cur : Bets \cup {None}]

WorkersOK == w \in [Workers -> Execution]

\* What TypeOK does not say: faults are counted.
FaultsOK == faults \in [timeouts : Nat, rollup : Nat, storeErrors : Nat, crashes : Nat,
                        refunds : Nat]

IsHeld(pc) == pc \in {"record", "count", "recordRefund"}

\* An execution that holds a bet works on one.
CursorsOK == \A i \in Workers : IsHeld(w[i].pc) => w[i].cur \in Bets

LEMMA IdleOK == Idle \in Execution /\ ~ IsHeld(Idle.pc)
  BY DEF Idle, Execution, WorkerPc, IsHeld

\* Executions of the job, one at a time.
LEMMA WorkerChanges ==
  ASSUME WorkersOK, CursorsOK, NEW i \in Workers, NEW e \in Execution,
         IsHeld(e.pc) => e.cur \in Bets, w' = [w EXCEPT ![i] = e]
  PROVE  WorkersOK' /\ CursorsOK'
  BY DEF WorkersOK, CursorsOK

LEMMA GotoOK ==
  ASSUME WorkersOK, CursorsOK, NEW i \in Workers, NEW pc \in WorkerPc,
         IsHeld(pc) => w[i].cur \in Bets, Goto(i, pc)
  PROVE  WorkersOK' /\ CursorsOK'
<1>. DEFINE e == [w[i] EXCEPT !.pc = pc]
<1>1. e \in Execution /\ e.pc = pc /\ e.cur = w[i].cur
  BY DEF WorkersOK, Execution
<1>2. w' = [w EXCEPT ![i] = e]
  BY DEF Goto
<1>. QED BY <1>1, <1>2, WorkerChanges

LEMMA EndsOK ==
  ASSUME WorkersOK, CursorsOK, NEW i \in Workers, Return(i) \/ Throw(i)
  PROVE  WorkersOK' /\ CursorsOK'
  BY IdleOK, WorkerChanges DEF Return, Throw

LEMMA FaultOK ==
  ASSUME FaultsOK, NEW kind \in {"timeouts", "rollup", "storeErrors", "crashes", "refunds"},
         NEW max, Fault(kind, max)
  PROVE  FaultsOK' /\ faults'[kind] = faults[kind] + 1
  BY DEF FaultsOK, Fault

Typed == TypeOK /\ FaultsOK /\ CursorsOK

LEMMA ParamsOK == Stake \in Nat /\ \A u \in Bets : Settle(u) \in Tx /\ Refund(u) \in Tx
  BY SettlementAssumption DEF Settle, Refund, Tx

\* What the worker's steps before the payouts leave as it was.
LEMMA EarlyTypes ==
  ASSUME Typed, NEW i \in Workers,
         \/ TakeJob(i) \/ Undelegate(i) \/ NoteUndelegated(i) \/ EnsureUndelegated(i)
         \/ AwaitOutcome(i) \/ EnsureBeforeRefunds(i) \/ AwaitTimesOut(i)
  PROVE  Typed'
<1>. USE DEF Typed, WorkersOK, Execution
<1>1. CASE TakeJob(i)
  <2>. DEFINE e == [pc |-> IF undelegatedDb THEN "await" ELSE "undelegate",
                    todo |-> PendingBets, cur |-> None]
  <2>1. e \in Execution /\ ~ IsHeld(e.pc)
    BY DEF WorkerPc, PendingBets, IsHeld
  <2>2. WorkersOK' /\ CursorsOK'
    BY <1>1, <2>1, WorkerChanges DEF TypeOK, TakeJob, WorkerPc
  <2>. QED BY <1>1, <2>2 DEF TypeOK, TakeJob, FaultsOK, chain, db, WorkerPc
<1>2. CASE Undelegate(i)
  <2>1. WorkersOK' /\ CursorsOK'
    BY <1>2, GotoOK, EndsOK DEF TypeOK, Undelegate, WorkerPc, IsHeld
  <2>2. FaultsOK'
    BY <1>2, FaultOK DEF Undelegate, FaultsOK
  <2>. QED BY <1>2, <2>1, <2>2 DEF TypeOK, Undelegate, db, WorkerPc
<1>3. CASE NoteUndelegated(i)
  <2>1. WorkersOK' /\ CursorsOK'
    BY <1>3, GotoOK DEF TypeOK, NoteUndelegated, WorkerPc, IsHeld
  <2>. QED BY <1>3, <2>1 DEF TypeOK, NoteUndelegated, chain, FaultsOK, WorkerPc
<1>4. CASE EnsureUndelegated(i)
  <2>1. WorkersOK' /\ CursorsOK'
    BY <1>4, GotoOK, EndsOK DEF TypeOK, EnsureUndelegated, WorkerPc, IsHeld
  <2>. QED BY <1>4, <2>1 DEF TypeOK, EnsureUndelegated, chain, db, FaultsOK, WorkerPc
<1>5. CASE AwaitOutcome(i) \/ EnsureBeforeRefunds(i)
  <2>1. WorkersOK' /\ CursorsOK'
    BY <1>5, GotoOK DEF TypeOK, AwaitOutcome, EnsureBeforeRefunds, Wait, WorkerPc, IsHeld
  <2>. QED BY <1>5, <2>1 DEF TypeOK, AwaitOutcome, EnsureBeforeRefunds, Wait, chain, db, FaultsOK, WorkerPc
<1>6. CASE AwaitTimesOut(i)
  <2>1. WorkersOK' /\ CursorsOK' /\ FaultsOK'
    BY <1>6, EndsOK, FaultOK DEF TypeOK, AwaitTimesOut, WorkerPc
  <2>. QED BY <1>6, <2>1 DEF TypeOK, AwaitTimesOut, chain, db, WorkerPc
<1>. QED BY <1>1, <1>2, <1>3, <1>4, <1>5, <1>6

\* A transaction that is executed, or whose sender gives up.
LEMMA ChainTypes ==
  ASSUME Typed, NEW tx \in Tx, Execute(tx) \/ UNCHANGED chain
  PROVE  /\ SlipsOK' /\ vault' \in Nat
         /\ book' \in [{R} -> Chain!BookStates] /\ owner' \in {"rollup", "leaving", "program"}
  BY ExecuteCloses DEF Typed, TypeOK, SlipsOK, chain

\* The round account is settled: the bets stay as they are.
LEMMA BookTypes ==
  ASSUME book \in [{R} -> Chain!BookStates], Chain!SettleBook(R)
  PROVE  book' \in [{R} -> Chain!BookStates] /\ UNCHANGED slip
  BY DEF Chain!SettleBook, Chain!BookStates

LEMMA PayoutTypes ==
  ASSUME Typed, NEW i \in Workers, NEW u \in Bets, SettleNext(i, u) \/ RefundNext(i, u)
  PROVE  Typed'
<1>. USE DEF Typed, WorkersOK, Execution
<1>. DEFINE held(pc) == [w[i] EXCEPT !.pc = pc, !.cur = u]
            left == [w[i] EXCEPT !.todo = @ \ {u}]
<1>0. /\ \A pc \in WorkerPc : held(pc) \in Execution /\ held(pc).cur = u
      /\ left \in Execution /\ left.pc = w[i].pc
  BY ZenonT(60) DEF TypeOK, WorkerPc
<1>1. CASE SettleNext(i, u)
  <2>1. /\ SlipsOK' /\ vault' \in Nat /\ book' \in [{R} -> Chain!BookStates]
        /\ owner' \in {"rollup", "leaving", "program"}
    BY <1>1, ChainTypes, ParamsOK DEF SettleNext, GiveUp
  <2>2. WorkersOK' /\ CursorsOK'
    <3>1. CASE w' = [w EXCEPT ![i].pc = "record", ![i].cur = u]
      <4>1. w' = [w EXCEPT ![i] = held("record")]
        BY <3>1
      <4>2. held("record") \in Execution /\ held("record").cur \in Bets
        BY <1>0 DEF WorkerPc
      <4>. HIDE DEF held
      <4>. QED BY <4>1, <4>2, WorkerChanges DEF TypeOK, WorkerPc
    <3>2. CASE Goto(i, "loadRefunds") \/ Throw(i)
      BY <3>2, GotoOK, EndsOK DEF TypeOK, WorkerPc, IsHeld
    <3>. QED BY <1>1, <3>1, <3>2 DEF SettleNext
  <2>3. FaultsOK' /\ limbo' \subseteq Tx \cup {Close}
    BY <1>1, FaultOK, ParamsOK DEF TypeOK, SettleNext, GiveUp, FaultsOK
  <2>. QED BY <1>1, <2>1, <2>2, <2>3 DEF TypeOK, SlipsOK, SettleNext, db, WorkerPc
<1>2. CASE RefundNext(i, u)
  <2>1. /\ SlipsOK' /\ vault' \in Nat /\ book' \in [{R} -> Chain!BookStates]
        /\ owner' \in {"rollup", "leaving", "program"}
    BY <1>2, ChainTypes, ParamsOK DEF RefundNext, GiveUp
  <2>2. WorkersOK' /\ CursorsOK'
    <3>1. CASE w' = [w EXCEPT ![i].pc = "recordRefund", ![i].cur = u]
      <4>1. w' = [w EXCEPT ![i] = held("recordRefund")]
        BY <3>1
      <4>2. held("recordRefund") \in Execution /\ held("recordRefund").cur \in Bets
        BY <1>0 DEF WorkerPc
      <4>. HIDE DEF held
      <4>. QED BY <4>1, <4>2, WorkerChanges DEF TypeOK, WorkerPc
    <3>2. CASE w' = [w EXCEPT ![i].todo = @ \ {u}]
      <4>1. w' = [w EXCEPT ![i] = left] /\ ~ IsHeld(left.pc)
        BY <1>0, <1>2, <3>2 DEF RefundNext, IsHeld
      <4>2. left \in Execution /\ (IsHeld(left.pc) => left.cur \in Bets)
        BY <1>0, <4>1
      <4>. HIDE DEF left
      <4>. QED BY <4>1, <4>2, WorkerChanges DEF TypeOK, WorkerPc
    <3>. QED BY <1>2, <3>1, <3>2 DEF RefundNext
  <2>3. FaultsOK' /\ limbo' \subseteq Tx \cup {Close}
    BY <1>2, FaultOK, ParamsOK DEF TypeOK, RefundNext, GiveUp, FaultsOK
  <2>. QED BY <1>2, <2>1, <2>2, <2>3 DEF TypeOK, SlipsOK, RefundNext, db, WorkerPc
<1>. QED BY <1>1, <1>2

\* The steps that record what was paid, and the ends of the job.
LEMMA RecordTypes ==
  ASSUME Typed, NEW i \in Workers,
         \/ RecordResult(i) \/ CountResult(i) \/ MarkSettled(i) \/ CloseRound(i)
         \/ LoadRefunds(i) \/ RecordRefund(i) \/ MarkFailed(i) \/ StoreFails(i)
  PROVE  Typed'
<1>. USE DEF Typed, WorkersOK
<1>. DEFINE next(pc) == [pc |-> pc, todo |-> w[i].todo \ {w[i].cur}, cur |-> None]
<1>0. /\ w[i] \in Execution /\ (IsHeld(w[i].pc) => w[i].cur \in Bets)
      /\ \A pc \in {"settle", "refund"} : next(pc) \in Execution /\ ~ IsHeld(next(pc).pc)
  BY DEF TypeOK, CursorsOK, Execution, WorkerPc, IsHeld
<1>1. CASE RecordResult(i)
  <2>1. WorkersOK' /\ CursorsOK'
    BY <1>0, <1>1, GotoOK DEF TypeOK, RecordResult, Execution, WorkerPc, IsHeld
  <2>. QED BY <1>0, <1>1, <2>1 DEF TypeOK, RecordResult, chain, FaultsOK, Execution, WorkerPc, IsHeld
<1>2. CASE CountResult(i)
  <2>1. w' = [w EXCEPT ![i] = next("settle")] /\ w[i].cur \in Bets
    BY <1>0, <1>2 DEF CountResult, IsHeld
  <2>2. WorkersOK' /\ CursorsOK'
    BY <1>0, <2>1, WorkerChanges DEF TypeOK, Execution, WorkerPc
  <2>. QED BY <1>2, <2>1, <2>2 DEF TypeOK, CountResult, chain, FaultsOK, Execution, WorkerPc
<1>3. CASE MarkSettled(i)
  <2>1. WorkersOK' /\ CursorsOK'
    BY <1>3, GotoOK DEF TypeOK, MarkSettled, Execution, WorkerPc, IsHeld
  <2>. QED BY <1>3, <2>1 DEF TypeOK, MarkSettled, chain, FaultsOK, Execution, WorkerPc
<1>4. CASE CloseRound(i)
  <2>1. WorkersOK' /\ CursorsOK'
    BY <1>4, EndsOK DEF TypeOK, CloseRound, Execution, WorkerPc
  <2>2. book' \in [{R} -> Chain!BookStates] /\ UNCHANGED <<slip, vault, owner>>
    BY <1>4, BookTypes DEF TypeOK, CloseRound, GiveUp, chain
  <2>3. FaultsOK' /\ limbo' \subseteq Tx \cup {Close}
    BY <1>4, FaultOK DEF TypeOK, CloseRound, GiveUp, FaultsOK
  <2>. QED BY <1>4, <2>1, <2>2, <2>3 DEF TypeOK, CloseRound, db, Execution, WorkerPc
<1>5. CASE LoadRefunds(i)
  <2>. DEFINE e == [pc |-> "ensureRefund", todo |-> PendingBets, cur |-> None]
  <2>1. e \in Execution /\ ~ IsHeld(e.pc)
    BY DEF Execution, WorkerPc, PendingBets, IsHeld
  <2>2. WorkersOK' /\ CursorsOK'
    BY <1>5, <2>1, WorkerChanges, EndsOK DEF TypeOK, LoadRefunds, Execution, WorkerPc
  <2>. QED BY <1>5, <2>2 DEF TypeOK, LoadRefunds, chain, db, FaultsOK, Execution, WorkerPc
<1>6. CASE RecordRefund(i)
  <2>1. w' = [w EXCEPT ![i] = next("refund")] /\ w[i].cur \in Bets
    BY <1>0, <1>6 DEF RecordRefund, IsHeld
  <2>2. WorkersOK' /\ CursorsOK'
    BY <1>0, <2>1, WorkerChanges DEF TypeOK, Execution, WorkerPc
  <2>. QED BY <1>6, <2>1, <2>2 DEF TypeOK, RecordRefund, chain, FaultsOK, Execution, WorkerPc
<1>7. CASE MarkFailed(i)
  <2>1. WorkersOK' /\ CursorsOK'
    BY <1>7, EndsOK DEF TypeOK, MarkFailed, Execution, WorkerPc
  <2>. QED BY <1>7, <2>1 DEF TypeOK, MarkFailed, chain, FaultsOK, Execution, WorkerPc
<1>8. CASE StoreFails(i)
  <2>1. WorkersOK' /\ CursorsOK' /\ FaultsOK'
    BY <1>8, EndsOK, FaultOK DEF TypeOK, StoreFails, Execution, WorkerPc
  <2>. QED BY <1>8, <2>1 DEF TypeOK, StoreFails, chain, db, Execution, WorkerPc
<1>. QED BY <1>1, <1>2, <1>3, <1>4, <1>5, <1>6, <1>7, <1>8

\* The refund endpoint.
LEMMA AdminTypes ==
  ASSUME Typed, AdminStep
  PROVE  Typed'
<1>. USE DEF Typed, CursorsOK
<1>1. CASE RequestRefunds
  BY <1>1, FaultOK DEF TypeOK, RequestRefunds, chain, db
<1>2. ASSUME NEW u \in Bets, AdminRefund(u)
      PROVE  Typed'
  <2>1. /\ SlipsOK' /\ vault' \in Nat /\ book' \in [{R} -> Chain!BookStates]
        /\ owner' \in {"rollup", "leaving", "program"}
    BY <1>2, ChainTypes, ParamsOK DEF AdminRefund, GiveUp
  <2>2. FaultsOK' /\ limbo' \subseteq Tx \cup {Close}
    BY <1>2, FaultOK, ParamsOK DEF TypeOK, AdminRefund, GiveUp, FaultsOK
  <2>3. admin' \in [pc : {"idle", "refunding", "thrown"}, at : [Bets -> {"refund", "record", "done"}]]
    BY <1>2 DEF TypeOK, AdminRefund
  <2>. QED BY <1>2, <2>1, <2>2, <2>3 DEF TypeOK, SlipsOK, AdminRefund, db
<1>3. ASSUME NEW u \in Bets, AdminRecord(u) \/ AdminStoreFails(u)
      PROVE  Typed'
  <2>1. admin' \in [pc : {"idle", "refunding", "thrown"}, at : [Bets -> {"refund", "record", "done"}]]
    <3>1. CASE AdminRecord(u)
      BY <3>1 DEF TypeOK, AdminRecord
    <3>2. CASE AdminStoreFails(u)
      <4>. DEFINE at == [admin.at EXCEPT ![u] = "done"]
      <4>1. admin' = [admin EXCEPT !.pc = "thrown", !.at = at]
        BY <3>2 DEF TypeOK, AdminStoreFails
      <4>2. at \in [Bets -> {"refund", "record", "done"}]
        BY DEF TypeOK
      <4>. HIDE DEF at
      <4>. QED BY <4>1, <4>2 DEF TypeOK
    <3>. QED BY <1>3, <3>1, <3>2
  <2>2. FaultsOK'
    BY <1>3, FaultOK DEF AdminRecord, AdminStoreFails, FaultsOK
  <2>3. betDb' \in [Bets -> {"none", "PENDING", "WON", "LOST", "REFUNDED"}]
    BY <1>3 DEF TypeOK, AdminRecord, AdminStoreFails, db
  <2>. QED BY <1>3, <2>1, <2>2, <2>3 DEF TypeOK, AdminRecord, AdminStoreFails, chain, db
<1>4. CASE AdminEnd
  BY <1>4 DEF TypeOK, AdminEnd, NoRequest, FaultsOK, chain
<1>. QED BY <1>1, <1>2, <1>3, <1>4 DEF AdminStep

\* Every step keeps the types.
LEMMA TypesNext == Typed /\ [Next]_vars => Typed'
<1>. SUFFICES ASSUME Typed, [Next]_vars
              PROVE  Typed'
  OBVIOUS
<1>1. ASSUME NEW i \in Workers, WorkerStep(i)
      PROVE  Typed'
  BY <1>1, EarlyTypes, PayoutTypes, RecordTypes DEF WorkerStep
<1>2. ASSUME NEW tx, Land(tx)
      PROVE  Typed'
  <2>1. /\ SlipsOK' /\ vault' \in Nat /\ book' \in [{R} -> Chain!BookStates]
        /\ owner' \in {"rollup", "leaving", "program"}
    <3>1. CASE tx \in Tx /\ Execute(tx)
      BY <3>1, ChainTypes
    <3>2. CASE Chain!SettleBook(R) /\ UNCHANGED <<vault, owner>>
      BY <3>2, BookTypes DEF Typed, TypeOK, SlipsOK
    <3>. QED BY <1>2, <3>1, <3>2 DEF Land
  <2>. QED BY <1>2, <2>1 DEF Typed, TypeOK, CursorsOK, FaultsOK, SlipsOK, Land, db
<1>3. CASE Undelegated \/ Stall \/ UNCHANGED vars \/ \E tx : Expire(tx)
  BY <1>3 DEF Typed, TypeOK, CursorsOK, FaultsOK, Undelegated, Stall, Expire, vars, chain, db
<1>4. ASSUME NEW u \in Bets, ConfirmBet(u)
      PROVE  Typed'
  BY <1>4 DEF Typed, TypeOK, CursorsOK, FaultsOK, ConfirmBet, chain
<1>5. CASE Crash
  BY <1>5, FaultOK, IdleOK DEF Typed, TypeOK, CursorsOK, Crash, NoRequest, Execution, WorkerPc,
     chain, db
<1>. QED BY <1>1, <1>2, <1>3, <1>4, <1>5, AdminTypes DEF Next, ChainStep

LEMMA TypesInit == Init => Typed
  BY SettlementAssumption, IdleOK
     DEF Init, Typed, TypeOK, FaultsOK, CursorsOK, Execution, WorkerPc, NoRequest,
         Chain!BookStates, Tx, R

-----------------------------------------------------------------------------
(* The invariant *)

Fresh(u) == betDb[u] \in {"none", "PENDING"}

\* What execution i is about to write of the bet u.
Doing(i, u) == IF w[i].cur = u /\ IsHeld(w[i].pc) THEN w[i].pc ELSE "no"

Faulted == faults.timeouts + faults.storeErrors + faults.crashes > 0

\* Nobody has closed the bet, so nobody records it.
OpenIsFresh(u) ==
  slip[R][u].state = "open" =>
    /\ Fresh(u) /\ board[u] = 0
    /\ admin.at[u] # "record"
    /\ \A i \in Workers : Doing(i, u) = "no"

\* The refund endpoint refunded the bet, and is the one to record it.
AdminRecords(u) ==
  admin.at[u] = "record" =>
    /\ Fresh(u) /\ board[u] = 0 /\ Paid(u, Stake)
    /\ \A i \in Workers : Doing(i, u) = "no"

\* An execution paid the bet, and is the one to record and count it.
WorkerRecords(u) ==
  \A i \in Workers :
    /\ Doing(i, u) = "record" => Fresh(u) /\ board[u] = 0 /\ Paid(u, Payout(u))
    /\ Doing(i, u) = "recordRefund" => Fresh(u) /\ board[u] = 0 /\ Paid(u, Stake)
    /\ Doing(i, u) = "count" => betDb[u] \in {"WON", "LOST"} /\ board[u] = 0

OneHolder(u) ==
  \A i, j \in Workers : Doing(i, u) # "no" /\ Doing(j, u) # "no" => i = j

\* A confirmation under way has its bet to itself: nobody found it PENDING.
ConfirmsUnseen(u) ==
  u \in confirming =>
    /\ betDb[u] = "none"
    /\ admin.at[u] = "done"
    /\ \A i \in Workers : u \notin w[i].todo /\ Doing(i, u) = "no"

Matches(u) ==
  /\ betDb[u] = "WON" => u \in Wins /\ Paid(u, Payout(u))
  /\ betDb[u] = "LOST" => u \notin Wins /\ Paid(u, 0)
  /\ betDb[u] = "REFUNDED" => Paid(u, Stake)

Counted(u) == board[u] <= 1 /\ (board[u] = 1 => betDb[u] \in {"WON", "LOST"})

LosesByFault(u) ==
  slip[R][u].state = "closed" /\ Fresh(u) =>
    \/ admin.at[u] = "record"
    \/ \E i \in Workers : Doing(i, u) \in {"record", "recordRefund"}
    \/ Faulted

BetInv(u) ==
  /\ slip[R][u].state \in {"open", "closed"}
  /\ OpenIsFresh(u) /\ AdminRecords(u) /\ WorkerRecords(u) /\ OneHolder(u)
  /\ ConfirmsUnseen(u) /\ Matches(u) /\ Counted(u) /\ LosesByFault(u)

\* An abandoned transaction is a fault, and an idle endpoint refunds nothing.
Quiet ==
  /\ limbo # {} => faults.timeouts > 0
  /\ admin.pc = "idle" => \A u \in Bets : admin.at[u] = "done"

SettlementInv == Typed /\ Quiet /\ \A u \in Bets : BetInv(u)

-----------------------------------------------------------------------------
(* What a step does to one bet *)

BetKept(u) == /\ slip'[R][u] = slip[R][u]
              /\ betDb'[u] = betDb[u] /\ board'[u] = board[u]

\* Executions keep what they do, and start on PENDING bets only.
WorkKept(u) ==
  \A i \in Workers : /\ Doing(i, u)' = Doing(i, u)
                     /\ u \in w'[i].todo => u \in w[i].todo \/ betDb[u] = "PENDING"

AdminKept(u) == /\ admin'.at[u] = "record" <=> admin.at[u] = "record"
                /\ admin'.at[u] # "done" => admin.at[u] # "done" \/ betDb[u] = "PENDING"

FaultsKept == Faulted => Faulted'

LEMMA Kept ==
  ASSUME NEW u \in Bets, BetInv(u), BetKept(u), WorkKept(u), AdminKept(u), FaultsKept,
         confirming' \subseteq confirming
  PROVE  BetInv(u)'
<1>. USE DEF BetInv, BetKept, WorkKept, AdminKept
<1>1. (slip[R][u].state \in {"open", "closed"} /\ OpenIsFresh(u))'
  BY DEF OpenIsFresh, Fresh
<1>2. AdminRecords(u)'
  BY DEF AdminRecords, Fresh, Paid
<1>3. WorkerRecords(u)' /\ OneHolder(u)'
  BY DEF WorkerRecords, OneHolder, Fresh, Paid
<1>4. ConfirmsUnseen(u)'
  BY DEF ConfirmsUnseen
<1>5. Matches(u)' /\ Counted(u)'
  BY DEF Matches, Counted, Paid
<1>6. LosesByFault(u)'
  BY DEF LosesByFault, Fresh, FaultsKept
<1>. QED BY <1>1, <1>2, <1>3, <1>4, <1>5, <1>6

\* Who was about to record the bet may be gone, after a fault.
LEMMA Dropped ==
  ASSUME NEW u \in Bets, BetInv(u), BetKept(u), Faulted',
         \A i \in Workers : /\ Doing(i, u)' \in {Doing(i, u), "no"}
                            /\ u \in w'[i].todo => u \in w[i].todo,
         admin'.at[u] \in {admin.at[u], "done"},
         confirming' \subseteq confirming
  PROVE  BetInv(u)'
<1>. USE DEF BetInv, BetKept
<1>1. (slip[R][u].state \in {"open", "closed"} /\ OpenIsFresh(u))'
  BY DEF OpenIsFresh, Fresh
<1>2. AdminRecords(u)'
  BY DEF AdminRecords, Fresh, Paid
<1>3. WorkerRecords(u)' /\ OneHolder(u)'
  BY DEF WorkerRecords, OneHolder, Fresh, Paid
<1>4. ConfirmsUnseen(u)'
  BY DEF ConfirmsUnseen
<1>5. Matches(u)' /\ Counted(u)'
  BY DEF Matches, Counted, Paid
<1>. QED BY <1>1, <1>2, <1>3, <1>4, <1>5 DEF LosesByFault

\* The chain closes an open bet for the execution i.
LEMMA WorkerCloses ==
  ASSUME NEW u \in Bets, NEW i \in Workers, BetInv(u), slip[R][u].state = "open",
         slip'[R][u].state = "closed",
         \/ Doing(i, u)' = "record" /\ slip'[R][u].paid = Payout(u)
         \/ Doing(i, u)' = "recordRefund" /\ slip'[R][u].paid = Stake,
         \A j \in Workers : j # i => Doing(j, u)' = Doing(j, u),
         u \notin confirming,
         UNCHANGED <<betDb, board, confirming, admin>>
  PROVE  BetInv(u)'
<1>. USE DEF BetInv
<1>0. /\ Fresh(u) /\ board[u] = 0 /\ admin.at[u] # "record"
      /\ \A j \in Workers : Doing(j, u) = "no"
  BY DEF OpenIsFresh
<1>1. OpenIsFresh(u)' /\ AdminRecords(u)'
  BY <1>0 DEF OpenIsFresh, AdminRecords
<1>2. WorkerRecords(u)' /\ OneHolder(u)'
  BY <1>0 DEF WorkerRecords, OneHolder, Fresh, Paid
<1>3. ConfirmsUnseen(u)' /\ Matches(u)' /\ Counted(u)' /\ LosesByFault(u)'
  BY <1>0 DEF ConfirmsUnseen, Matches, Counted, LosesByFault, Fresh
<1>. QED BY <1>1, <1>2, <1>3

\* The chain closes an open bet for the refund endpoint, or for nobody.
LEMMA OtherCloses ==
  ASSUME NEW u \in Bets, BetInv(u), slip[R][u].state = "open", slip'[R][u].state = "closed",
         \/ admin'.at[u] = "record" /\ slip'[R][u].paid = Stake /\ u \notin confirming
         \/ admin' = admin /\ Faulted',
         UNCHANGED <<betDb, board, confirming, w>>
  PROVE  BetInv(u)'
<1>. USE DEF BetInv
<1>0. /\ Fresh(u) /\ board[u] = 0 /\ admin.at[u] # "record"
      /\ \A j \in Workers : Doing(j, u) = "no" /\ Doing(j, u)' = "no"
  BY DEF OpenIsFresh, Doing
<1>1. OpenIsFresh(u)' /\ AdminRecords(u)' /\ WorkerRecords(u)' /\ OneHolder(u)'
  BY <1>0 DEF OpenIsFresh, AdminRecords, WorkerRecords, OneHolder, Fresh, Paid
<1>2. ConfirmsUnseen(u)'
  BY <1>0 DEF ConfirmsUnseen
<1>3. Matches(u)' /\ Counted(u)' /\ LosesByFault(u)'
  BY <1>0 DEF Matches, Counted, LosesByFault, Fresh
<1>. QED BY <1>1, <1>2, <1>3

\* The closer records the bet, and is done with it or has it still to count.
LEMMA Records ==
  ASSUME NEW u \in Bets, BetInv(u), slip' = slip, board' = board, confirming' = confirming,
         u \notin confirming, board[u] = 0, slip[R][u].state = "closed",
         \/ betDb'[u] = "REFUNDED" /\ Paid(u, Stake) /\ \A i \in Workers : Doing(i, u)' = "no"
         \/ /\ betDb'[u] = IF u \in Wins THEN "WON" ELSE "LOST"
            /\ Paid(u, Payout(u))
            /\ \E i \in Workers : /\ Doing(i, u)' = "count"
                                  /\ \A j \in Workers : j # i => Doing(j, u)' = "no",
         admin'.at[u] # "record"
  PROVE  BetInv(u)'
<1>. USE DEF BetInv
<1>1. OpenIsFresh(u)' /\ AdminRecords(u)'
  BY DEF OpenIsFresh, AdminRecords
<1>2. WorkerRecords(u)' /\ OneHolder(u)'
  BY DEF WorkerRecords, OneHolder
<1>3. ConfirmsUnseen(u)' /\ Counted(u)' /\ LosesByFault(u)'
  BY DEF ConfirmsUnseen, Counted, LosesByFault, Fresh
<1>4. Matches(u)'
  BY DEF Matches, Paid, Payout
<1>. QED BY <1>1, <1>2, <1>3, <1>4

-----------------------------------------------------------------------------
(* The steps of an execution *)

\* Execution i becomes e: what the others do stays.
LEMMA OthersKept ==
  ASSUME Typed, NEW i \in Workers, NEW e, w' = [w EXCEPT ![i] = e], NEW u \in Bets
  PROVE  /\ w'[i] = e
         /\ \A j \in Workers : j # i => w'[j] = w[j] /\ Doing(j, u)' = Doing(j, u)
  BY DEF Typed, TypeOK, Doing

\* An execution that holds no bet goes on without one, with PENDING bets at most.
LEMMA MovesOn ==
  ASSUME Typed, NEW i \in Workers, NEW e, w' = [w EXCEPT ![i] = e],
         ~ IsHeld(w[i].pc), ~ IsHeld(e.pc), e.todo \subseteq w[i].todo \cup PendingBets,
         NEW u \in Bets
  PROVE  WorkKept(u)
<1>1. w'[i] = e /\ \A j \in Workers : j # i => w'[j] = w[j] /\ Doing(j, u)' = Doing(j, u)
  BY OthersKept
<1>2. Doing(i, u)' = "no" /\ Doing(i, u) = "no"
  BY <1>1 DEF Doing
<1>3. u \in w'[i].todo => u \in w[i].todo \/ betDb[u] = "PENDING"
  BY <1>1 DEF PendingBets
<1>. QED BY <1>1, <1>2, <1>3 DEF WorkKept

\* The steps that close or record nothing.
QuietStep(i) ==
  \/ TakeJob(i) \/ Undelegate(i) \/ NoteUndelegated(i) \/ EnsureUndelegated(i)
  \/ AwaitOutcome(i) \/ EnsureBeforeRefunds(i) \/ AwaitTimesOut(i)
  \/ MarkSettled(i) \/ CloseRound(i) \/ LoadRefunds(i) \/ MarkFailed(i)

LEMMA QuietMoves ==
  ASSUME Typed, NEW i \in Workers, QuietStep(i)
  PROVE  \E e : /\ w' = [w EXCEPT ![i] = e]
                /\ ~ IsHeld(w[i].pc) /\ ~ IsHeld(e.pc)
                /\ e.todo \subseteq w[i].todo \cup PendingBets
<1>. USE DEF IsHeld
<1>0. /\ Idle.pc = "idle" /\ Idle.todo = {}
      /\ \A pc : [w[i] EXCEPT !.pc = pc].pc = pc /\ [w[i] EXCEPT !.pc = pc].todo = w[i].todo
  BY DEF Idle, Typed, TypeOK
<1>1. CASE TakeJob(i)
  BY ZenonT(60), <1>0, <1>1 DEF TakeJob
<1>2. ASSUME NEW pc \in WorkerPc, ~ IsHeld(pc), ~ IsHeld(w[i].pc), Goto(i, pc)
      PROVE  \E e : /\ w' = [w EXCEPT ![i] = e]
                    /\ ~ IsHeld(w[i].pc) /\ ~ IsHeld(e.pc)
                    /\ e.todo \subseteq w[i].todo \cup PendingBets
  <2>. DEFINE e == [w[i] EXCEPT !.pc = pc]
  <2>1. e.pc = pc /\ e.todo = w[i].todo /\ w' = [w EXCEPT ![i] = e]
    BY <1>0, <1>2 DEF Goto
  <2>. HIDE DEF e
  <2>. QED BY <1>2, <2>1
<1>3. ASSUME ~ IsHeld(w[i].pc), Return(i) \/ Throw(i)
      PROVE  \E e : /\ w' = [w EXCEPT ![i] = e]
                    /\ ~ IsHeld(w[i].pc) /\ ~ IsHeld(e.pc)
                    /\ e.todo \subseteq w[i].todo \cup PendingBets
  BY <1>0, <1>3 DEF Return, Throw
<1>4. CASE Undelegate(i) \/ NoteUndelegated(i) \/ EnsureUndelegated(i)
  BY <1>2, <1>3, <1>4 DEF Undelegate, NoteUndelegated, EnsureUndelegated, WorkerPc
<1>5. CASE AwaitOutcome(i) \/ EnsureBeforeRefunds(i) \/ AwaitTimesOut(i)
  BY <1>2, <1>3, <1>5 DEF AwaitOutcome, EnsureBeforeRefunds, Wait, AwaitTimesOut, WorkerPc
<1>6. CASE MarkSettled(i) \/ CloseRound(i) \/ MarkFailed(i)
  BY <1>2, <1>3, <1>6 DEF MarkSettled, CloseRound, MarkFailed, WorkerPc
<1>7. CASE LoadRefunds(i)
  <2>1. CASE PendingBets # {}
    BY <1>0, <1>7, <2>1 DEF LoadRefunds
  <2>2. CASE PendingBets = {}
    BY <1>3, <1>7, <2>2 DEF LoadRefunds
  <2>. QED BY <2>1, <2>2
<1>. QED BY <1>1, <1>4, <1>5, <1>6, <1>7 DEF QuietStep

LEMMA QuietKeeps ==
  ASSUME SettlementInv, NEW i \in Workers, QuietStep(i)
  PROVE  Quiet' /\ \A u \in Bets : BetInv(u)'
<1>. USE DEF SettlementInv
<1>1. /\ UNCHANGED <<slip, betDb, board, confirming, admin>>
      /\ \/ faults' = faults /\ limbo' = limbo
         \/ faults' = [faults EXCEPT !["timeouts"] = @ + 1]
         \/ faults' = [faults EXCEPT !["rollup"] = @ + 1] /\ limbo' = limbo
  BY DEF QuietStep, TakeJob, Undelegate, NoteUndelegated, EnsureUndelegated, AwaitOutcome,
     EnsureBeforeRefunds, Wait, AwaitTimesOut, MarkSettled, CloseRound, LoadRefunds,
     MarkFailed, chain, db, Fault, GiveUp, Chain!SettleBook
<1>2. FaultsKept /\ faults'.timeouts >= faults.timeouts
  BY <1>1 DEF FaultsKept, Faulted, Typed, FaultsOK
<1>3. Quiet'
  BY <1>1, <1>2 DEF Quiet, Typed, FaultsOK
<1>4. ASSUME NEW u \in Bets
      PROVE  BetInv(u)'
  <2>1. WorkKept(u)
    BY QuietMoves, MovesOn
  <2>2. BetKept(u) /\ AdminKept(u) /\ confirming' \subseteq confirming
    BY <1>1 DEF BetKept, AdminKept
  <2>. QED BY <1>2, <2>1, <2>2, Kept
<1>. QED BY <1>3, <1>4

\* A transaction that is executed closes its bet only.
LEMMA ClosesOne ==
  ASSUME SettlementInv, NEW v \in Bets, NEW tx \in Tx, tx.bet = v, Execute(tx)
  PROVE  /\ slip[R][v].state = "open" /\ slip'[R][v].state = "closed"
         /\ slip'[R][v].paid = Amount(tx)
         /\ \A u \in Bets : u # v => slip'[R][u] = slip[R][u]
  BY ExecuteCloses DEF SettlementInv, Typed

LEMMA Amounts ==
  ASSUME NEW v \in Bets
  PROVE  /\ Settle(v).bet = v /\ Amount(Settle(v)) = Payout(v)
         /\ Refund(v).bet = v /\ Amount(Refund(v)) = Stake
  BY DEF Settle, Refund, Amount

LEMMA GiveUpKeeps ==
  ASSUME SettlementInv, NEW tx, GiveUp(tx), admin'.pc = admin.pc,
         \A u \in Bets : admin.at[u] = "done" => admin'.at[u] = "done"
  PROVE  Quiet' /\ FaultsKept /\ slip' = slip
  BY DEF SettlementInv, Quiet, GiveUp, Fault, FaultsKept, Faulted, Typed, FaultsOK, chain

\* Execution i has the bet v closed and is to record it.
LEMMA TakesBet ==
  ASSUME Typed, NEW i \in Workers, NEW v \in Bets, ~ IsHeld(w[i].pc),
         NEW pc \in {"record", "recordRefund"},
         w' = [w EXCEPT ![i].pc = pc, ![i].cur = v]
  PROVE  \A u \in Bets : /\ \A j \in Workers : j # i => w'[j] = w[j] /\ Doing(j, u)' = Doing(j, u)
                         /\ Doing(i, u)' = IF u = v THEN pc ELSE "no"
                         /\ Doing(i, u) = "no" /\ w'[i].todo = w[i].todo
<1>. DEFINE e == [w[i] EXCEPT !.pc = pc, !.cur = v]
<1>0. w[i] \in Execution
  BY DEF Typed, TypeOK, Execution, WorkerPc
<1>1. w' = [w EXCEPT ![i] = e]
  OBVIOUS
<1>2. e.pc = pc /\ e.cur = v /\ e.todo = w[i].todo
  BY <1>0 DEF Execution
<1>. HIDE DEF e
<1>3. ASSUME NEW u \in Bets
      PROVE  /\ \A j \in Workers : j # i => w'[j] = w[j] /\ Doing(j, u)' = Doing(j, u)
             /\ w'[i] = e
  BY <1>1, OthersKept
<1>4. ASSUME NEW u \in Bets
      PROVE  Doing(i, u)' = (IF u = v THEN pc ELSE "no") /\ Doing(i, u) = "no"
  BY <1>2, <1>3 DEF Doing, IsHeld
<1>. QED BY <1>2, <1>3, <1>4

LEMMA SettleKeeps ==
  ASSUME SettlementInv, NEW i \in Workers, NEW v \in Bets, SettleNext(i, v)
  PROVE  Quiet' /\ \A u \in Bets : BetInv(u)'
<1>. USE DEF SettlementInv
<1>0. w[i].pc = "settle" /\ v \in w[i].todo /\ UNCHANGED <<betDb, board, confirming, admin>>
  BY DEF SettleNext, db
<1>1. CASE Execute(Settle(v)) /\ w' = [w EXCEPT ![i].pc = "record", ![i].cur = v]
           /\ UNCHANGED <<limbo, faults>>
  <2>2. \A u \in Bets : /\ \A j \in Workers : j # i => w'[j] = w[j] /\ Doing(j, u)' = Doing(j, u)
                        /\ Doing(i, u)' = IF u = v THEN "record" ELSE "no"
                        /\ Doing(i, u) = "no" /\ w'[i].todo = w[i].todo
    BY <1>0, <1>1, TakesBet DEF IsHeld
  <2>3. /\ slip[R][v].state = "open" /\ slip'[R][v].state = "closed"
        /\ slip'[R][v].paid = Payout(v)
        /\ \A u \in Bets : u # v => slip'[R][u] = slip[R][u]
    BY <1>1, ClosesOne, ParamsOK, Amounts
  <2>4. Quiet'
    BY <1>0, <1>1 DEF Quiet
  <2>5. BetInv(v)'
    <3>1. v \notin confirming
      BY <1>0 DEF BetInv, ConfirmsUnseen
    <3>. QED BY <1>0, <2>2, <2>3, <3>1, WorkerCloses
  <2>6. ASSUME NEW u \in Bets, u # v
        PROVE  BetInv(u)'
    <3>1. WorkKept(u) /\ BetKept(u) /\ AdminKept(u) /\ FaultsKept
      BY <1>0, <1>1, <2>2, <2>3, <2>6 DEF WorkKept, BetKept, AdminKept, FaultsKept, Faulted
    <3>. QED BY <1>0, <3>1, Kept
  <2>. QED BY <2>4, <2>5, <2>6
<1>2. CASE /\ Goto(i, "loadRefunds") /\ UNCHANGED <<chain, limbo>>
           /\ faults' = faults \/ faults' = [faults EXCEPT !["timeouts"] = @ + 1]
  <2>. DEFINE e == [w[i] EXCEPT !.pc = "loadRefunds"]
  <2>1. w' = [w EXCEPT ![i] = e] /\ e.pc = "loadRefunds" /\ e.todo = w[i].todo
    BY <1>2 DEF Goto, Typed, TypeOK
  <2>. HIDE DEF e
  <2>2. \A u \in Bets : WorkKept(u)
    BY <1>0, <2>1, MovesOn DEF IsHeld
  <2>3. \A u \in Bets : BetKept(u) /\ AdminKept(u)
    BY <1>0, <1>2 DEF BetKept, AdminKept, chain
  <2>4. FaultsKept /\ Quiet'
    BY <1>0, <1>2 DEF FaultsKept, Faulted, Quiet, Typed, FaultsOK
  <2>. QED BY <1>0, <2>2, <2>3, <2>4, Kept
<1>3. CASE GiveUp(Settle(v)) /\ Throw(i)
  <2>1. \A u \in Bets : WorkKept(u)
    BY <1>0, <1>3, MovesOn DEF Throw, Idle, IsHeld
  <2>2. Quiet' /\ FaultsKept /\ slip' = slip
    BY <1>0, <1>3, GiveUpKeeps
  <2>3. \A u \in Bets : BetKept(u) /\ AdminKept(u)
    BY <1>0, <2>2 DEF BetKept, AdminKept
  <2>. QED BY <1>0, <2>1, <2>2, <2>3, Kept
<1>. QED BY <1>1, <1>2, <1>3 DEF SettleNext, Fault

LEMMA RefundKeeps ==
  ASSUME SettlementInv, NEW i \in Workers, NEW v \in Bets, RefundNext(i, v)
  PROVE  Quiet' /\ \A u \in Bets : BetInv(u)'
<1>. USE DEF SettlementInv
<1>0. w[i].pc = "refund" /\ v \in w[i].todo /\ UNCHANGED <<betDb, board, confirming, admin>>
  BY DEF RefundNext, db
<1>1. CASE Execute(Refund(v)) /\ w' = [w EXCEPT ![i].pc = "recordRefund", ![i].cur = v]
           /\ UNCHANGED <<limbo, faults>>
  <2>2. \A u \in Bets : /\ \A j \in Workers : j # i => w'[j] = w[j] /\ Doing(j, u)' = Doing(j, u)
                        /\ Doing(i, u)' = IF u = v THEN "recordRefund" ELSE "no"
                        /\ Doing(i, u) = "no" /\ w'[i].todo = w[i].todo
    BY <1>0, <1>1, TakesBet DEF IsHeld
  <2>3. /\ slip[R][v].state = "open" /\ slip'[R][v].state = "closed"
        /\ slip'[R][v].paid = Stake
        /\ \A u \in Bets : u # v => slip'[R][u] = slip[R][u]
    BY <1>1, ClosesOne, ParamsOK, Amounts
  <2>4. Quiet'
    BY <1>0, <1>1 DEF Quiet
  <2>5. BetInv(v)'
    <3>1. v \notin confirming
      BY <1>0 DEF BetInv, ConfirmsUnseen
    <3>. QED BY <1>0, <2>2, <2>3, <3>1, WorkerCloses
  <2>6. ASSUME NEW u \in Bets, u # v
        PROVE  BetInv(u)'
    <3>1. WorkKept(u) /\ BetKept(u) /\ AdminKept(u) /\ FaultsKept
      BY <1>0, <1>1, <2>2, <2>3, <2>6 DEF WorkKept, BetKept, AdminKept, FaultsKept, Faulted
    <3>. QED BY <1>0, <3>1, Kept
  <2>. QED BY <2>4, <2>5, <2>6
<1>2. CASE /\ w' = [w EXCEPT ![i].todo = @ \ {v}]
           /\ GiveUp(Refund(v)) \/ UNCHANGED <<chain, limbo, faults>>
  <2>. DEFINE e == [w[i] EXCEPT !.todo = @ \ {v}]
  <2>1. w' = [w EXCEPT ![i] = e] /\ e.pc = "refund" /\ e.todo \subseteq w[i].todo
    BY <1>0, <1>2 DEF Typed, TypeOK
  <2>. HIDE DEF e
  <2>2. \A u \in Bets : WorkKept(u)
    BY <1>0, <2>1, MovesOn DEF IsHeld
  <2>3. Quiet' /\ FaultsKept /\ slip' = slip
    <3>1. CASE GiveUp(Refund(v))
      BY <1>0, <3>1, GiveUpKeeps
    <3>2. CASE UNCHANGED <<chain, limbo, faults>>
      BY <1>0, <3>2 DEF FaultsKept, Faulted, Quiet, chain
    <3>. QED BY <1>2, <3>1, <3>2
  <2>4. \A u \in Bets : BetKept(u) /\ AdminKept(u)
    BY <1>0, <2>3 DEF BetKept, AdminKept
  <2>. QED BY <1>0, <2>2, <2>3, <2>4, Kept
<1>. QED BY <1>1, <1>2 DEF RefundNext

\* Execution i is done with its bet v: it does nothing of v any more, or pc.
LEMMA LeavesBet ==
  ASSUME NEW i \in Workers, NEW v \in Bets, w[i].cur = v, IsHeld(w[i].pc),
         \A j \in Workers : j # i => w'[j] = w[j],
         w'[i].todo \subseteq w[i].todo, IsHeld(w'[i].pc) => w'[i].cur = v
  PROVE  /\ \A u \in Bets : u # v => WorkKept(u)
         /\ \A j \in Workers : j # i => Doing(j, v)' = Doing(j, v)
         /\ Doing(i, v) = w[i].pc
         /\ Doing(i, v)' = IF IsHeld(w'[i].pc) THEN w'[i].pc ELSE "no"
<1>1. \A u \in Bets, j \in Workers : j # i => Doing(j, u)' = Doing(j, u)
  BY DEF Doing
<1>2. Doing(i, v) = w[i].pc /\ Doing(i, v)' = IF IsHeld(w'[i].pc) THEN w'[i].pc ELSE "no"
  BY DEF Doing
<1>3. \A u \in Bets : u # v => Doing(i, u)' = "no" /\ Doing(i, u) = "no"
  BY DEF Doing
<1>4. \A u \in Bets : u # v => WorkKept(u)
  BY <1>1, <1>3 DEF WorkKept
<1>. QED BY <1>1, <1>2, <1>4

\* The bet an execution holds is its own.
LEMMA HoldsAlone ==
  ASSUME NEW i \in Workers, NEW v \in Bets, BetInv(v), Doing(i, v) # "no"
  PROVE  /\ \A j \in Workers : j # i => Doing(j, v) = "no"
         /\ slip[R][v].state = "closed" /\ admin.at[v] # "record" /\ v \notin confirming
  BY DEF BetInv, OneHolder, OpenIsFresh, AdminRecords, ConfirmsUnseen

LEMMA RecordKeeps ==
  ASSUME SettlementInv, NEW i \in Workers, RecordResult(i) \/ RecordRefund(i)
  PROVE  Quiet' /\ \A u \in Bets : BetInv(u)'
<1>. USE DEF SettlementInv
<1>. PICK v \in Bets : v = w[i].cur
  BY DEF RecordResult, RecordRefund, Typed, TypeOK, CursorsOK, IsHeld
<1>. DEFINE e == IF w[i].pc = "record" THEN [w[i] EXCEPT !.pc = "count"]
                   ELSE [pc |-> "refund", todo |-> w[i].todo \ {v}, cur |-> None]
<1>0. /\ w[i] \in Execution /\ w[i].pc \in {"record", "recordRefund"}
      /\ UNCHANGED <<slip, limbo, board, confirming, admin, faults>>
  BY DEF RecordResult, RecordRefund, Typed, TypeOK, Execution, WorkerPc, CursorsOK, IsHeld, chain
<1>1. /\ w' = [w EXCEPT ![i] = e] /\ e.todo \subseteq w[i].todo /\ (IsHeld(e.pc) => e.cur = v)
      /\ e.pc = IF w[i].pc = "record" THEN "count" ELSE "refund"
  BY <1>0 DEF RecordResult, RecordRefund, Goto, Execution, IsHeld
<1>2. betDb' = [betDb EXCEPT ![v] = IF w[i].pc = "recordRefund" THEN "REFUNDED"
                                      ELSE IF v \in Wins THEN "WON" ELSE "LOST"]
  BY DEF RecordResult, RecordRefund
<1>. HIDE DEF e
<1>3. /\ \A u \in Bets : u # v => WorkKept(u)
      /\ \A j \in Workers : j # i => Doing(j, v)' = Doing(j, v)
      /\ Doing(i, v) = w[i].pc
      /\ Doing(i, v)' = IF w[i].pc = "record" THEN "count" ELSE "no"
  <2>1. w[i].cur = v /\ IsHeld(w[i].pc)
    BY <1>0 DEF IsHeld
  <2>2. w'[i] = e /\ \A j \in Workers : j # i => w'[j] = w[j]
    BY <1>1 DEF Typed, TypeOK
  <2>3. w'[i].todo \subseteq w[i].todo /\ (IsHeld(w'[i].pc) => w'[i].cur = v)
    BY <1>1, <2>2 DEF IsHeld
  <2>4. /\ \A u \in Bets : u # v => WorkKept(u)
        /\ \A j \in Workers : j # i => Doing(j, v)' = Doing(j, v)
        /\ Doing(i, v) = w[i].pc
        /\ Doing(i, v)' = IF IsHeld(w'[i].pc) THEN w'[i].pc ELSE "no"
    BY <2>1, <2>2, <2>3, LeavesBet
  <2>. QED BY <1>0, <1>1, <2>2, <2>4 DEF IsHeld
<1>4. Quiet'
  BY <1>0 DEF Quiet
<1>5. BetInv(v)'
  <2>1. /\ \A j \in Workers : j # i => Doing(j, v) = "no"
        /\ slip[R][v].state = "closed" /\ admin.at[v] # "record" /\ v \notin confirming
    BY <1>0, <1>3, HoldsAlone
  <2>2. /\ board[v] = 0 /\ Paid(v, IF w[i].pc = "record" THEN Payout(v) ELSE Stake)
    BY <1>0, <1>3 DEF BetInv, WorkerRecords
  <2>3. betDb'[v] = IF w[i].pc = "recordRefund" THEN "REFUNDED"
                      ELSE IF v \in Wins THEN "WON" ELSE "LOST"
    BY <1>0, <1>2 DEF Typed, TypeOK
  <2>. QED BY <1>0, <1>3, <2>1, <2>2, <2>3, Records
<1>6. ASSUME NEW u \in Bets, u # v
      PROVE  BetInv(u)'
  <2>1. BetKept(u) /\ AdminKept(u) /\ FaultsKept
    BY <1>0, <1>2, <1>6 DEF BetKept, AdminKept, FaultsKept, Faulted, Typed, TypeOK
  <2>. QED BY <1>0, <1>3, <1>6, <2>1, Kept
<1>. QED BY <1>4, <1>5, <1>6

LEMMA CountKeeps ==
  ASSUME SettlementInv, NEW i \in Workers, CountResult(i)
  PROVE  Quiet' /\ \A u \in Bets : BetInv(u)'
<1>. USE DEF SettlementInv
<1>. PICK v \in Bets : v = w[i].cur
  BY DEF CountResult, Typed, TypeOK, CursorsOK, IsHeld
<1>. DEFINE e == [pc |-> "settle", todo |-> w[i].todo \ {v}, cur |-> None]
<1>0. /\ w[i].pc = "count"
      /\ UNCHANGED <<slip, limbo, betDb, confirming, admin, faults>>
  BY DEF CountResult, Typed, TypeOK, CursorsOK, IsHeld, chain
<1>1. w' = [w EXCEPT ![i] = e] /\ e.todo \subseteq w[i].todo /\ e.pc = "settle"
  BY <1>0 DEF CountResult
<1>2. board' = [board EXCEPT ![v] = @ + 1]
  BY DEF CountResult
<1>. HIDE DEF e
<1>3. /\ \A u \in Bets : u # v => WorkKept(u)
      /\ \A j \in Workers : j # i => Doing(j, v)' = Doing(j, v)
      /\ Doing(i, v) = "count" /\ Doing(i, v)' = "no"
  <2>1. w[i].cur = v /\ IsHeld(w[i].pc)
    BY <1>0 DEF IsHeld
  <2>2. w'[i] = e /\ \A j \in Workers : j # i => w'[j] = w[j]
    BY <1>1 DEF Typed, TypeOK
  <2>3. w'[i].todo \subseteq w[i].todo /\ (IsHeld(w'[i].pc) => w'[i].cur = v)
    BY <1>1, <2>2 DEF IsHeld
  <2>4. /\ \A u \in Bets : u # v => WorkKept(u)
        /\ \A j \in Workers : j # i => Doing(j, v)' = Doing(j, v)
        /\ Doing(i, v) = w[i].pc
        /\ Doing(i, v)' = IF IsHeld(w'[i].pc) THEN w'[i].pc ELSE "no"
    BY <2>1, <2>2, <2>3, LeavesBet
  <2>. QED BY <1>0, <1>1, <2>2, <2>4 DEF IsHeld
<1>4. Quiet'
  BY <1>0 DEF Quiet
<1>5. BetInv(v)'
  <2>1. /\ \A j \in Workers : Doing(j, v)' = "no"
        /\ slip[R][v].state = "closed" /\ admin.at[v] # "record" /\ v \notin confirming
    BY <1>0, <1>3, HoldsAlone
  <2>2. betDb[v] \in {"WON", "LOST"} /\ board'[v] = 1
    BY <1>0, <1>2, <1>3 DEF BetInv, WorkerRecords, Typed, TypeOK
  <2>3. OpenIsFresh(v)' /\ AdminRecords(v)' /\ WorkerRecords(v)' /\ OneHolder(v)'
    BY <1>0, <2>1 DEF OpenIsFresh, AdminRecords, WorkerRecords, OneHolder
  <2>4. ConfirmsUnseen(v)' /\ Counted(v)' /\ LosesByFault(v)'
    BY <1>0, <2>1, <2>2 DEF ConfirmsUnseen, Counted, LosesByFault, Fresh
  <2>5. Matches(v)'
    BY <1>0 DEF BetInv, Matches, Paid
  <2>. QED BY <1>0, <2>1, <2>3, <2>4, <2>5 DEF BetInv
<1>6. ASSUME NEW u \in Bets, u # v
      PROVE  BetInv(u)'
  <2>1. BetKept(u) /\ AdminKept(u) /\ FaultsKept
    BY <1>0, <1>2, <1>6 DEF BetKept, AdminKept, FaultsKept, Faulted, Typed, TypeOK
  <2>. QED BY <1>0, <1>3, <1>6, <2>1, Kept
<1>. QED BY <1>4, <1>5, <1>6

\* A write that fails leaves the bet to nobody.
LEMMA StoreFailKeeps ==
  ASSUME SettlementInv, NEW i \in Workers, StoreFails(i)
  PROVE  Quiet' /\ \A u \in Bets : BetInv(u)'
<1>. USE DEF SettlementInv
<1>0. UNCHANGED <<slip, limbo, betDb, board, confirming, admin>>
  BY DEF StoreFails, chain, db
<1>1. Faulted' /\ faults'.timeouts = faults.timeouts
  BY DEF StoreFails, Fault, Faulted, Typed, FaultsOK
<1>2. ASSUME NEW u \in Bets, NEW j \in Workers
      PROVE  Doing(j, u)' \in {Doing(j, u), "no"} /\ w'[j].todo \subseteq w[j].todo
  <2>1. Idle.todo = {} /\ ~ IsHeld(Idle.pc) /\ w' = [w EXCEPT ![i] = Idle]
    BY DEF StoreFails, Throw, Idle, IsHeld
  <2>2. w'[i] = Idle /\ (j # i => w'[j] = w[j] /\ Doing(j, u)' = Doing(j, u))
    BY <2>1, OthersKept
  <2>. QED BY <2>1, <2>2 DEF Doing
<1>3. Quiet'
  BY <1>0, <1>1 DEF Quiet
<1>4. ASSUME NEW u \in Bets
      PROVE  BetInv(u)'
  <2>1. BetKept(u)
    BY <1>0 DEF BetKept
  <2>. QED BY <1>0, <1>1, <1>2, <2>1, Dropped
<1>. QED BY <1>3, <1>4

-----------------------------------------------------------------------------
(* The steps of the refund endpoint *)

LEMMA RequestKeeps ==
  ASSUME SettlementInv, RequestRefunds
  PROVE  Quiet' /\ \A u \in Bets : BetInv(u)'
<1>. USE DEF SettlementInv
<1>0. UNCHANGED <<slip, limbo, betDb, board, confirming, w>> /\ FaultsKept
      /\ faults'.timeouts = faults.timeouts
  BY DEF RequestRefunds, chain, db, Fault, FaultsKept, Faulted, Typed, FaultsOK
<1>1. Quiet'
  BY <1>0 DEF Quiet, RequestRefunds
<1>2. ASSUME NEW u \in Bets
      PROVE  BetInv(u)'
  <2>1. AdminKept(u)
    BY DEF AdminKept, RequestRefunds, Quiet
  <2>2. BetKept(u) /\ WorkKept(u)
    BY <1>0 DEF BetKept, WorkKept, Doing
  <2>. QED BY <1>0, <2>1, <2>2, Kept
<1>. QED BY <1>1, <1>2

LEMMA AdminRefundKeeps ==
  ASSUME SettlementInv, NEW v \in Bets, AdminRefund(v)
  PROVE  Quiet' /\ \A u \in Bets : BetInv(u)'
<1>. USE DEF SettlementInv
<1>0. admin.at[v] = "refund" /\ UNCHANGED <<betDb, board, confirming, w>>
  BY DEF AdminRefund, db
<1>1. CASE Execute(Refund(v)) /\ admin' = [admin EXCEPT !.at[v] = "record"]
           /\ UNCHANGED <<limbo, faults>>
  <2>1. /\ admin'.pc = admin.pc /\ admin'.at[v] = "record"
        /\ \A u \in Bets : u # v => admin'.at[u] = admin.at[u]
    BY <1>1 DEF Typed, TypeOK
  <2>2. /\ slip[R][v].state = "open" /\ slip'[R][v].state = "closed"
        /\ slip'[R][v].paid = Stake
        /\ \A u \in Bets : u # v => slip'[R][u] = slip[R][u]
    BY <1>1, ClosesOne, ParamsOK, Amounts
  <2>3. Quiet'
    BY <1>0, <1>1, <2>1 DEF Quiet
  <2>4. BetInv(v)'
    <3>1. v \notin confirming
      BY <1>0 DEF BetInv, ConfirmsUnseen
    <3>. QED BY <1>0, <2>1, <2>2, <3>1, OtherCloses
  <2>5. ASSUME NEW u \in Bets, u # v
        PROVE  BetInv(u)'
    <3>1. WorkKept(u) /\ BetKept(u) /\ AdminKept(u) /\ FaultsKept
      BY <1>0, <1>1, <2>1, <2>2, <2>5 DEF WorkKept, Doing, BetKept, AdminKept, FaultsKept, Faulted
    <3>. QED BY <1>0, <3>1, Kept
  <2>. QED BY <2>3, <2>4, <2>5
<1>2. CASE /\ admin' = [admin EXCEPT !.at[v] = "done"]
           /\ GiveUp(Refund(v)) \/ UNCHANGED <<chain, limbo, faults>>
  <2>1. /\ admin'.pc = admin.pc /\ admin'.at[v] = "done"
        /\ \A u \in Bets : u # v => admin'.at[u] = admin.at[u]
    BY <1>2 DEF Typed, TypeOK
  <2>2. Quiet' /\ FaultsKept /\ slip' = slip
    <3>1. CASE GiveUp(Refund(v))
      BY <2>1, <3>1, GiveUpKeeps
    <3>2. CASE UNCHANGED <<chain, limbo, faults>>
      BY <2>1, <3>2 DEF FaultsKept, Faulted, Quiet, chain
    <3>. QED BY <1>2, <3>1, <3>2
  <2>3. \A u \in Bets : WorkKept(u) /\ BetKept(u) /\ AdminKept(u)
    BY <1>0, <2>1, <2>2 DEF WorkKept, Doing, BetKept, AdminKept
  <2>. QED BY <1>0, <2>2, <2>3, Kept
<1>. QED BY <1>1, <1>2 DEF AdminRefund

LEMMA AdminRecordKeeps ==
  ASSUME SettlementInv, NEW v \in Bets, AdminRecord(v)
  PROVE  Quiet' /\ \A u \in Bets : BetInv(u)'
<1>. USE DEF SettlementInv
<1>0. admin.at[v] = "record" /\ UNCHANGED <<slip, limbo, board, confirming, w, faults>>
  BY DEF AdminRecord, chain
<1>1. /\ admin'.pc = admin.pc /\ admin'.at[v] = "done"
      /\ \A u \in Bets : u # v => admin'.at[u] = admin.at[u]
      /\ betDb'[v] = "REFUNDED" /\ \A u \in Bets : u # v => betDb'[u] = betDb[u]
  BY DEF AdminRecord, Typed, TypeOK
<1>2. Quiet'
  BY <1>0, <1>1 DEF Quiet
<1>3. BetInv(v)'
  <2>1. /\ board[v] = 0 /\ Paid(v, Stake) /\ v \notin confirming
        /\ \A i \in Workers : Doing(i, v)' = "no"
    BY <1>0 DEF BetInv, AdminRecords, ConfirmsUnseen, Doing
  <2>. QED BY <1>0, <1>1, <2>1, Records DEF Paid
<1>4. ASSUME NEW u \in Bets, u # v
      PROVE  BetInv(u)'
  <2>1. WorkKept(u) /\ BetKept(u) /\ AdminKept(u) /\ FaultsKept
    BY <1>0, <1>1, <1>4 DEF WorkKept, Doing, BetKept, AdminKept, FaultsKept, Faulted
  <2>. QED BY <1>0, <2>1, Kept
<1>. QED BY <1>2, <1>3, <1>4

LEMMA AdminFailKeeps ==
  ASSUME SettlementInv, NEW v \in Bets, AdminStoreFails(v)
  PROVE  Quiet' /\ \A u \in Bets : BetInv(u)'
<1>. USE DEF SettlementInv
<1>0. UNCHANGED <<slip, limbo, betDb, board, confirming, w>>
  BY DEF AdminStoreFails, chain, db
<1>1. Faulted' /\ faults'.timeouts = faults.timeouts
  BY DEF AdminStoreFails, Fault, Faulted, Typed, FaultsOK
<1>2. admin'.pc = "thrown" /\ \A u \in Bets : admin'.at[u] \in {admin.at[u], "done"}
  BY DEF AdminStoreFails, Typed, TypeOK
<1>3. Quiet'
  BY <1>0, <1>1, <1>2 DEF Quiet
<1>4. ASSUME NEW u \in Bets
      PROVE  BetInv(u)'
  <2>1. BetKept(u) /\ \A j \in Workers : Doing(j, u)' = Doing(j, u)
    BY <1>0 DEF BetKept, Doing
  <2>. QED BY <1>0, <1>1, <1>2, <2>1, Dropped
<1>. QED BY <1>3, <1>4

-----------------------------------------------------------------------------
(* The other steps *)

\* Nothing of the bets changes: the end of a request, an undelegation, a
\* transaction that expires, a stalled job.
LEMMA IdleKeeps ==
  ASSUME SettlementInv,
         AdminEnd \/ Undelegated \/ Stall \/ UNCHANGED vars \/ \E tx : Expire(tx)
  PROVE  Quiet' /\ \A u \in Bets : BetInv(u)'
<1>. USE DEF SettlementInv
<1>1. /\ UNCHANGED <<slip, betDb, board, confirming, w, faults>> /\ limbo' \subseteq limbo
      /\ admin' = admin \/ (admin' = NoRequest /\ \A u \in Bets : admin.at[u] = "done")
  BY DEF AdminEnd, Undelegated, Stall, Expire, vars, chain, db
<1>2. Quiet'
  BY <1>1 DEF Quiet, NoRequest
<1>3. \A u \in Bets : WorkKept(u) /\ BetKept(u) /\ AdminKept(u) /\ FaultsKept
  BY <1>1 DEF WorkKept, Doing, BetKept, AdminKept, FaultsKept, Faulted, NoRequest
<1>. QED BY <1>1, <1>2, <1>3, Kept

LEMMA LandKeeps ==
  ASSUME SettlementInv, NEW tx \in Tx, Land(tx), Execute(tx)
  PROVE  Quiet' /\ \A u \in Bets : BetInv(u)'
<1>. USE DEF SettlementInv
<1>. DEFINE v == tx.bet
<1>0. /\ v \in Bets /\ tx \in limbo /\ limbo' = limbo \ {tx} /\ Execute(tx)
      /\ UNCHANGED <<betDb, board, confirming, w, admin, faults>>
  BY DEF Land, Tx, db
<1>1. Faulted'
  BY <1>0 DEF Quiet, Faulted, Typed, FaultsOK
<1>2. /\ slip[R][v].state = "open" /\ slip'[R][v].state = "closed"
      /\ \A u \in Bets : u # v => slip'[R][u] = slip[R][u]
  BY <1>0, ClosesOne
<1>. HIDE DEF v
<1>3. Quiet'
  BY <1>0 DEF Quiet
<1>4. BetInv(v)'
  BY <1>0, <1>1, <1>2, OtherCloses
<1>5. ASSUME NEW u \in Bets, u # v
      PROVE  BetInv(u)'
  <2>1. WorkKept(u) /\ BetKept(u) /\ AdminKept(u) /\ FaultsKept
    BY <1>0, <1>1, <1>2, <1>5 DEF WorkKept, Doing, BetKept, AdminKept, FaultsKept, Faulted
  <2>. QED BY <1>0, <2>1, Kept
<1>. QED BY <1>3, <1>4, <1>5

\* settle_round lands late.
LEMMA CloseLands ==
  ASSUME SettlementInv, NEW tx, tx \in limbo, limbo' = limbo \ {tx}, Chain!SettleBook(R),
         UNCHANGED <<db, confirming, w, admin, faults>>
  PROVE  Quiet' /\ \A u \in Bets : BetInv(u)'
<1>1. UNCHANGED slip
  BY DEF Chain!SettleBook
<1>2. Quiet'
  BY DEF SettlementInv, Quiet
<1>3. \A u \in Bets : WorkKept(u) /\ BetKept(u) /\ AdminKept(u) /\ FaultsKept
  BY <1>1 DEF WorkKept, Doing, BetKept, AdminKept, FaultsKept, Faulted, db
<1>. QED BY <1>2, <1>3, Kept DEF SettlementInv, db

\* A confirmation makes a bet PENDING, and nobody else had it.
LEMMA ConfirmKeeps ==
  ASSUME SettlementInv, NEW v \in Bets, ConfirmBet(v)
  PROVE  Quiet' /\ \A u \in Bets : BetInv(u)'
<1>. USE DEF SettlementInv
<1>0. /\ v \in confirming /\ confirming' = confirming \ {v}
      /\ UNCHANGED <<slip, limbo, board, w, admin, faults>>
  BY DEF ConfirmBet, chain
<1>1. betDb'[v] = "PENDING" /\ \A u \in Bets : u # v => betDb'[u] = betDb[u]
  BY DEF ConfirmBet, Typed, TypeOK
<1>2. Quiet'
  BY <1>0 DEF Quiet
<1>3. BetInv(v)'
  <2>1. /\ betDb[v] = "none" /\ admin.at[v] = "done" /\ v \notin confirming'
        /\ \A i \in Workers : Doing(i, v) = "no" /\ Doing(i, v)' = "no"
    BY <1>0 DEF BetInv, ConfirmsUnseen, Doing
  <2>2. OpenIsFresh(v)' /\ AdminRecords(v)' /\ WorkerRecords(v)' /\ OneHolder(v)'
    BY <1>0, <1>1, <2>1 DEF BetInv, OpenIsFresh, AdminRecords, WorkerRecords, OneHolder, Fresh
  <2>3. ConfirmsUnseen(v)' /\ Matches(v)'
    BY <1>0, <1>1, <2>1 DEF ConfirmsUnseen, Matches
  <2>4. Counted(v)' /\ LosesByFault(v)'
    BY <1>0, <1>1, <2>1 DEF BetInv, Counted, LosesByFault, Fresh, Faulted
  <2>. QED BY <1>0, <2>2, <2>3, <2>4 DEF BetInv
<1>4. ASSUME NEW u \in Bets, u # v
      PROVE  BetInv(u)'
  <2>1. WorkKept(u) /\ BetKept(u) /\ AdminKept(u) /\ FaultsKept
    BY <1>0, <1>1, <1>4 DEF WorkKept, Doing, BetKept, AdminKept, FaultsKept, Faulted
  <2>. QED BY <1>0, <2>1, Kept
<1>. QED BY <1>2, <1>3, <1>4

LEMMA CrashKeeps ==
  ASSUME SettlementInv, Crash
  PROVE  Quiet' /\ \A u \in Bets : BetInv(u)'
<1>. USE DEF SettlementInv
<1>0. /\ UNCHANGED <<slip, limbo, betDb, board>> /\ confirming' = {}
      /\ admin' = NoRequest /\ \A i \in Workers : w'[i] = Idle
  BY DEF Crash, chain, db
<1>1. Faulted' /\ faults'.timeouts = faults.timeouts
  BY DEF Crash, Fault, Faulted, Typed, FaultsOK
<1>2. Quiet'
  BY <1>0, <1>1 DEF Quiet, NoRequest
<1>3. ASSUME NEW u \in Bets
      PROVE  BetInv(u)'
  <2>1. BetKept(u) /\ admin'.at[u] = "done" /\ \A i \in Workers : Doing(i, u)' = "no" /\ w'[i].todo = {}
    BY <1>0 DEF BetKept, NoRequest, Doing, Idle, IsHeld
  <2>. QED BY <1>0, <1>1, <2>1, Dropped
<1>. QED BY <1>2, <1>3

-----------------------------------------------------------------------------
(* Theorems *)

LEMMA InvInit == Init => SettlementInv
<1>. SUFFICES ASSUME Init
              PROVE  SettlementInv
  OBVIOUS
<1>1. Typed
  BY TypesInit
<1>2. Quiet
  BY DEF Init, Quiet, NoRequest
<1>3. ASSUME NEW u \in Bets
      PROVE  BetInv(u)
  <2>1. /\ slip[R][u].state = "open" /\ Fresh(u) /\ board[u] = 0 /\ admin.at[u] = "done"
        /\ u \in confirming => betDb[u] = "none"
    BY DEF Init, R, Fresh, NoRequest
  <2>2. \A i \in Workers : Doing(i, u) = "no" /\ w[i].todo = {}
    BY DEF Init, Doing, Idle, IsHeld
  <2>. QED BY <2>1, <2>2 DEF BetInv, OpenIsFresh, AdminRecords, WorkerRecords, OneHolder,
              ConfirmsUnseen, Matches, Counted, LosesByFault, Fresh
<1>. QED BY <1>1, <1>2, <1>3 DEF SettlementInv

LEMMA InvNext == SettlementInv /\ [Next]_vars => SettlementInv'
<1>. SUFFICES ASSUME SettlementInv, [Next]_vars
              PROVE  Quiet' /\ \A u \in Bets : BetInv(u)'
  BY TypesNext DEF SettlementInv
<1>1. ASSUME NEW i \in Workers, WorkerStep(i)
      PROVE  Quiet' /\ \A u \in Bets : BetInv(u)'
  <2>1. CASE QuietStep(i)
    BY <2>1, QuietKeeps
  <2>2. ASSUME NEW v \in Bets, SettleNext(i, v) \/ RefundNext(i, v)
        PROVE  Quiet' /\ \A u \in Bets : BetInv(u)'
    BY <2>2, SettleKeeps, RefundKeeps
  <2>3. CASE RecordResult(i) \/ RecordRefund(i)
    BY <2>3, RecordKeeps
  <2>4. CASE CountResult(i) \/ StoreFails(i)
    BY <2>4, CountKeeps, StoreFailKeeps
  <2>. QED BY <1>1, <2>1, <2>2, <2>3, <2>4 DEF WorkerStep, QuietStep
<1>2. CASE RequestRefunds
  BY <1>2, RequestKeeps
<1>3. ASSUME NEW v \in Bets, AdminRefund(v) \/ AdminRecord(v) \/ AdminStoreFails(v)
      PROVE  Quiet' /\ \A u \in Bets : BetInv(u)'
  BY <1>3, AdminRefundKeeps, AdminRecordKeeps, AdminFailKeeps
<1>4. CASE AdminEnd \/ Undelegated \/ Stall \/ UNCHANGED vars \/ \E tx : Expire(tx)
  BY <1>4, IdleKeeps
<1>5. ASSUME NEW tx, Land(tx)
      PROVE  Quiet' /\ \A u \in Bets : BetInv(u)'
  BY <1>5, LandKeeps, CloseLands DEF Land
<1>6. ASSUME NEW v \in Bets, ConfirmBet(v)
      PROVE  Quiet' /\ \A u \in Bets : BetInv(u)'
  BY <1>6, ConfirmKeeps
<1>7. CASE Crash
  BY <1>7, CrashKeeps
<1>. QED BY <1>1, <1>2, <1>3, <1>4, <1>5, <1>6, <1>7 DEF Next, AdminStep, ChainStep

\* In every reachable state every bet has at most one execution or request that
\* closed it and is about to record it, and everything the database and the
\* leaderboard say of a bet was recorded by that one.
THEOREM SettlementInvariant == Spec => []SettlementInv
<1>. QED BY InvInit, InvNext, PTL DEF Spec

\* The state keeps its shape, for any bets and budgets: no settlement and no
\* refund pays what the vault does not hold.
THEOREM SettlementTypes == Spec => []TypeOK
<1>1. SettlementInv => TypeOK
  BY DEF SettlementInv, Typed
<1>. QED BY <1>1, SettlementInvariant, PTL

\* A bet shown WON, LOST or REFUNDED was paid exactly that, whatever the worker,
\* its retries, the refund endpoint and late transactions did to each other.
THEOREM MatchesTheorem == Spec => []DbMatchesChain
<1>1. SettlementInv => DbMatchesChain
  BY DEF SettlementInv, BetInv, Matches, DbMatchesChain
<1>. QED BY <1>1, SettlementInvariant, PTL

\* The leaderboard counts a bet at most once, and only one recorded as settled.
THEOREM CountedTheorem == Spec => []CountedOnce
<1>1. SettlementInv => CountedOnce
  BY DEF SettlementInv, BetInv, Counted, CountedOnce
<1>. QED BY <1>1, SettlementInvariant, PTL

\* A closed bet that is still PENDING has somebody about to record it, or a call
\* timed out, a write failed or the server crashed.
THEOREM LosesTheorem == Spec => []OnlyFaultsLoseRecords
<1>1. SettlementInv => OnlyFaultsLoseRecords
  <2>. SUFFICES ASSUME SettlementInv, NEW u \in Bets, LosesByFault(u),
                       slip[R][u].state = "closed", Fresh(u)
                PROVE  Recording(u) \/ faults.timeouts + faults.storeErrors + faults.crashes > 0
    BY DEF OnlyFaultsLoseRecords, SettlementInv, BetInv, Fresh
  <2>1. \A i \in Workers : Doing(i, u) \in {"record", "recordRefund"} =>
                             w[i].cur = u /\ w[i].pc \in {"record", "recordRefund"}
    BY DEF Doing
  <2>. QED BY <2>1 DEF LosesByFault, Recording, Faulted
<1>. QED BY <1>1, SettlementInvariant, PTL
=============================================================================
