--------------------------- MODULE BetSettlement ---------------------------
(***************************************************************************)
(* Paying out one revealed round: the settlement worker of the server, the *)
(* admin's refund endpoint and late bet confirmations, over MongoDB, the   *)
(* job queue and the chain.                                                *)
(*                                                                         *)
(* The chain is the book of wagers of BetBook, which TokkuEngine           *)
(* implements, with the vault and the owner of the round account.  Every   *)
(* await that reads or writes shared state ends a step: between a          *)
(* transaction and the database write that records it, anything may        *)
(* happen.                                                                 *)
(*                                                                         *)
(* Faults have budgets, so that a run says how many it covers.             *)
(***************************************************************************)
EXTENDS Integers, FiniteSets

CONSTANTS
  Bets,         \* the bets of the round, one per user
  Wins,         \* those checkBetWon and evaluate_winner call winners
  Stake,        \* stake of every bet
  Odds,         \* odds of every bet, in hundredths
  Liquidity,    \* what the vault holds when the round is revealed
  LateBets,     \* bets that may lack a document when the round is revealed
  Workers,      \* executions of the settlement job that may overlap
  MaxAttempts,  \* attempts of defaultJobOptions
  MaxStalls,    \* times BullMQ puts a stalled job back
  MaxRefunds,   \* bound on calls of the refund endpoint
  MaxTimeouts,  \* budget of chain calls without a useful answer
  MaxRollupTimeouts, \* budget of undelegations without an answer
  MaxStoreErrors, \* budget of failed database writes
  MaxCrashes,   \* budget of crashes of the server
  None          \* no worker, no bet

R == 1

ASSUME SettlementAssumption ==
  /\ Wins \subseteq Bets
  /\ LateBets \subseteq Bets
  /\ Stake \in Nat \ {0}
  /\ Odds \in Nat
  /\ Liquidity \in Nat
  /\ None \notin Workers
  /\ None \notin Bets
  /\ MaxAttempts \in Nat \ {0}
  /\ MaxStalls \in Nat
  /\ MaxRefunds \in Nat
  /\ MaxTimeouts \in Nat
  /\ MaxRollupTimeouts \in Nat
  /\ MaxStoreErrors \in Nat
  /\ MaxCrashes \in Nat

VARIABLES
  book, slip,    \* the chain: BetBook
  vault,         \* balance of the vault
  owner,         \* of the round account: "rollup", "leaving" it, or "program"
  limbo,         \* transactions sent whose sender gave up waiting
  roundDb,       \* status of the Round document
  undelegatedDb, \* Round.undelegateTxHash is set, or it never was delegated
  betDb,         \* betDb[u]: status of the Bet document of u, or "none"
  confirming,    \* bets whose confirmation passed its checks on the round
  board,         \* board[u]: times the leaderboard counted the bet of u
  job,           \* the settle-bets job of the round
  w,             \* w[i]: execution i of the job
  admin,         \* the refund endpoint
  faults         \* faults spent

chain == <<book, slip, vault, owner>>
db == <<roundDb, undelegatedDb, betDb, board>>
vars == <<chain, limbo, db, confirming, job, w, admin, faults>>

Chain == INSTANCE BetBook WITH
  Users <- Bets, RoundIds <- {R}, Stakes <- {Stake}, OddsValues <- {Odds}

Fault(kind, max) ==
  /\ faults[kind] < max
  /\ faults' = [faults EXCEPT ![kind] = @ + 1]

-----------------------------------------------------------------------------
(* Transactions *)

Tx == [kind : {"settle", "refund"}, bet : Bets]
Settle(u) == [kind |-> "settle", bet |-> u]
Refund(u) == [kind |-> "refund", bet |-> u]
Close == [kind |-> "close", bet |-> None] \* settle_round

Payout(u) == IF u \in Wins THEN (Stake * Odds) \div 100 ELSE 0
Amount(tx) == IF tx.kind = "refund" THEN Stake ELSE Payout(tx.bet)

\* Mutated form: the vault need not hold what the transaction pays.
ExecuteUnfunded(tx) ==
  /\ owner = "program"
  /\ Chain!CloseSlip(tx.bet, R)
  /\ slip'[R][tx.bet].paid = Amount(tx)
  /\ vault' = vault - Amount(tx)
  /\ UNCHANGED owner

\* The chain executes settle_bet or refund_bet.
Execute(tx) ==
  /\ owner = "program"
  /\ vault >= Amount(tx)
  /\ Chain!CloseSlip(tx.bet, R)
  /\ slip'[R][tx.bet].paid = Amount(tx)
  /\ vault' = vault - Amount(tx)
  /\ UNCHANGED owner

\* The preflight simulation fails: the program cannot write an account it does
\* not own, or refuses.
Rejected(tx) ==
  \/ owner # "program"
  \/ vault < Amount(tx)
  \/ book[R] # "Locked"
  \/ slip[R][tx.bet].state # "open"

\* The sender stops waiting (confirmation timeout, lost connection, or a failure
\* after the simulation passed) for a transaction that may land later, or never.
GiveUp(tx) ==
  /\ Fault("timeouts", MaxTimeouts)
  /\ limbo' = limbo \cup {tx}
  /\ UNCHANGED chain

Land(tx) ==
  /\ tx \in limbo
  /\ \/ tx \in Tx /\ Execute(tx)
     \/ tx = Close /\ Chain!SettleBook(R) /\ UNCHANGED <<vault, owner>>
  /\ limbo' = limbo \ {tx}
  /\ UNCHANGED <<db, confirming, job, w, admin, faults>>

Expire(tx) ==
  /\ tx \in limbo
  /\ limbo' = limbo \ {tx}
  /\ UNCHANGED <<chain, db, confirming, job, w, admin, faults>>

\* The rollup's validator finishes a scheduled undelegation.
Undelegated ==
  /\ owner = "leaving"
  /\ owner' = "program"
  /\ UNCHANGED <<book, slip, vault, limbo, db, confirming, job, w, admin,
                 faults>>

-----------------------------------------------------------------------------
(* The settlement job *)

Idle == [pc |-> "idle", todo |-> {}, cur |-> None]
PendingBets == {u \in Bets : betDb[u] = "PENDING"}

Goto(i, pc) == w' = [w EXCEPT ![i].pc = pc]

\* The processor returned.  BullMQ ignores an execution that lost the job.
Return(i) ==
  /\ w' = [w EXCEPT ![i] = Idle]
  /\ job' = IF job.holder = i
              THEN [job EXCEPT !.state = "completed", !.holder = None]
              ELSE job

\* The processor threw: another attempt, or the end of the job.
Throw(i) ==
  /\ w' = [w EXCEPT ![i] = Idle]
  /\ job' = IF job.holder = i
              THEN [job EXCEPT !.attempts = @ + 1, !.holder = None,
                      !.state = IF job.attempts + 1 < MaxAttempts
                                  THEN "waiting" ELSE "failed"]
              ELSE job

\* Reads the round, which has its outcome, and the pending bets.
TakeJob(i) ==
  /\ job.state = "waiting"
  /\ w[i] = Idle
  /\ job' = [job EXCEPT !.state = "active", !.holder = i]
  /\ w' = [w EXCEPT ![i] = [pc |-> IF undelegatedDb THEN "await" ELSE "undelegate",
                            todo |-> PendingBets, cur |-> None]]
  /\ UNCHANGED <<chain, limbo, db, confirming, admin, faults>>

\* commitAndUndelegateRoundER.  Once the account left, the rollup rejects it, and
\* the router's answer, whose error nobody looks at, may still be taken for
\* success.  An answer that does not come, the retries being rejected too or the
\* request itself being lost, ends the attempt and leaves no trace in the
\* database.
Undelegate(i) ==
  /\ w[i].pc = "undelegate"
  /\ \/ /\ owner = "rollup"
        /\ owner' = "leaving"
        /\ Goto(i, "noteUndelegated")
        /\ UNCHANGED <<job, faults>>
     \/ /\ owner = "rollup"
        /\ owner' \in {"rollup", "leaving"}
        /\ Fault("rollup", MaxRollupTimeouts)
        /\ Throw(i)
     \/ /\ owner # "rollup"
        /\ Throw(i) \/ (Goto(i, "noteUndelegated") /\ UNCHANGED job)
        /\ UNCHANGED <<owner, faults>>
  /\ UNCHANGED <<book, slip, vault, limbo, db, confirming, admin>>

NoteUndelegated(i) ==
  /\ w[i].pc = "noteUndelegated"
  /\ undelegatedDb' = TRUE
  /\ Goto(i, "ensure")
  /\ UNCHANGED <<chain, limbo, roundDb, betDb, board, confirming, job, admin,
                 faults>>

\* ensureRoundUndelegated: while the program does not own the account, it
\* undelegates a second time, to no effect, and polls the owner six times.
EnsureUndelegated(i) ==
  /\ w[i].pc = "ensure"
  /\ \/ /\ owner = "program"
        /\ Goto(i, "await")
        /\ UNCHANGED job
     \/ /\ owner # "program"
        /\ Throw(i)
  /\ UNCHANGED <<chain, limbo, db, confirming, admin, faults>>

Wait(i, pc, next) ==
  /\ w[i].pc = pc
  /\ owner = "program"
  /\ Goto(i, next)
  /\ UNCHANGED <<chain, limbo, db, confirming, job, admin, faults>>

\* waitForRoundOutcomeOnBase: the outcome is there once the program owns the
\* account.
AwaitOutcome(i) == Wait(i, "await", "settle")

\* ensureRoundUndelegated; the settlement that failed found the account there.
EnsureBeforeRefunds(i) == Wait(i, "ensureRefund", "refund")

AwaitTimesOut(i) ==
  /\ w[i].pc = "await"
  /\ owner # "program"
  /\ Fault("timeouts", MaxTimeouts)
  /\ Throw(i)
  /\ UNCHANGED <<chain, limbo, db, confirming, admin>>

\* Mutated form: a bet the chain no longer settles is taken for settled.
SettleNextAssumed(i, u) ==
  /\ w[i].pc = "settle"
  /\ u \in w[i].todo
  /\ w' = [w EXCEPT ![i].pc = "record", ![i].cur = u]
  /\ Execute(Settle(u)) \/ (Rejected(Settle(u)) /\ UNCHANGED chain)
  /\ UNCHANGED <<job, limbo, faults, db, confirming, admin>>

\* settleBet of the next bet, once the program owns the account, for good.  A
\* simulation that fails, because the program refuses or the node cannot run
\* it, leads to the refunds, any other error to another attempt.
SettleNext(i, u) ==
  /\ w[i].pc = "settle"
  /\ u \in w[i].todo
  /\ \/ /\ Execute(Settle(u))
        /\ w' = [w EXCEPT ![i].pc = "record", ![i].cur = u]
        /\ UNCHANGED <<job, limbo, faults>>
     \/ /\ Rejected(Settle(u))
        /\ Goto(i, "loadRefunds")
        /\ UNCHANGED <<chain, job, limbo, faults>>
     \/ /\ Fault("timeouts", MaxTimeouts)
        /\ Goto(i, "loadRefunds")
        /\ UNCHANGED <<chain, job, limbo>>
     \/ /\ GiveUp(Settle(u))
        /\ Throw(i)
  /\ UNCHANGED <<db, confirming, admin>>

RecordResult(i) ==
  /\ w[i].pc = "record"
  /\ betDb' = [betDb EXCEPT ![w[i].cur] =
                 IF w[i].cur \in Wins THEN "WON" ELSE "LOST"]
  /\ Goto(i, "count")
  /\ UNCHANGED <<chain, limbo, roundDb, undelegatedDb, board, confirming, job,
                 admin, faults>>

\* updateLeaderboard, or the upsert for a lost bet.
CountResult(i) ==
  /\ w[i].pc = "count"
  /\ board' = [board EXCEPT ![w[i].cur] = @ + 1]
  /\ w' = [w EXCEPT ![i] = [pc |-> "settle", todo |-> @.todo \ {@.cur},
                            cur |-> None]]
  /\ UNCHANGED <<chain, limbo, roundDb, undelegatedDb, betDb, confirming, job,
                 admin, faults>>

MarkSettled(i) ==
  /\ w[i].pc = "settle"
  /\ w[i].todo = {}
  /\ roundDb' = "SETTLED"
  /\ Goto(i, "close")
  /\ UNCHANGED <<chain, limbo, undelegatedDb, betDb, board, confirming, job,
                 admin, faults>>

\* settleRound; its failure is logged and the job completes all the same.
CloseRound(i) ==
  /\ w[i].pc = "close"
  /\ \/ Chain!SettleBook(R) /\ UNCHANGED <<vault, owner, limbo, faults>>
     \/ /\ book[R] # "Locked" \/ \E u \in Bets : slip[R][u].state = "open"
        /\ UNCHANGED <<chain, limbo, faults>>
     \/ GiveUp(Close)
  /\ Return(i)
  /\ UNCHANGED <<db, confirming, admin>>

-----------------------------------------------------------------------------
(* The refunds of the settlement job *)

\* Mutated form: a failed settlement ends the job without refunds.
LoadRefundsSkipped(i) ==
  /\ w[i].pc = "loadRefunds"
  /\ Return(i)
  /\ UNCHANGED <<chain, limbo, db, confirming, admin, faults>>

LoadRefunds(i) ==
  /\ w[i].pc = "loadRefunds"
  /\ \/ /\ PendingBets = {}
        /\ Return(i)
     \/ /\ PendingBets # {}
        /\ w' = [w EXCEPT ![i] = [pc |-> "ensureRefund", todo |-> PendingBets,
                                  cur |-> None]]
        /\ UNCHANGED job
  /\ UNCHANGED <<chain, limbo, db, confirming, admin, faults>>

\* Mutated form: the bet is marked refunded whether or not it was.
RefundNextUnchecked(i, u) ==
  /\ w[i].pc = "refund"
  /\ u \in w[i].todo
  /\ w' = [w EXCEPT ![i].pc = "recordRefund", ![i].cur = u]
  /\ Execute(Refund(u)) \/ (Rejected(Refund(u)) /\ UNCHANGED chain)
  /\ UNCHANGED <<limbo, faults, db, confirming, job, admin>>

\* Mutated form: a refund that fails is tried again.
RefundNextUntilPaid(i, u) ==
  /\ w[i].pc = "refund"
  /\ u \in w[i].todo
  /\ Execute(Refund(u))
  /\ w' = [w EXCEPT ![i].pc = "recordRefund", ![i].cur = u]
  /\ UNCHANGED <<limbo, faults, db, confirming, job, admin>>

\* refundBet of the next bet; an error is logged and the bet left as it is.
RefundNext(i, u) ==
  /\ w[i].pc = "refund"
  /\ u \in w[i].todo
  /\ \/ /\ Execute(Refund(u))
        /\ w' = [w EXCEPT ![i].pc = "recordRefund", ![i].cur = u]
        /\ UNCHANGED <<limbo, faults>>
     \/ /\ Rejected(Refund(u))
        /\ w' = [w EXCEPT ![i].todo = @ \ {u}]
        /\ UNCHANGED <<chain, limbo, faults>>
     \/ /\ GiveUp(Refund(u))
        /\ w' = [w EXCEPT ![i].todo = @ \ {u}]
  /\ UNCHANGED <<db, confirming, job, admin>>

RecordRefund(i) ==
  /\ w[i].pc = "recordRefund"
  /\ betDb' = [betDb EXCEPT ![w[i].cur] = "REFUNDED"]
  /\ w' = [w EXCEPT ![i] = [pc |-> "refund", todo |-> @.todo \ {@.cur},
                            cur |-> None]]
  /\ UNCHANGED <<chain, limbo, roundDb, undelegatedDb, board, confirming, job,
                 admin, faults>>

MarkFailed(i) ==
  /\ w[i].pc = "refund"
  /\ w[i].todo = {}
  /\ roundDb' = "FAILED"
  /\ Return(i)
  /\ UNCHANGED <<chain, limbo, undelegatedDb, betDb, board, confirming, admin,
                 faults>>

\* A database write of the worker fails: not a chain error, so the job throws.
StoreFails(i) ==
  /\ \/ w[i].pc \in {"noteUndelegated", "record", "count", "recordRefund"}
     \/ w[i].pc \in {"settle", "refund"} /\ w[i].todo = {}
  /\ Fault("storeErrors", MaxStoreErrors)
  /\ Throw(i)
  /\ UNCHANGED <<chain, limbo, db, confirming, admin>>

-----------------------------------------------------------------------------
(* BetsService.refundBets, called by an admin at any time *)

NoRequest == [pc |-> "idle", at |-> [u \in Bets |-> "done"]]

RequestRefunds ==
  /\ admin.pc = "idle"
  /\ Fault("refunds", MaxRefunds)
  /\ admin' = [pc |-> "refunding",
               at |-> [u \in Bets |-> IF betDb[u] = "PENDING" THEN "refund"
                                                              ELSE "done"]]
  /\ UNCHANGED <<chain, limbo, db, confirming, job, w>>

\* Mutated form: the refund is not recorded.
AdminRefundUnrecorded(u) ==
  /\ admin.at[u] = "refund"
  /\ Execute(Refund(u)) \/ (Rejected(Refund(u)) /\ UNCHANGED chain)
  /\ admin' = [admin EXCEPT !.at[u] = "done"]
  /\ UNCHANGED <<limbo, faults, db, confirming, job, w>>

\* Promise.all: the bets are refunded concurrently; errors are logged.
AdminRefund(u) ==
  /\ admin.at[u] = "refund"
  /\ \/ /\ Execute(Refund(u))
        /\ admin' = [admin EXCEPT !.at[u] = "record"]
        /\ UNCHANGED <<limbo, faults>>
     \/ /\ Rejected(Refund(u))
        /\ admin' = [admin EXCEPT !.at[u] = "done"]
        /\ UNCHANGED <<chain, limbo, faults>>
     \/ /\ GiveUp(Refund(u))
        /\ admin' = [admin EXCEPT !.at[u] = "done"]
  /\ UNCHANGED <<db, confirming, job, w>>

AdminRecord(u) ==
  /\ admin.at[u] = "record"
  /\ betDb' = [betDb EXCEPT ![u] = "REFUNDED"]
  /\ admin' = [admin EXCEPT !.at[u] = "done"]
  /\ UNCHANGED <<chain, limbo, roundDb, undelegatedDb, board, confirming, job,
                 w, faults>>

\* The write of one bet fails: the request fails, the other refunds go on.
AdminStoreFails(u) ==
  /\ admin.at[u] = "record"
  /\ Fault("storeErrors", MaxStoreErrors)
  /\ admin' = [admin EXCEPT !.pc = "thrown", !.at[u] = "done"]
  /\ UNCHANGED <<chain, limbo, db, confirming, job, w>>

\* The round is marked whatever its status was and whatever was refunded.
AdminEnd ==
  /\ admin.pc # "idle"
  /\ \A u \in Bets : admin.at[u] = "done"
  /\ roundDb' = IF admin.pc = "refunding" THEN "FAILED" ELSE roundDb
  /\ admin' = NoRequest
  /\ UNCHANGED <<chain, limbo, undelegatedDb, betDb, board, confirming, job, w,
                 faults>>

-----------------------------------------------------------------------------
(* Late confirmations, crashes, stalled jobs *)

\* processBetConfirmation, of a confirmation that read the round before it was
\* revealed.
ConfirmBet(u) ==
  /\ u \in confirming
  /\ confirming' = confirming \ {u}
  /\ betDb' = [betDb EXCEPT ![u] = "PENDING"]
  /\ UNCHANGED <<chain, limbo, roundDb, undelegatedDb, board, job, w, admin,
                 faults>>

PutBack ==
  [job EXCEPT !.holder = None, !.stalls = @ + 1,
              !.state = IF job.stalls < MaxStalls THEN "waiting" ELSE "failed"]

\* The job's lock expired, although its execution is still running.
Stall ==
  /\ job.state = "active"
  /\ job.stalls < MaxStalls
  /\ job' = PutBack
  /\ UNCHANGED <<chain, limbo, db, confirming, w, admin, faults>>

\* The server dies and comes back; an active job is found stalled.
Crash ==
  /\ Fault("crashes", MaxCrashes)
  /\ w' = [i \in Workers |-> Idle]
  /\ admin' = NoRequest
  /\ confirming' = {}
  /\ job' = IF job.state = "active" THEN PutBack ELSE job
  /\ UNCHANGED <<chain, limbo, db>>

-----------------------------------------------------------------------------
\* revealOutcome has just queued the job.  Some bets have no document yet:
\* their confirmation is under way, or was never sent.
Init ==
  /\ book = [r \in {R} |-> "Locked"]
  /\ slip = [r \in {R} |-> [u \in Bets |->
               [state |-> "open", stake |-> Stake, odds |-> Odds, paid |-> 0]]]
  /\ vault = Liquidity
  /\ owner \in {"rollup", "program"}
  /\ limbo = {}
  /\ roundDb = "REVEALED"
  /\ undelegatedDb = (owner = "program")
  /\ betDb \in [Bets -> {"none", "PENDING"}]
  /\ \A u \in Bets \ LateBets : betDb[u] = "PENDING"
  /\ confirming \in SUBSET {u \in Bets : betDb[u] = "none"}
  /\ board = [u \in Bets |-> 0]
  /\ job = [state |-> "waiting", attempts |-> 0, stalls |-> 0, holder |-> None]
  /\ w = [i \in Workers |-> Idle]
  /\ admin = NoRequest
  /\ faults = [timeouts |-> 0, rollup |-> 0, storeErrors |-> 0, crashes |-> 0, refunds |-> 0]

WorkerStep(i) ==
  \/ TakeJob(i)
  \/ Undelegate(i)
  \/ NoteUndelegated(i)
  \/ EnsureUndelegated(i)
  \/ AwaitOutcome(i)
  \/ EnsureBeforeRefunds(i)
  \/ AwaitTimesOut(i)
  \/ \E u \in Bets : SettleNext(i, u) \/ RefundNext(i, u)
  \/ RecordResult(i)
  \/ CountResult(i)
  \/ MarkSettled(i)
  \/ CloseRound(i)
  \/ LoadRefunds(i)
  \/ RecordRefund(i)
  \/ MarkFailed(i)
  \/ StoreFails(i)

AdminStep ==
  \/ RequestRefunds
  \/ \E u \in Bets : AdminRefund(u) \/ AdminRecord(u) \/ AdminStoreFails(u)
  \/ AdminEnd

ChainStep ==
  \/ Undelegated
  \/ \E tx \in Tx \cup {Close} : Land(tx) \/ Expire(tx)

Next ==
  \/ \E i \in Workers : WorkerStep(i)
  \/ AdminStep
  \/ ChainStep
  \/ \E u \in Bets : ConfirmBet(u)
  \/ Stall
  \/ Crash

Spec == Init /\ [][Next]_vars

\* BullMQ runs the job, awaits return or time out, the validator finishes an
\* undelegation, a transaction lands or expires.
Fairness ==
  /\ \A i \in Workers : WF_vars(WorkerStep(i))
  /\ \A u \in Bets : WF_vars(AdminRefund(u)) /\ WF_vars(AdminRecord(u))
  /\ WF_vars(AdminEnd)
  /\ WF_vars(ChainStep)

FairSpec == Spec /\ Fairness

-----------------------------------------------------------------------------
(* Properties *)

Paid(u, amount) ==
  slip[R][u].state = "closed" /\ slip[R][u].paid = amount

\* The state keeps its shape: above all, the vault never pays what it does not
\* hold, whoever settles or refunds.
TypeOK ==
  /\ book \in [{R} -> Chain!BookStates]
  /\ slip \in [{R} -> [Bets -> [state : {"none", "open", "closed"},
                               stake : Nat, odds : Nat, paid : Nat]]]
  /\ vault \in Nat
  /\ owner \in {"rollup", "leaving", "program"}
  /\ limbo \subseteq Tx \cup {Close}
  /\ roundDb \in {"REVEALED", "SETTLED", "FAILED"}
  /\ undelegatedDb \in BOOLEAN
  /\ betDb \in [Bets -> {"none", "PENDING", "WON", "LOST", "REFUNDED"}]
  /\ confirming \subseteq Bets
  /\ board \in [Bets -> Nat]
  /\ w \in [Workers -> [pc : {"idle", "undelegate", "noteUndelegated", "ensure",
                             "await", "settle", "record", "count", "close",
                             "loadRefunds", "ensureRefund", "refund",
                             "recordRefund"},
                       todo : SUBSET Bets, cur : Bets \cup {None}]]
  /\ admin \in [pc : {"idle", "refunding", "thrown"},
                at : [Bets -> {"refund", "record", "done"}]]

\* What the database says of a bet is what the chain did with it, although the
\* worker and the refund endpoint race, executions overlap after a stall, and
\* abandoned transactions land late: nobody is shown a win that was refunded,
\* or a refund that was lost.
DbMatchesChain ==
  \A u \in Bets :
    /\ betDb[u] = "WON" => u \in Wins /\ Paid(u, Payout(u))
    /\ betDb[u] = "LOST" => u \notin Wins /\ Paid(u, 0)
    /\ betDb[u] = "REFUNDED" => Paid(u, Stake)

\* The leaderboard counts a bet at most once, and only a bet that was settled
\* and recorded: retries and overlapping executions count nothing twice.
CountedOnce ==
  \A u \in Bets : /\ board[u] <= 1
                  /\ board[u] = 1 => betDb[u] \in {"WON", "LOST"}

Recording(u) ==
  \/ admin.at[u] = "record"
  \/ \E i \in Workers : w[i].cur = u /\ w[i].pc \in {"record", "recordRefund"}

\* A bet the chain has closed stays PENDING in the database only while its
\* closer is about to record it, unless a call got no answer, a write failed
\* or the server crashed.
OnlyFaultsLoseRecords ==
  \A u \in Bets :
    slip[R][u].state = "closed" /\ betDb[u] \in {"none", "PENDING"} =>
      \/ Recording(u)
      \/ faults.timeouts + faults.storeErrors + faults.crashes > 0

Ended == job.state \in {"completed", "failed"}

\* With one chain call unanswered and one refund request, a bet that is PENDING
\* when an attempt is due is closed on the chain in the end, unless the vault no
\* longer holds what was staked on it, or the call unanswered is a refund of it,
\* which nobody repeats: no other bet falls between the worker's loop, its
\* refunds and the admin's, though all pay from one vault that may be too small.
PendingBetsClose ==
  \A u \in Bets : betDb[u] = "PENDING" /\ job.state = "waiting"
    ~> \/ slip[R][u].state = "closed"
       \/ vault < Stake
       \/ Refund(u) \in limbo

\* The job comes to an end, and no execution of it keeps running.
SettlementEnds == <>[](Ended /\ \A i \in Workers : w[i] = Idle)

=============================================================================
