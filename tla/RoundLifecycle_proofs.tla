----------------------- MODULE RoundLifecycle_proofs -----------------------
(***************************************************************************)
(* Betting is closed before anything else happens to a round: LockedOnChain *)
(* for any results, attempts, faults, calls and crashes.                   *)
(*                                                                         *)
(* Two facts carry it.  No transaction, callback or undelegation takes the *)
(* account back to Predicting, so a step that ends with a predicting       *)
(* account began with one; and LockedInv says how little can have happened *)
(* until then, so that hardly any action is enabled.                       *)
(***************************************************************************)
EXTENDS RoundLifecycle, TLAPS

\* The account keeps the fields of a round account.
AccountShape ==
  acct = [status |-> acct.status, inputs |-> acct.inputs,
          commitment |-> acct.commitment, outcome |-> acct.outcome]

\* Whatever changed, the account did not go back to Predicting.
NotReopened ==
  /\ AccountShape'
  /\ acct.status # "Predicting" => acct'.status # "Predicting"

\* A transaction that executes leaves an account that is locked locked.
LEMMA ExecuteStep ==
  ASSUME AccountShape, NEW tx, Execute(tx)
  PROVE  NotReopened
  BY DEF AccountShape, NotReopened, Execute, Accepted, Effect, Chain!Lock,
         Chain!Delegate, Chain!Undelegate, Chain!CommitHash, Chain!Reveal,
         Chain!ErReveal, Chain!Write

\* So does every step that sends one and waits for it.
LEMMA TransactStep ==
  ASSUME AccountShape, NEW p, NEW tx, NEW next, Transact(p, tx, next)
  PROVE  NotReopened
  BY ExecuteStep DEF AccountShape, NotReopened, Transact, GiveUp, chain

\* A step that leaves the account alone leaves it locked.
LEMMA AccountKept ==
  ASSUME AccountShape, UNCHANGED acct
  PROVE  NotReopened
  BY DEF AccountShape, NotReopened

\* Neither the oracle, nor the rollup, nor a late transaction reopens it.
LEMMA ChainKeeps ==
  ASSUME AccountShape, ChainStep
  PROVE  NotReopened
<1>1. CASE Callback
  BY <1>1 DEF Callback, AccountShape, NotReopened, Chain!Callback, Chain!Write
<1>2. CASE Undelegated
  BY <1>2, AccountKept DEF Undelegated, Chain!Return
<1>3. ASSUME NEW tx \in Tx, Land(tx) \/ Expire(tx)
      PROVE  NotReopened
  <2>1. CASE Land(tx)
    BY <2>1, ExecuteStep DEF Land
  <2>2. CASE Expire(tx)
    BY <2>2, AccountKept DEF Expire, chain
  <2>. QED BY <1>3, <2>1, <2>2
<1>. QED BY <1>1, <1>2, <1>3 DEF ChainStep

\* No step of the service reopens it.
LEMMA ServiceKeeps ==
  ASSUME AccountShape, NEW p, ServiceStep(p)
  PROVE  NotReopened
<1>1. CASE LockAccount(p)
  BY <1>1, ExecuteStep, AccountKept DEF LockAccount, GiveUp, chain
<1>2. CASE RequestRandomness(p)
  BY <1>2, TransactStep DEF RequestRandomness
<1>3. CASE DelegateAccount(p)
  BY <1>3, TransactStep DEF DelegateAccount
<1>4. CASE CommitOutcome(p)
  BY <1>4, ExecuteStep, AccountKept DEF CommitOutcome, GiveUp, chain
<1>5. CASE Reveal(p)
  <2>1. CASE Chain!ErReveal(x[p].att.result)
    BY <2>1 DEF AccountShape, NotReopened, Chain!ErReveal, Chain!Write
  <2>. QED BY <1>5, <2>1, TransactStep, AccountKept DEF Reveal, chain
<1>6. CASE \/ ReadRound(p) \/ RecordLock(p) \/ CountBets(p) \/ MarkExpired(p)
           \/ SeeRandomness(p) \/ PollTimesOut(p) \/ Attest(p)
           \/ RecordDelegation(p)
  BY <1>6, AccountKept DEF ReadRound, RecordLock, CountBets, MarkExpired,
     SeeRandomness, PollTimesOut, Attest, RecordDelegation, chain
<1>7. CASE \/ ReadCommit(p) \/ VerifyCommit(p) \/ QueueReveal(p)
           \/ QueueAgain(p) \/ ReadReveal(p) \/ RecordReveal(p)
           \/ Publish(p) \/ QueueSettle(p) \/ Finish(p)
  BY <1>7, AccountKept DEF ReadCommit, VerifyCommit, QueueReveal, QueueAgain,
     ReadReveal, RecordReveal, Publish, QueueSettle, Finish, chain
<1>. QED BY <1>1, <1>2, <1>3, <1>4, <1>5, <1>6, <1>7 DEF ServiceStep

\* The expiry of a round and its settlement do not reopen it either.
LEMMA OthersKeep ==
  ASSUME AccountShape, ExpirerStep \/ SettlementStep
  PROVE  NotReopened
<1>1. CASE ExpireRound
  BY <1>1, TransactStep, AccountKept DEF ExpireRound, chain
<1>2. CASE FindLocked \/ CountExpired \/ RecordExpiry
  BY <1>2, AccountKept DEF FindLocked, CountExpired, RecordExpiry, chain
<1>3. CASE SettlementUndelegates
  BY <1>3, AccountKept DEF SettlementUndelegates, Chain!Undelegate
<1>4. CASE SettlementNotes \/ SettlementRuns
  BY <1>4, AccountKept DEF SettlementNotes, SettlementRuns, chain
<1>5. CASE SettlementCloses
  BY <1>5 DEF SettlementCloses, AccountShape, NotReopened, Chain!Settle,
              Chain!Write
<1>. QED BY <1>1, <1>2, <1>3, <1>4, <1>5 DEF ExpirerStep, SettlementStep

\* No step at all reopens the account: the first fact.
LEMMA NeverReopened ==
  ASSUME AccountShape, [Next]_vars
  PROVE  NotReopened
<1>1. CASE WorkerStep
  <2>1. ASSUME NEW n \in JobNames, TakeJob(n)
        PROVE  NotReopened
    BY <2>1, AccountKept DEF TakeJob, chain
  <2>. QED BY <1>1, <2>1, ServiceKeeps DEF WorkerStep
<1>2. CASE ServiceStep("admin")
  BY <1>2, ServiceKeeps
<1>3. CASE ExpirerStep \/ SettlementStep
  BY <1>3, OthersKeep
<1>4. CASE ChainStep
  BY <1>4, ChainKeeps
<1>5. ASSUME NEW p \in Procs, ServiceFails(p)
      PROVE  NotReopened
  BY <1>5, AccountKept DEF ServiceFails, chain
<1>6. CASE \/ CallLock \/ PlaceBet \/ StartConfirm \/ ConfirmBet
           \/ Recover \/ Crash \/ UNCHANGED vars
  BY <1>6, AccountKept DEF CallLock, PlaceBet, StartConfirm, ConfirmBet,
     Recover, Crash, vars, chain
<1>. QED BY <1>1, <1>2, <1>3, <1>4, <1>5, <1>6 DEF Next

-----------------------------------------------------------------------------
(* While the account takes bets *)

\* What LockedInv allows a process to be doing.
EarlyProc == [pc : {"idle", "read", "lock", "readReveal", "finish"},
              task : JobNames \cup {"none"}, path : {"none", "predicting"},
              att : {None}, delegated : {FALSE}]

Early == /\ doc = OpenDoc
         /\ settle = "none"
         /\ x \in [Procs -> EarlyProc]

\* LockedInv in terms of Early.
LEMMA LockedInvIsEarly == LockedInv <=> (acct.status = "Predicting" => Early)
  BY DEF LockedInv, Early, EarlyProc

\* The ways a process ends keep the processes early.
LEMMA EndingStep ==
  ASSUME x \in [Procs -> EarlyProc], NEW p \in Procs, x' = [x EXCEPT ![p] = Idle]
  PROVE  x' \in [Procs -> EarlyProc]
  BY DEF EarlyProc, Idle

\* Before the lock a step of the service reads the round, finds no attestation
\* to reveal, or ends; the lock itself ends the phase.
LEMMA ServiceEarly ==
  ASSUME Early, NEW p \in Procs, ServiceStep(p), acct.status = "Predicting",
         acct'.status = "Predicting", AccountShape
  PROVE  Early'
<1>1. x[p] \in EarlyProc
  BY DEF Early
<1>2. CASE ReadRound(p)
  <2>1. x' = [x EXCEPT ![p].pc = "lock", ![p].path = "predicting"]
    BY <1>2 DEF ReadRound, Early, OpenDoc
  <2>2. x' \in [Procs -> EarlyProc]
    BY ZenonT(60), <2>1 DEF Early, EarlyProc
  <2>. QED BY <1>2, <2>2 DEF ReadRound, Early, OpenDoc
<1>3. CASE LockAccount(p)
  <2>1. ~Execute(Send("lock"))
    BY DEF AccountShape, Execute, Accepted, Effect, Send, Chain!Lock, Chain!Write
  <2>2. Throw(p)
    BY <1>3, <2>1 DEF LockAccount
  <2>. QED BY <1>3, <2>2, EndingStep DEF LockAccount, Throw, Early, OpenDoc
<1>4. CASE ReadReveal(p)
  <2>1. Throw(p)
    BY <1>4 DEF ReadReveal, Early, OpenDoc
  <2>. QED BY <1>4, <2>1, EndingStep DEF ReadReveal, Throw, Early, OpenDoc
<1>5. CASE Finish(p)
  BY <1>5, EndingStep DEF Finish, Return, Early, OpenDoc
<1>6. CASE \/ RecordLock(p) \/ CountBets(p) \/ MarkExpired(p)
           \/ RequestRandomness(p) \/ SeeRandomness(p) \/ PollTimesOut(p)
           \/ Attest(p) \/ DelegateAccount(p) \/ RecordDelegation(p)
  BY <1>1, <1>6 DEF EarlyProc, At, RecordLock, CountBets, MarkExpired,
     RequestRandomness, SeeRandomness, PollTimesOut, Attest, DelegateAccount,
     RecordDelegation
<1>7. CASE \/ ReadCommit(p) \/ CommitOutcome(p) \/ VerifyCommit(p)
           \/ QueueReveal(p) \/ QueueAgain(p) \/ Reveal(p) \/ RecordReveal(p)
           \/ Publish(p) \/ QueueSettle(p)
  BY <1>1, <1>7 DEF EarlyProc, At, ReadCommit, CommitOutcome, VerifyCommit,
     QueueReveal, QueueAgain, Reveal, RecordReveal, Publish, QueueSettle
<1>. QED BY <1>2, <1>3, <1>4, <1>5, <1>6, <1>7 DEF ServiceStep

\* Jobs are taken and calls made, but nothing is expired or settled yet.
LEMMA EarlyStep ==
  ASSUME Early, [Next]_vars, acct.status = "Predicting",
         acct'.status = "Predicting", AccountShape
  PROVE  Early'
<1>1. ASSUME NEW n \in JobNames, TakeJob(n)
      PROVE  Early'
  BY <1>1 DEF TakeJob, Early, EarlyProc, Idle, Procs, OpenDoc
<1>2. CASE WorkerStep
  BY <1>1, <1>2, ServiceEarly DEF WorkerStep, Procs
<1>3. CASE ServiceStep("admin")
  BY <1>3, ServiceEarly DEF Procs
<1>4. CASE CallLock
  BY <1>4 DEF CallLock, Early, EarlyProc, Procs, OpenDoc
<1>5. CASE ExpirerStep
  BY <1>5 DEF ExpirerStep, FindLocked, CountExpired, ExpireRound, RecordExpiry,
     At, Early, EarlyProc, OpenDoc, Procs
<1>6. CASE SettlementStep
  BY <1>6 DEF SettlementStep, SettlementUndelegates, SettlementNotes,
     SettlementRuns, SettlementCloses, Early
<1>7. ASSUME NEW p \in Procs, ServiceFails(p)
      PROVE  Early'
  BY <1>7, EndingStep DEF ServiceFails, Throw, Early, OpenDoc
<1>8. CASE ChainStep
  BY <1>8 DEF ChainStep, Callback, Undelegated, Land, Expire, Early, OpenDoc
<1>9. CASE Crash
  BY <1>9 DEF Crash, Early, EarlyProc, Idle, OpenDoc
<1>10. CASE \/ PlaceBet \/ StartConfirm \/ ConfirmBet \/ Recover
            \/ UNCHANGED vars
  BY <1>10 DEF PlaceBet, StartConfirm, ConfirmBet, Recover, vars, Early, OpenDoc
<1>. QED BY <1>2, <1>3, <1>4, <1>5, <1>6, <1>7, <1>8, <1>9, <1>10 DEF Next

-----------------------------------------------------------------------------
\* The inductive invariant holds, whatever the budgets of faults, calls and
\* crashes: until the account is locked, nothing but the lock is under way.
THEOREM LockedInvariant == Spec => []LockedInv
<1>1. Init => AccountShape /\ LockedInv
  <2>. SUFFICES ASSUME Init PROVE AccountShape /\ LockedInv
    OBVIOUS
  <2>1. AccountShape
    BY DEF Init, AccountShape, Chain!NoAccount
  <2>2. Early
    BY DEF Init, Early, EarlyProc, Idle
  <2>. QED BY <2>1, <2>2, LockedInvIsEarly
<1>2. AccountShape /\ LockedInv /\ [Next]_vars => (AccountShape /\ LockedInv)'
  <2>. SUFFICES ASSUME AccountShape, LockedInv, [Next]_vars
                PROVE  AccountShape' /\ LockedInv'
    OBVIOUS
  <2>1. NotReopened
    BY NeverReopened
  <2>2. acct'.status = "Predicting" => Early'
    BY <2>1, LockedInvIsEarly, EarlyStep DEF NotReopened
  <2>3. LockedInv'
    BY <2>2 DEF LockedInv, Early, EarlyProc
  <2>. QED BY <2>1, <2>3 DEF NotReopened
<1>. QED BY <1>1, <1>2, PTL DEF Spec

\* A round that is attested, delegated, or called locked or anything later, takes
\* no bet: in every state of every run of the server.
THEOREM LockedTheorem == Spec => []LockedOnChain
<1>1. /\ OpenDoc.status = "PREDICTING"
      /\ OpenDoc.attestation = None
      /\ OpenDoc.delegated = FALSE
  BY DEF OpenDoc
<1>2. LockedInv => LockedOnChain
  BY <1>1, Zenon DEF LockedInv, LockedOnChain
<1>. QED BY <1>2, LockedInvariant, PTL

=============================================================================
