--------------------------- MODULE RoundLifecycle ---------------------------
(***************************************************************************)
(* From an open round to its settlement: RoundsService of the server with  *)
(* the lifecycle worker, the admin's lock endpoint, the schedulers that    *)
(* expire and recover rounds, and the confirmation of a bet, over the      *)
(* Round document, the job queue and the round account.                    *)
(*                                                                         *)
(* The account is RoundAccount, which TokkuEngine implements.  Every await *)
(* that reads or writes shared state ends a step.  Settling the bets is    *)
(* BetSettlement's; here the settlement job only undelegates the account   *)
(* and ends the round.  Faults have budgets.                               *)
(*                                                                         *)
(* An attestation stands for the outcome and the nonce it commits to; two  *)
(* calls of generateOutcome may answer differently, with the key the       *)
(* program trusts or with another (a fallback).                            *)
(***************************************************************************)
EXTENDS Integers

CONSTANTS
  Results,      \* what generateOutcome may answer
  Randomness,   \* what the VRF oracle may answer
  MaxAttempts,  \* attempts of defaultJobOptions
  MaxStalls,    \* times BullMQ puts a stalled job back
  Budgets,      \* how often each of Kinds may happen: one of these holds for
                \* a behaviour
  Pending, None

\* What may go wrong, or be done by others: chain calls without an answer,
\* delegations and others; database writes that fail; crashes of the server;
\* calls of the lock endpoint; runs of autoOpenRounds that find the round locked.
Kinds == {"timeouts", "delegations", "storeErrors", "crashes", "admin", "expiries"}

ASSUME LifecycleAssumption ==
  /\ None \notin Results \cup Randomness
  /\ Pending \notin Results
  /\ MaxAttempts \in Nat \ {0}
  /\ MaxStalls \in Nat
  /\ Budgets \subseteq [Kinds -> Nat]

VARIABLES
  acct, home, \* the round account: RoundAccount
  oracle,     \* a VRF request awaits its callback
  limbo,      \* transactions sent whose sender gave up waiting
  doc,        \* the Round document
  bet,        \* the one bet of the round, on its way to the database
  jobs,       \* the lifecycle jobs of the round
  settle,     \* the settlement job of the round
  x,          \* x[p]: what process p is executing
  faults      \* those spent, and the budget chosen

chain == <<acct, home, oracle>>
vars == <<chain, limbo, doc, bet, jobs, settle, x, faults>>

Chain == INSTANCE RoundAccount WITH Outcomes <- Results, CommunityOutcomes <- {}

Attestation == [result : Results, signed : BOOLEAN]

\* Who runs the service: the lifecycle worker (concurrency 1), the lock
\* endpoint, and autoOpenRounds or the undelegate endpoint.
Procs == {"worker", "admin", "expirer"}

JobNames == {"lock", "reveal", "again"}

Fault(kind) ==
  /\ faults.spent[kind] < faults.budget[kind]
  /\ faults' = [faults EXCEPT !.spent[kind] = @ + 1]

-----------------------------------------------------------------------------
(* Transactions *)

Tx == [kind : {"lock", "request", "delegate", "undelegate"}, att : {None}]
      \cup [kind : {"commit", "reveal", "erReveal"}, att : Attestation]
Send(kind) == [kind |-> kind, att |-> None]
SendAtt(kind, a) == [kind |-> kind, att |-> a]

\* The conditions under which the program accepts a transaction.  Base
\* transactions need the account on the base chain, the others on the rollup.
Accepted(tx) ==
  CASE tx.kind = "lock" -> home = "program" /\ acct.status = "Predicting"
    [] tx.kind \in {"request", "delegate"} -> home = "program"
    [] tx.kind = "commit" -> /\ home = "program" /\ acct.status = "Locked"
                             /\ tx.att.signed
    [] tx.kind = "reveal" -> /\ home = "program" /\ acct.status = "Locked"
                             /\ acct.commitment = tx.att.result
                             /\ tx.att.signed
    [] tx.kind = "erReveal" -> home = "rollup" /\ acct.status = "Locked"
    [] tx.kind = "undelegate" -> home = "rollup"

Effect(tx) ==
  \/ tx.kind = "lock" /\ Chain!Lock /\ UNCHANGED oracle
  \/ tx.kind = "request" /\ oracle' = TRUE /\ UNCHANGED <<acct, home>>
  \/ tx.kind = "delegate" /\ Chain!Delegate /\ UNCHANGED oracle
  \/ tx.kind = "undelegate" /\ Chain!Undelegate /\ UNCHANGED oracle
  \/ tx.kind = "commit" /\ Chain!CommitHash(tx.att.result) /\ UNCHANGED oracle
  \/ /\ tx.kind = "reveal"
     /\ \E h \in Randomness : Chain!Reveal(tx.att.result, h)
     /\ UNCHANGED oracle
  \/ tx.kind = "erReveal" /\ Chain!ErReveal(tx.att.result) /\ UNCHANGED oracle

Execute(tx) == Accepted(tx) /\ Effect(tx)

\* The sender stops waiting for a transaction that may land later, or never.
GiveUp(tx) ==
  /\ IF tx.kind = "delegate" THEN Fault("delegations")
                             ELSE Fault("timeouts")
  /\ limbo' = limbo \cup {tx}
  /\ UNCHANGED chain

Land(tx) ==
  /\ tx \in limbo
  /\ Execute(tx)
  /\ limbo' = limbo \ {tx}
  /\ UNCHANGED <<doc, bet, jobs, settle, x, faults>>

Expire(tx) ==
  /\ tx \in limbo
  /\ limbo' = limbo \ {tx}
  /\ UNCHANGED <<chain, doc, bet, jobs, settle, x, faults>>

\* The oracle answers: vrf_callback is rejected, and the answer lost, unless
\* the account is locked and on the base chain.
Callback ==
  /\ oracle
  /\ oracle' = FALSE
  /\ IF home = "program" /\ acct.status = "Locked"
       THEN \E h \in Randomness : Chain!Callback(h)
       ELSE UNCHANGED <<acct, home>>
  /\ UNCHANGED <<limbo, doc, bet, jobs, settle, x, faults>>

\* The rollup's validator finishes a scheduled undelegation.
Undelegated ==
  /\ Chain!Return
  /\ UNCHANGED <<oracle, limbo, doc, bet, jobs, settle, x, faults>>

-----------------------------------------------------------------------------
(* Jobs and processes *)

Idle == [pc |-> "idle", task |-> "none", path |-> "none", att |-> None,
         delegated |-> FALSE]
At(p, pc) == x[p].pc = pc
Goto(p, pc) == x' = [x EXCEPT ![p].pc = pc]

NoJob == [state |-> "none", attempts |-> 0, stalls |-> 0]
NewJob == [NoJob EXCEPT !.state = "waiting"]

\* queue.add with a job id: a job the queue still knows is not added again.
Added(js, n) == IF js[n].state = "none" THEN [js EXCEPT ![n] = NewJob] ELSE js

\* What becomes of the job when the process running it ends in a way.
Ended(js, p, state) ==
  IF p = "worker" THEN [js EXCEPT ![x[p].task].state = state] ELSE js

\* The processor, or the request, returned; a job may have been added.
Return(p, js) ==
  /\ x' = [x EXCEPT ![p] = Idle]
  /\ jobs' = Ended(js, p, "completed")

\* Mutated form: the last attempt is followed by another one.
ThrowOnceMore(p) ==
  /\ x' = [x EXCEPT ![p] = Idle]
  /\ jobs' = IF p # "worker" THEN jobs
             ELSE [jobs EXCEPT ![x[p].task].attempts = @ + 1,
                               ![x[p].task].state = "waiting"]

\* It threw: another attempt, or the end of the job.
Throw(p) ==
  /\ x' = [x EXCEPT ![p] = Idle]
  /\ jobs' = IF p # "worker" THEN jobs
             ELSE LET j == jobs[x[p].task] IN
                  [jobs EXCEPT ![x[p].task] =
                     [j EXCEPT !.attempts = @ + 1,
                        !.state = IF j.attempts + 1 < MaxAttempts
                                    THEN "waiting" ELSE "failed"]]

\* A ConflictError becomes an UnrecoverableError: no further attempt.
Abandon(p) ==
  /\ x' = [x EXCEPT ![p] = Idle]
  /\ jobs' = Ended(jobs, p, "failed")

TakeJob(n) ==
  /\ x["worker"] = Idle
  /\ jobs[n].state = "waiting"
  /\ jobs' = [jobs EXCEPT ![n].state = "active"]
  /\ x' = [x EXCEPT !["worker"] =
             [Idle EXCEPT !.task = n,
                          !.pc = IF n = "lock" THEN "read" ELSE "readReveal"]]
  /\ UNCHANGED <<chain, limbo, doc, bet, settle, faults>>

\* RoundsController.lockRound.
CallLock ==
  /\ x["admin"] = Idle
  /\ Fault("admin")
  /\ x' = [x EXCEPT !["admin"].pc = "read"]
  /\ UNCHANGED <<chain, limbo, doc, bet, jobs, settle>>

\* A transaction that needs an answer: next if it executes, an error otherwise.
Transact(p, tx, next) ==
  \/ /\ Execute(tx)
     /\ Goto(p, next)
     /\ UNCHANGED <<limbo, jobs, faults>>
  \/ /\ ~Accepted(tx)
     /\ Throw(p)
     /\ UNCHANGED <<chain, limbo, faults>>
  \/ /\ GiveUp(tx)
     /\ Throw(p)

\* The job completes in a step after the processor's last write.
Finish(p) ==
  /\ At(p, "finish")
  /\ Return(p, jobs)
  /\ UNCHANGED <<chain, limbo, doc, bet, settle, faults>>

-----------------------------------------------------------------------------
(* RoundsService.lockRound *)

ReadRound(p) ==
  /\ At(p, "read")
  /\ \/ /\ doc.status = "SETTLED"
        /\ Return(p, jobs)
     \/ /\ doc.status = "LOCKED"
        /\ x' = [x EXCEPT ![p].pc = "count", ![p].path = "locked",
                          ![p].att = doc.attestation]
        /\ UNCHANGED jobs
     \/ /\ doc.status = "PREDICTING"
        /\ x' = [x EXCEPT ![p].pc = "lock", ![p].path = "predicting"]
        /\ UNCHANGED jobs
     \/ /\ doc.status \in {"REVEALED", "FAILED"}
        /\ Abandon(p)
  /\ UNCHANGED <<chain, limbo, doc, bet, settle, faults>>

\* Mutated form: the lock is sent, and recorded without waiting for it.
LockAccountUnawaited(p) ==
  /\ At(p, "lock")
  /\ limbo' = limbo \cup {Send("lock")}
  /\ Goto(p, "recordLock")
  /\ UNCHANGED <<chain, doc, bet, jobs, settle, faults>>

\* The account cannot be delegated yet, so the lock goes to the base chain;
\* InvalidState means that somebody locked it before.
LockAccount(p) ==
  /\ At(p, "lock")
  /\ \/ /\ Execute(Send("lock"))
        /\ Goto(p, "recordLock")
        /\ UNCHANGED <<limbo, jobs, faults>>
     \/ /\ home = "program" /\ acct.status # "Predicting"
        /\ Goto(p, "recordLock")
        /\ UNCHANGED <<chain, limbo, jobs, faults>>
     \/ /\ home # "program"
        /\ Throw(p)
        /\ UNCHANGED <<chain, limbo, faults>>
     \/ /\ GiveUp(Send("lock"))
        /\ Throw(p)
  /\ UNCHANGED <<doc, bet, settle>>

\* Whatever the status has become since it was read.
RecordLock(p) ==
  /\ At(p, "recordLock")
  /\ doc' = [doc EXCEPT !.status = "LOCKED"]
  /\ Goto(p, "count")
  /\ UNCHANGED <<chain, limbo, bet, jobs, settle, faults>>

\* Mutated form: an attestation that is already there is prepared again.
CountBetsAfresh(p) ==
  /\ At(p, "count")
  /\ Goto(p, IF bet # "doc" THEN "markExpired" ELSE "request")
  /\ UNCHANGED <<chain, limbo, doc, bet, jobs, settle, faults>>

\* Counts the documents, then prepares the outcome unless the round it read was
\* locked with an attestation.
CountBets(p) ==
  /\ At(p, "count")
  /\ Goto(p, IF bet # "doc" THEN "markExpired"
             ELSE IF x[p].att # None THEN "readCommit" ELSE "request")
  /\ UNCHANGED <<chain, limbo, doc, bet, jobs, settle, faults>>

MarkExpired(p) ==
  /\ At(p, "markExpired")
  /\ doc' = [doc EXCEPT !.status = "FAILED"]
  /\ Goto(p, "finish")
  /\ UNCHANGED <<chain, limbo, bet, jobs, settle, faults>>

-----------------------------------------------------------------------------
(* RoundsService.prepareOutcome and delegateRoundToER *)

RequestRandomness(p) ==
  /\ At(p, "request")
  /\ Transact(p, Send("request"), "poll")
  /\ UNCHANGED <<doc, bet, settle>>

\* fetchRoundStateRaw: what the reader makes of the account, wherever it is
\* (and the outcome, with which nothing but a log is done).
RoundState == [inputsHash |-> acct.inputs, commitmentHash |-> acct.commitment]

SeeRandomness(p) ==
  /\ At(p, "poll")
  /\ RoundState.inputsHash # None
  /\ Goto(p, "attest")
  /\ UNCHANGED <<chain, limbo, doc, bet, jobs, settle, faults>>

\* Thirty polls: the oracle is late (a fault) or its answer was lost.
PollTimesOut(p) ==
  /\ At(p, "poll")
  /\ RoundState.inputsHash = None
  /\ IF oracle THEN Fault("timeouts") ELSE UNCHANGED faults
  /\ Throw(p)
  /\ UNCHANGED <<chain, limbo, doc, bet, settle>>

\* generateOutcome, and its answer saved whatever was there.
Attest(p) ==
  /\ At(p, "attest")
  /\ \E a \in Attestation : doc' = [doc EXCEPT !.attestation = a]
  /\ Goto(p, IF x[p].path = "predicting" THEN "delegate" ELSE "readCommit")
  /\ UNCHANGED <<chain, limbo, bet, jobs, settle, faults>>

DelegateAccount(p) ==
  /\ At(p, "delegate")
  /\ Transact(p, Send("delegate"), "recordDelegation")
  /\ UNCHANGED <<doc, bet, settle>>

RecordDelegation(p) ==
  /\ At(p, "recordDelegation")
  /\ doc' = [doc EXCEPT !.delegated = TRUE]
  /\ Goto(p, IF x[p].path = "fallback" THEN "queueAgain" ELSE "readCommit")
  /\ UNCHANGED <<chain, limbo, bet, jobs, settle, faults>>

-----------------------------------------------------------------------------
(* RoundsService.commitPreparedOutcome *)

OnRollup == doc.delegated /\ ~doc.undelegated

\* Reads the round again.
ReadCommit(p) ==
  /\ At(p, "readCommit")
  /\ \/ /\ doc.attestation = None
        /\ Throw(p)
     \/ /\ doc.attestation # None
        /\ x' = [x EXCEPT ![p].att = doc.attestation,
                          ![p].pc = IF OnRollup THEN "queueReveal" ELSE "commit"]
        /\ UNCHANGED jobs
  /\ UNCHANGED <<chain, limbo, doc, bet, settle, faults>>

\* Mutated form: an attestation the program does not trust is an error.
CommitOutcomeOrThrow(p) ==
  /\ At(p, "commit")
  /\ Transact(p, SendAtt("commit", x[p].att), "verify")
  /\ UNCHANGED <<doc, bet, settle>>

\* InvalidAttestation: the key is not the program's, so the round is delegated,
\* where no commitment is needed.
CommitOutcome(p) ==
  LET tx == SendAtt("commit", x[p].att) IN
  /\ At(p, "commit")
  /\ \/ /\ Execute(tx)
        /\ Goto(p, "verify")
        /\ UNCHANGED <<limbo, jobs, faults>>
     \/ /\ home = "program" /\ acct.status = "Locked" /\ ~x[p].att.signed
        /\ x' = [x EXCEPT ![p].pc = "delegate", ![p].path = "fallback"]
        /\ UNCHANGED <<chain, limbo, jobs, faults>>
     \/ /\ home # "program" \/ acct.status # "Locked"
        /\ Throw(p)
        /\ UNCHANGED <<chain, limbo, faults>>
     \/ /\ GiveUp(tx)
        /\ Throw(p)
  /\ UNCHANGED <<doc, bet, settle>>

VerifyCommit(p) ==
  /\ At(p, "verify")
  /\ IF RoundState.commitmentHash \in {None, x[p].att.result}
       THEN Goto(p, "queueReveal") /\ UNCHANGED jobs
       ELSE Throw(p)
  /\ UNCHANGED <<chain, limbo, doc, bet, settle, faults>>

QueueReveal(p) ==
  /\ At(p, "queueReveal")
  /\ jobs' = Added(jobs, "reveal")
  /\ Goto(p, "finish")
  /\ UNCHANGED <<chain, limbo, doc, bet, settle, faults>>

\* The job added after the fallback has no id, so it is always a new one; the
\* model keeps one at a time.
QueueAgain(p) ==
  /\ At(p, "queueAgain")
  /\ jobs' = IF jobs["again"].state \in {"waiting", "active"} THEN jobs
             ELSE [jobs EXCEPT !["again"] = NewJob]
  /\ Goto(p, "finish")
  /\ UNCHANGED <<chain, limbo, doc, bet, settle, faults>>

-----------------------------------------------------------------------------
(* RoundsService.revealOutcome and commitRoundStateToBase *)

\* Mutated form: the settlement is queued before the outcome is on the chain.
ReadRevealAndSettle(p) ==
  /\ At(p, "readReveal")
  /\ doc.attestation # None
  /\ settle' = IF settle = "none" THEN "queued" ELSE settle
  /\ x' = [x EXCEPT ![p].att = doc.attestation,
                    ![p].delegated = OnRollup,
                    ![p].pc = "reveal"]
  /\ UNCHANGED <<chain, limbo, doc, bet, jobs, faults>>

ReadReveal(p) ==
  /\ At(p, "readReveal")
  /\ \/ /\ doc.attestation = None
        /\ Throw(p)
     \/ /\ doc.attestation # None
        /\ x' = [x EXCEPT ![p].att = doc.attestation,
                          ![p].delegated = OnRollup,
                          ![p].pc = "reveal"]
        /\ UNCHANGED jobs
  /\ UNCHANGED <<chain, limbo, doc, bet, settle, faults>>

\* Mutated form: a reveal without an answer is taken for a reveal.
RevealAssumed(p) ==
  LET tx == SendAtt(IF x[p].delegated THEN "erReveal" ELSE "reveal", x[p].att) IN
  /\ At(p, "reveal")
  /\ \/ Transact(p, tx, "recordReveal")
     \/ GiveUp(tx) /\ Goto(p, "recordReveal") /\ UNCHANGED jobs
  /\ UNCHANGED <<doc, bet, settle>>

\* The rollup cannot write an account that left it; the router then takes the
\* transaction to the base chain, and nobody looks at its error.
Reveal(p) ==
  LET tx == SendAtt(IF x[p].delegated THEN "erReveal" ELSE "reveal", x[p].att) IN
  /\ At(p, "reveal")
  /\ \/ Transact(p, tx, "recordReveal")
     \/ /\ x[p].delegated /\ home # "rollup"
        /\ \/ /\ home = "program" /\ acct.status = "Locked"
              /\ Chain!ErReveal(x[p].att.result)
              /\ UNCHANGED oracle
           \/ UNCHANGED chain
        /\ Goto(p, "recordReveal")
        /\ UNCHANGED <<limbo, jobs, faults>>
  /\ UNCHANGED <<doc, bet, settle>>

\* Whatever the status has become; the verification that follows only logs.
RecordReveal(p) ==
  /\ At(p, "recordReveal")
  /\ doc' = [doc EXCEPT !.status = "REVEALED", !.outcome = x[p].att.result]
  /\ Goto(p, "publish")
  /\ UNCHANGED <<chain, limbo, bet, jobs, settle, faults>>

\* commitRoundStateToBase sends the contents of the account to the base chain,
\* which changes nothing here; the router's error goes unnoticed again.
Publish(p) ==
  /\ At(p, "publish")
  /\ \/ /\ doc.delegated => home = "rollup"
        /\ Goto(p, "queueSettle")
        /\ UNCHANGED <<jobs, faults>>
     \/ /\ doc.delegated /\ home # "rollup"
        /\ Throw(p) \/ (Goto(p, "queueSettle") /\ UNCHANGED jobs)
        /\ UNCHANGED faults
     \/ /\ doc.delegated
        /\ Fault("timeouts")
        /\ Throw(p)
  /\ UNCHANGED <<chain, limbo, doc, bet, settle>>

QueueSettle(p) ==
  /\ At(p, "queueSettle")
  /\ settle' = IF settle = "none" THEN "queued" ELSE settle
  /\ Goto(p, "finish")
  /\ UNCHANGED <<chain, limbo, doc, bet, jobs, faults>>

\* A call of the database, the queue or the TEE fails.
ServiceFails(p) ==
  /\ x[p].pc \in {"read", "recordLock", "count", "markExpired", "attest",
                  "recordDelegation", "readCommit", "queueReveal", "queueAgain",
                  "readReveal", "recordReveal", "queueSettle", "countExpired",
                  "recordSettled", "recordUndelegated"}
  /\ Fault("storeErrors")
  /\ Throw(p)
  /\ UNCHANGED <<chain, limbo, doc, bet, settle>>

-----------------------------------------------------------------------------
(* autoOpenRounds on a locked round, and RoundsService.undelegateRound *)

FindLocked ==
  /\ x["expirer"] = Idle
  /\ doc.status = "LOCKED"
  /\ Fault("expiries")
  /\ Goto("expirer", "countExpired")
  /\ UNCHANGED <<chain, limbo, doc, bet, jobs, settle>>

CountExpired ==
  /\ At("expirer", "countExpired")
  /\ Goto("expirer", IF bet = "doc" THEN "idle" ELSE "undelegate")
  /\ UNCHANGED <<chain, limbo, doc, bet, jobs, settle, faults>>

ExpireRound ==
  /\ At("expirer", "undelegate")
  /\ \/ /\ ~doc.delegated
        /\ Goto("expirer", "recordSettled")
        /\ UNCHANGED <<chain, limbo, jobs, faults>>
     \/ /\ doc.delegated
        /\ Transact("expirer", Send("undelegate"), "recordUndelegated")
     \/ /\ doc.delegated /\ home # "rollup"
        /\ Goto("expirer", "recordUndelegated")
        /\ UNCHANGED <<chain, limbo, jobs, faults>>
  /\ UNCHANGED <<doc, bet, settle>>

RecordExpiry ==
  /\ x["expirer"].pc \in {"recordSettled", "recordUndelegated"}
  /\ doc' = [doc EXCEPT !.status = "SETTLED",
                        !.undelegated = @ \/ At("expirer", "recordUndelegated")]
  /\ Goto("expirer", "idle")
  /\ UNCHANGED <<chain, limbo, bet, jobs, settle, faults>>

-----------------------------------------------------------------------------
(* The settlement job, as far as the round is concerned: BetSettlement has  *)
(* its bets, its faults and its attempts                                    *)

Others == <<limbo, bet, jobs, x, faults>>

SettlementUndelegates ==
  /\ settle = "queued"
  /\ \/ /\ ~OnRollup
        /\ settle' = "await"
        /\ UNCHANGED <<acct, home>>
     \/ /\ OnRollup
        /\ Chain!Undelegate
        /\ settle' = "note"
     \/ /\ OnRollup /\ home # "rollup"
        /\ settle' \in {"note", "failed"}
        /\ UNCHANGED <<acct, home>>
  /\ UNCHANGED <<oracle, doc, Others>>

SettlementNotes ==
  /\ settle = "note"
  /\ doc' = [doc EXCEPT !.undelegated = TRUE]
  /\ settle' = "await"
  /\ UNCHANGED <<chain, Others>>

\* The bets are settled, or refunded; without an outcome on the base chain
\* every attempt fails.
SettlementRuns ==
  /\ settle = "await"
  /\ \/ /\ home = "program" /\ acct.outcome # Pending
        /\ \/ settle' = "close" /\ doc' = [doc EXCEPT !.status = "SETTLED"]
           \/ settle' = "done" /\ doc' = [doc EXCEPT !.status = "FAILED"]
     \/ /\ home = "rollup" \/ (home = "program" /\ acct.outcome = Pending)
        /\ settle' = "failed"
        /\ UNCHANGED doc
  /\ UNCHANGED <<chain, Others>>

\* settleRound, whose failure is only logged.
SettlementCloses ==
  /\ settle = "close"
  /\ (home = "program" /\ Chain!Settle) \/ UNCHANGED <<acct, home>>
  /\ settle' = "done"
  /\ UNCHANGED <<oracle, doc, Others>>

SettlementStep ==
  \/ SettlementUndelegates
  \/ SettlementNotes
  \/ SettlementRuns
  \/ SettlementCloses

-----------------------------------------------------------------------------
(* The bet, the recovery of stalled rounds, crashes *)

PlaceBet ==
  /\ bet = "none"
  /\ home = "program" /\ acct.status = "Predicting"
  /\ bet' = "placed"
  /\ UNCHANGED <<chain, limbo, doc, jobs, settle, x, faults>>

\* confirmBet reads the round, and creates the document later.
StartConfirm ==
  /\ bet = "placed"
  /\ doc.status \in {"PREDICTING", "LOCKED"}
  /\ bet' = "confirming"
  /\ UNCHANGED <<chain, limbo, doc, jobs, settle, x, faults>>

ConfirmBet ==
  /\ bet = "confirming"
  /\ bet' = "doc"
  /\ UNCHANGED <<chain, limbo, doc, jobs, settle, x, faults>>

\* Mutated form: only a job that is known is replaced.
RecoverEnded ==
  /\ doc.status = "PREDICTING"
  /\ jobs["lock"].state \in {"completed", "failed"}
  /\ jobs' = [jobs EXCEPT !["lock"] = NewJob]
  /\ UNCHANGED <<chain, limbo, doc, bet, settle, x, faults>>

\* recoverStalledRounds: a round still predicting long after its lock was due,
\* whose lock job is not under way, gets a new one.
Recover ==
  /\ doc.status = "PREDICTING"
  /\ jobs["lock"].state \notin {"waiting", "active"}
  /\ jobs' = [jobs EXCEPT !["lock"] = NewJob]
  /\ UNCHANGED <<chain, limbo, doc, bet, settle, x, faults>>

\* The server dies and comes back; an active job is found stalled.
Crash ==
  /\ Fault("crashes")
  /\ x' = [p \in Procs |-> Idle]
  /\ jobs' = [n \in JobNames |->
               LET j == jobs[n] IN
               IF j.state # "active" THEN j
               ELSE [j EXCEPT !.stalls = @ + 1,
                              !.state = IF j.stalls < MaxStalls THEN "waiting"
                                                                ELSE "failed"]]
  /\ bet' = IF bet = "confirming" THEN "placed" ELSE bet
  /\ UNCHANGED <<chain, limbo, doc, settle>>

-----------------------------------------------------------------------------
OpenDoc == [status |-> "PREDICTING", attestation |-> None, delegated |-> FALSE,
            undelegated |-> FALSE, outcome |-> None]

\* openRound has created the document.  The lock job's delay is over, or there is
\* none: the scheduler died before it added it, or an admin opened the round.
Init ==
  /\ acct = [Chain!NoAccount EXCEPT !.status = "Predicting"]
  /\ home = "program"
  /\ oracle = FALSE
  /\ limbo = {}
  /\ doc = OpenDoc
  /\ bet = "none"
  /\ \E lock \in {NoJob, NewJob} :
       jobs = [n \in JobNames |-> IF n = "lock" THEN lock ELSE NoJob]
  /\ settle = "none"
  /\ x = [p \in Procs |-> Idle]
  /\ faults \in [spent : {[k \in Kinds |-> 0]}, budget : Budgets]

ServiceStep(p) ==
  \/ ReadRound(p)
  \/ LockAccount(p)
  \/ RecordLock(p)
  \/ CountBets(p)
  \/ MarkExpired(p)
  \/ RequestRandomness(p)
  \/ SeeRandomness(p)
  \/ PollTimesOut(p)
  \/ Attest(p)
  \/ DelegateAccount(p)
  \/ RecordDelegation(p)
  \/ ReadCommit(p)
  \/ CommitOutcome(p)
  \/ VerifyCommit(p)
  \/ QueueReveal(p)
  \/ QueueAgain(p)
  \/ ReadReveal(p)
  \/ Reveal(p)
  \/ RecordReveal(p)
  \/ Publish(p)
  \/ QueueSettle(p)
  \/ Finish(p)

ExpirerStep ==
  \/ FindLocked
  \/ CountExpired
  \/ ExpireRound
  \/ RecordExpiry

WorkerStep ==
  \/ \E n \in JobNames : TakeJob(n)
  \/ ServiceStep("worker")

ChainStep ==
  \/ Callback
  \/ Undelegated
  \/ \E tx \in Tx : Land(tx) \/ Expire(tx)

Next ==
  \/ WorkerStep
  \/ CallLock
  \/ ServiceStep("admin")
  \/ ExpirerStep
  \/ \E p \in Procs : ServiceFails(p)
  \/ SettlementStep
  \/ ChainStep
  \/ PlaceBet
  \/ StartConfirm
  \/ ConfirmBet
  \/ Recover
  \/ Crash

Spec == Init /\ [][Next]_vars

\* The worker runs its jobs and every await returns, the oracle answers, the
\* validator finishes an undelegation, the settlement job runs, the recovery
\* is a repeated job.  Bets, admins and faults come as they like.
Fairness ==
  /\ WF_vars(WorkerStep)
  /\ WF_vars(Callback)
  /\ WF_vars(Undelegated)
  /\ WF_vars(SettlementStep)
  /\ WF_vars(Recover)

FairSpec == Spec /\ Fairness

-----------------------------------------------------------------------------
(* Properties *)

\* What a process may be about to do.
Steps == {"idle", "read", "lock", "recordLock", "count", "markExpired", "request",
          "poll", "attest", "delegate", "recordDelegation", "readCommit",
          "commit", "verify", "queueReveal", "queueAgain", "readReveal", "reveal",
          "recordReveal", "publish", "queueSettle", "finish", "countExpired",
          "undelegate", "recordSettled", "recordUndelegated"}

Statuses == {"PREDICTING", "LOCKED", "REVEALED", "SETTLED", "FAILED"}

\* The state keeps its shape.
TypeOK ==
  /\ acct \in Chain!Account
  /\ home \in Chain!Homes
  /\ oracle \in BOOLEAN
  /\ limbo \subseteq Tx
  /\ doc \in [status : Statuses, attestation : Attestation \cup {None},
              delegated : BOOLEAN, undelegated : BOOLEAN,
              outcome : Results \cup {None}]
  /\ bet \in {"none", "placed", "confirming", "doc"}
  /\ jobs \in [JobNames ->
                [state : {"none", "waiting", "active", "completed", "failed"},
                 attempts : 0 .. MaxAttempts, stalls : Nat]]
  /\ x \in [Procs -> [pc : Steps, task : JobNames \cup {"none"},
                      path : {"none", "locked", "predicting", "fallback"},
                      att : Attestation \cup {None}, delegated : BOOLEAN]]
  /\ settle \in {"none", "queued", "note", "await", "close", "done", "failed"}

\* No outcome is attested, no account delegated and no round called locked, or
\* anything later, while the program still takes bets on it, whatever call got
\* no answer, failed to be recorded or was repeated, and whoever runs the steps.
LockedOnChain ==
  \/ acct.status # "Predicting"
  \/ doc.status = "PREDICTING" /\ doc.attestation = None /\ ~doc.delegated

\* The inductive invariant behind LockedOnChain: while the program takes bets, the
\* document is as openRound left it, no settlement is queued, and no process has
\* passed the lock or knows an attestation.
LockedInv ==
  acct.status = "Predicting" =>
    /\ doc = OpenDoc
    /\ settle = "none"
    /\ x \in [Procs -> [pc : {"idle", "read", "lock", "readReveal", "finish"},
                        task : JobNames \cup {"none"},
                        path : {"none", "predicting"}, att : {None},
                        delegated : {FALSE}]]

\* What follows is promised as long as the worker works on the round alone: a
\* call of the lock endpoint that overlaps the lock job attests a second outcome,
\* and an expiry takes the account from under the reveal.
Alone == faults.spent.admin = 0 /\ faults.spent.expiries = 0

\* Once an outcome is attested no attempt attests another one, although
\* generateOutcome may answer differently each time.
AttestationIsFinal ==
  [][Alone /\ doc.attestation # None => doc'.attestation = doc.attestation]_vars

\* The outcome shown to the players is the outcome on the chain.
RevealedIsOnChain ==
  Alone /\ doc.outcome # None => acct.outcome = doc.outcome

\* What was committed is what is revealed, on the rollup too, where the program
\* compares nothing.
CommitmentHonoured ==
  Alone /\ acct.commitment # None /\ acct.outcome # Pending
    => acct.outcome = acct.commitment

Over == doc.status \in {"FAILED", "SETTLED"}

\* A round that failed or was settled stays so, although every status is written
\* without a look at what it has become: no retry takes the round back.  A
\* crash after the settlement was queued can: it repeats the reveal.
TerminalStays ==
  [][Alone /\ faults.spent.crashes = 0 /\ Over => Over']_vars

\* The settlement job is queued only when the account holds an outcome, so that
\* no attempt of it waits in vain.  It may not if autoOpenRounds expires a round
\* it found without documents while the bet of it is being confirmed.
SettleOnlyRevealed ==
  faults.spent.expiries = 0 /\ settle # "none" => acct.outcome # Pending

\* A bet that has its document while the round is predicting reaches the
\* settlement job, two chain calls without an answer notwithstanding.
BetReachesSettlement ==
  bet = "doc" /\ doc.status = "PREDICTING" ~> settle # "none"

\* Every round ends, be it without bets or with a lock job that was never added.
RoundEnds == <>[]Over

\* README.md, line 18: "Winners are paid automatically (or refunded if
\* something fails)": no round ends with a bet left to itself.
NoBetLeftBehind ==
  ~(doc.status = "FAILED" /\ bet = "doc" /\ settle = "none")

=============================================================================
