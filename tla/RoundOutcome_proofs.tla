------------------------ MODULE RoundOutcome_proofs ------------------------
(***************************************************************************)
(* One outcome and one ending for a round: the properties of               *)
(* RoundLifecycle besides LockedOnChain, for any results, attempts, faults *)
(* and crashes.                                                            *)
(*                                                                         *)
(* The argument goes in layers, each of which uses the ones before it.     *)
(* ShapeInv: the types, and a process that needs an attestation has one.   *)
(* RevealInv: until the account holds an outcome nobody is past the        *)
(* reveal, and an account called delegated is on the rollup.  AttestInv: a *)
(* worker that is alone attests only where nothing was attested.           *)
(* OutcomeInv: so all that is ever sent, committed, revealed or shown,     *)
(* late or not, is what that one attestation says. EndingInv: without      *)
(* crashes, who ends the round is the last to write its status.            *)
(***************************************************************************)
EXTENDS RoundLifecycle, TLAPS

-----------------------------------------------------------------------------
(* Types                                                                   *)

\* What TypeOK says of a process, of the document and of a job.
Proc == [pc : Steps, task : JobNames \cup {"none"},
         path : {"none", "locked", "predicting", "fallback"},
         att : Attestation \cup {None}, delegated : BOOLEAN]

Document == [status : Statuses, attestation : Attestation \cup {None},
             delegated : BOOLEAN, undelegated : BOOLEAN,
             outcome : Results \cup {None}]

Job == [state : {"none", "waiting", "active", "completed", "failed"},
        attempts : 0 .. MaxAttempts, stalls : Nat]

\* The account, the oracle and the transactions keep their shape.
ChainTypes ==
  /\ acct \in Chain!Account
  /\ home \in Chain!Homes
  /\ oracle \in BOOLEAN
  /\ limbo \subseteq Tx

\* A process about to send, compare or record an attestation has one.
KnowsAttestation ==
  \A p \in Procs :
    x[p].pc \in {"commit", "verify", "reveal", "recordReveal"} =>
      x[p].att \in Attestation

\* The job the worker runs is active, and a job that is not over has an
\* attempt left, so that an attempt that fails stays within MaxAttempts.
JobsInHand ==
  /\ x["worker"].pc # "idle" => /\ x["worker"].task \in JobNames
                                /\ jobs[x["worker"].task].state = "active"
  /\ \A n \in JobNames : jobs[n].state \in {"waiting", "active"} =>
                           jobs[n].attempts < MaxAttempts

ProcTypes ==
  /\ x \in [Procs -> Proc]
  /\ jobs \in [JobNames -> Job]
  /\ KnowsAttestation
  /\ JobsInHand

\* The inductive form of TypeOK.
ShapeInv ==
  /\ ChainTypes
  /\ doc \in Document
  /\ bet \in {"none", "placed", "confirming", "doc"}
  /\ settle \in {"none", "queued", "note", "await", "close", "done", "failed"}
  /\ ProcTypes

\* A process that goes on changes its place only.
LEMMA GotoStep ==
  ASSUME x \in [Procs -> Proc], NEW p \in Procs, NEW pc \in Steps, Goto(p, pc)
  PROVE  /\ x' \in [Procs -> Proc]
         /\ x'[p].pc = pc
         /\ x'[p].task = x[p].task
         /\ x'[p].path = x[p].path
         /\ x'[p].att = x[p].att
         /\ x'[p].delegated = x[p].delegated
         /\ \A q \in Procs : q # p => x'[q] = x[q]
  BY DEF Goto, Proc

LEMMA IdleFields ==
  /\ Idle \in Proc
  /\ Idle.pc = "idle" /\ Idle.task = "none" /\ Idle.path = "none"
  /\ Idle.att = None /\ Idle.delegated = FALSE
<1>1. "idle" \in Steps
  BY DEF Steps
<1>2. /\ Idle.pc = "idle" /\ Idle.task = "none" /\ Idle.path = "none"
      /\ Idle.att = None /\ Idle.delegated = FALSE
  BY DEF Idle
<1>3. Idle \in Proc
  BY <1>1 DEF Idle, Proc
<1>. QED BY <1>2, <1>3

\* A process that ends is idle; the others are as they were.
LEMMA EndStep ==
  ASSUME x \in [Procs -> Proc], NEW p \in Procs, x' = [x EXCEPT ![p] = Idle]
  PROVE  /\ x' \in [Procs -> Proc]
         /\ x'[p] = Idle
         /\ \A q \in Procs : q # p => x'[q] = x[q]
  BY IdleFields

\* A transaction that executes leaves a round account.
LEMMA ExecuteTypes ==
  ASSUME ChainTypes, NEW tx \in Tx, Execute(tx)
  PROVE  acct' \in Chain!Account /\ home' \in Chain!Homes /\ oracle' \in BOOLEAN
<1>. USE DEF ChainTypes
<1>1. CASE tx.kind \in {"lock", "request", "delegate", "undelegate"}
  BY <1>1 DEF Execute, Effect, Chain!Account, Chain!Homes, Chain!Lock,
     Chain!Delegate, Chain!Undelegate, Chain!Write
<1>2. CASE tx.kind \in {"commit", "reveal", "erReveal"}
  <2>1. tx.att.result \in Results
    BY <1>2 DEF Tx, Attestation
  <2>. QED BY <1>2, <2>1 DEF Execute, Effect, Chain!Account, Chain!Homes,
              Chain!CommitHash, Chain!Reveal, Chain!ErReveal, Chain!Write
<1>. QED BY <1>1, <1>2 DEF Tx

\* So does one whose sender gave up.
LEMMA GiveUpTypes ==
  ASSUME ChainTypes, NEW tx \in Tx, GiveUp(tx)
  PROVE  ChainTypes'
  BY DEF ChainTypes, GiveUp, chain

\* The job after an attempt that failed.
LEMMA NextJob ==
  ASSUME NEW j \in Job, j.attempts < MaxAttempts, NEW k,
         k = [j EXCEPT !.attempts = @ + 1,
                       !.state = IF j.attempts + 1 < MaxAttempts
                                   THEN "waiting" ELSE "failed"]
  PROVE  /\ k \in Job
         /\ k.state \in {"waiting", "failed"}
         /\ k.state = "waiting" => k.attempts < MaxAttempts
<1>1. /\ j.attempts \in Nat /\ MaxAttempts \in Nat
      /\ j.attempts + 1 \in 0 .. MaxAttempts
  BY LifecycleAssumption DEF Job
<1>2. k.attempts = j.attempts + 1 /\ k.stalls = j.stalls
  BY DEF Job
<1>3. k.state = IF j.attempts + 1 < MaxAttempts THEN "waiting" ELSE "failed"
  BY DEF Job
<1>4. k \in Job
  BY <1>1 DEF Job
<1>. QED BY <1>1, <1>2, <1>3, <1>4

\* One job changes.
LEMMA SetJob ==
  ASSUME jobs \in [JobNames -> Job], NEW n \in JobNames, NEW k \in Job,
         jobs' = [jobs EXCEPT ![n] = k]
  PROVE  /\ jobs' \in [JobNames -> Job]
         /\ jobs'[n] = k
         /\ \A m \in JobNames : m # n => jobs'[m] = jobs[m]
  OBVIOUS

\* A process that ends, whichever way, leaves its job waiting with an attempt
\* left, or over.
LEMMA EndJob ==
  ASSUME ProcTypes, NEW p \in Procs, x[p].pc # "idle",
         Return(p, jobs) \/ Throw(p) \/ Abandon(p)
  PROVE  ProcTypes'
<1>1. /\ x' \in [Procs -> Proc] /\ x'[p] = Idle
      /\ \A q \in Procs : q # p => x'[q] = x[q]
  BY EndStep DEF Return, Throw, Abandon, ProcTypes
<1>2. KnowsAttestation'
  BY <1>1, IdleFields DEF KnowsAttestation, ProcTypes
<1>3. CASE p # "worker"
  <2>1. jobs' = jobs
    BY <1>3 DEF Return, Throw, Abandon, Ended
  <2>2. x'["worker"] = x["worker"]
    BY <1>1, <1>3 DEF Procs
  <2>. QED BY <1>1, <1>2, <2>1, <2>2 DEF ProcTypes, JobsInHand
<1>4. CASE p = "worker"
  <2>1. PICK n \in JobNames : /\ x["worker"].task = n
                              /\ jobs[n] \in Job
                              /\ jobs[n].attempts < MaxAttempts
    BY <1>4 DEF ProcTypes, JobsInHand
  <2>2. \E k \in Job : /\ jobs' = [jobs EXCEPT ![n] = k]
                       /\ k.state \in {"waiting", "completed", "failed"}
                       /\ k.state = "waiting" => k.attempts < MaxAttempts
    <3>. DEFINE j == jobs[n]
    <3>1. CASE Throw(p)
      <4>. DEFINE k == [j EXCEPT !.attempts = @ + 1,
                        !.state = IF j.attempts + 1 < MaxAttempts
                                    THEN "waiting" ELSE "failed"]
      <4>1. jobs' = [jobs EXCEPT ![n] = k]
        BY <1>4, <2>1, <3>1 DEF Throw
      <4>2. /\ k \in Job /\ k.state \in {"waiting", "failed"}
            /\ k.state = "waiting" => k.attempts < MaxAttempts
        BY <2>1, NextJob
      <4>. QED BY <4>1, <4>2
    <3>2. CASE Return(p, jobs) \/ Abandon(p)
      <4>1. PICK s \in {"completed", "failed"} :
              jobs' = [jobs EXCEPT ![n].state = s]
        BY <1>4, <2>1, <3>2 DEF Return, Abandon, Ended
      <4>2. [j EXCEPT !.state = s] \in Job /\ [j EXCEPT !.state = s].state = s
        BY <2>1 DEF Job
      <4>. QED BY <4>1, <4>2
    <3>. QED BY <3>1, <3>2
  <2>3. JobsInHand' /\ jobs' \in [JobNames -> Job]
    <3>1. PICK k \in Job : /\ jobs' = [jobs EXCEPT ![n] = k]
                           /\ k.state \in {"waiting", "completed", "failed"}
                           /\ k.state = "waiting" => k.attempts < MaxAttempts
      BY <2>2
    <3>2. jobs' \in [JobNames -> Job] /\ jobs'[n] = k
          /\ \A m \in JobNames : m # n => jobs'[m] = jobs[m]
      BY <3>1, SetJob DEF ProcTypes
    <3>3. x'["worker"].pc = "idle"
      BY <1>1, <1>4, IdleFields
    <3>. QED BY <2>1, <3>1, <3>2, <3>3 DEF JobsInHand, ProcTypes
  <2>. QED BY <1>1, <1>2, <2>3 DEF ProcTypes
<1>. QED BY <1>3, <1>4

\* The places where a process acts on the attestation it holds.
Knowing == {"commit", "verify", "reveal", "recordReveal"}

\* A process that goes on keeps its job.
LEMMA ForwardStep ==
  ASSUME ProcTypes, NEW p \in Procs, x[p].pc # "idle", UNCHANGED jobs,
         x' \in [Procs -> Proc], x'[p].task = x[p].task,
         x'[p].pc \in Knowing => x'[p].att \in Attestation,
         \A q \in Procs : q # p => x'[q] = x[q]
  PROVE  ProcTypes'
<1>1. KnowsAttestation'
  BY DEF KnowsAttestation, Knowing, ProcTypes
<1>2. JobsInHand'
  <2>1. CASE p = "worker"
    BY <2>1 DEF JobsInHand, ProcTypes
  <2>2. CASE p # "worker"
    <3>1. x'["worker"] = x["worker"]
      BY <2>2 DEF Procs
    <3>. QED BY <3>1 DEF JobsInHand, ProcTypes
  <2>. QED BY <2>1, <2>2
<1>. QED BY <1>1, <1>2 DEF ProcTypes

\* The same for a step that only goes on.
LEMMA GoStep ==
  ASSUME ProcTypes, NEW p \in Procs, x[p].pc # "idle", UNCHANGED jobs,
         NEW pc \in Steps, Goto(p, pc),
         pc \in Knowing => x[p].att \in Attestation
  PROVE  ProcTypes'
<1>1. x \in [Procs -> Proc]
  BY DEF ProcTypes
<1>2. /\ x' \in [Procs -> Proc]
      /\ x'[p].pc = pc
      /\ x'[p].task = x[p].task
      /\ x'[p].att = x[p].att
      /\ \A q \in Procs : q # p => x'[q] = x[q]
  BY <1>1, GotoStep
<1>. QED BY <1>2, ForwardStep

LEMMA NewJobIs ==
  /\ NewJob \in Job
  /\ NewJob.state = "waiting" /\ NewJob.attempts = 0 /\ NewJob.stalls = 0
  BY LifecycleAssumption DEF NewJob, NoJob, Job

\* The same for a step that adds a job besides.
LEMMA AddStep ==
  ASSUME ProcTypes, NEW p \in Procs, x[p].pc # "idle",
         NEW n \in JobNames, jobs[n].state # "active",
         jobs' = [jobs EXCEPT ![n] = NewJob],
         NEW pc \in Steps \ Knowing, Goto(p, pc)
  PROVE  ProcTypes'
<1>1. x \in [Procs -> Proc] /\ jobs \in [JobNames -> Job]
  BY DEF ProcTypes
<1>2. /\ x' \in [Procs -> Proc]
      /\ x'[p].pc = pc
      /\ x'[p].task = x[p].task
      /\ \A q \in Procs : q # p => x'[q] = x[q]
  BY <1>1, GotoStep
<1>3. /\ jobs' \in [JobNames -> Job]
      /\ jobs'[n] = NewJob
      /\ \A m \in JobNames : m # n => jobs'[m] = jobs[m]
  BY <1>1, NewJobIs, SetJob
<1>4. KnowsAttestation'
  BY <1>2 DEF KnowsAttestation, Knowing, ProcTypes
<1>5. /\ x'["worker"].task = x["worker"].task
      /\ x["worker"].pc = "idle" => x'["worker"].pc = "idle"
  BY <1>2 DEF Procs
<1>6. JobsInHand'
  BY <1>3, <1>5, NewJobIs, LifecycleAssumption DEF JobsInHand, ProcTypes
<1>. QED BY <1>2, <1>3, <1>4, <1>6 DEF ProcTypes

\* A transaction that needs an answer keeps all the shapes.
LEMMA TransactTypes ==
  ASSUME ChainTypes, ProcTypes, NEW p \in Procs, x[p].pc # "idle",
         NEW tx \in Tx, NEW pc \in Steps, Transact(p, tx, pc),
         pc \in Knowing => x[p].att \in Attestation
  PROVE  ChainTypes' /\ ProcTypes'
<1>1. CASE Execute(tx) /\ Goto(p, pc) /\ UNCHANGED <<limbo, jobs, faults>>
  BY <1>1, ExecuteTypes, GoStep DEF ChainTypes
<1>2. CASE Throw(p) /\ UNCHANGED <<chain, limbo, faults>>
  BY <1>2, EndJob DEF ChainTypes, chain
<1>3. CASE GiveUp(tx) /\ Throw(p)
  BY <1>3, EndJob, GiveUpTypes
<1>. QED BY <1>1, <1>2, <1>3 DEF Transact

LEMMA ChainUnchanged ==
  ASSUME ChainTypes, UNCHANGED <<chain, limbo>>
  PROVE  ChainTypes'
  BY DEF ChainTypes, chain

LEMMA SendTypes ==
  /\ \A kind \in {"lock", "request", "delegate", "undelegate"} : Send(kind) \in Tx
  /\ \A kind \in {"commit", "reveal", "erReveal"}, a \in Attestation :
       SendAtt(kind, a) \in Tx
  BY DEF Send, SendAtt, Tx

LEMMA StepNames ==
  {"idle", "read", "lock", "recordLock", "count", "markExpired", "request",
   "poll", "attest", "delegate", "recordDelegation", "readCommit",
   "commit", "verify", "queueReveal", "queueAgain", "readReveal", "reveal",
   "recordReveal", "publish", "queueSettle", "finish", "countExpired",
   "undelegate", "recordSettled", "recordUndelegated"} = Steps
  BY DEF Steps

\* Every step of the service keeps the shape, action by action.
LEMMA ServiceTypes ==
  ASSUME ShapeInv, NEW p \in Procs, ServiceStep(p)
  PROVE  ShapeInv'
<1>. USE DEF At
<1>1. /\ ChainTypes /\ ProcTypes /\ doc \in Document
      /\ x \in [Procs -> Proc] /\ x[p] \in Proc
  BY DEF ShapeInv, ProcTypes
<1>2. CASE ReadRound(p)
  <2>1. CASE Return(p, jobs) \/ Abandon(p)
    BY <1>1, <1>2, <2>1, EndJob, ChainUnchanged DEF ReadRound, ShapeInv
  <2>2. CASE ~(Return(p, jobs) \/ Abandon(p))
    <3>1. UNCHANGED jobs /\ x[p].pc # "idle"
      BY <1>2, <2>2 DEF ReadRound
    <3>2. /\ x' \in [Procs -> Proc]
          /\ x'[p].task = x[p].task /\ x'[p].pc \in {"count", "lock"}
          /\ \A q \in Procs : q # p => x'[q] = x[q]
      BY <1>1, <1>2, <2>2, StepNames DEF ReadRound, Proc, Document
    <3>3. ProcTypes'
      BY <1>1, <3>1, <3>2, ForwardStep DEF Knowing
    <3>. QED BY <1>1, <1>2, <3>3, ChainUnchanged DEF ReadRound, ShapeInv
  <2>. QED BY <2>1, <2>2
<1>3. CASE LockAccount(p)
  <2>1. "recordLock" \in Steps \ Knowing /\ Send("lock") \in Tx
    BY SendTypes DEF Steps, Knowing
  <2>2. ChainTypes'
    BY <1>1, <1>3, <2>1, ExecuteTypes, GiveUpTypes, ChainUnchanged
       DEF LockAccount, ChainTypes
  <2>3. ProcTypes'
    BY <1>1, <1>3, <2>1, GoStep, EndJob DEF LockAccount
  <2>. QED BY <1>3, <2>2, <2>3 DEF LockAccount, ShapeInv
<1>4. CASE RecordLock(p) \/ CountBets(p) \/ MarkExpired(p) \/ QueueSettle(p)
  <2>1. {"count", "markExpired", "readCommit", "request", "finish"}
           \subseteq Steps \ Knowing
    BY DEF Steps, Knowing
  <2>2. ProcTypes'
    BY <1>1, <1>4, <2>1, GoStep DEF RecordLock, CountBets, MarkExpired,
       QueueSettle
  <2>3. doc' \in Document /\ UNCHANGED <<chain, limbo, bet>>
    BY <1>1, <1>4 DEF RecordLock, CountBets, MarkExpired, QueueSettle, Document,
       Statuses
  <2>. QED BY <1>1, <1>4, <2>2, <2>3, ChainUnchanged DEF RecordLock, CountBets,
              MarkExpired, QueueSettle, ShapeInv
<1>5. CASE RequestRandomness(p) \/ DelegateAccount(p)
  <2>1. /\ {"poll", "recordDelegation"} \subseteq Steps \ Knowing
        /\ Send("request") \in Tx /\ Send("delegate") \in Tx
    BY SendTypes DEF Steps, Knowing
  <2>2. ChainTypes' /\ ProcTypes'
    BY <1>1, <1>5, <2>1, TransactTypes DEF RequestRandomness, DelegateAccount
  <2>. QED BY <1>5, <2>2 DEF RequestRandomness, DelegateAccount, ShapeInv
<1>6. CASE SeeRandomness(p) \/ PollTimesOut(p)
  <2>1. "attest" \in Steps \ Knowing
    BY DEF Steps, Knowing
  <2>2. ProcTypes'
    BY <1>1, <1>6, <2>1, GoStep, EndJob DEF SeeRandomness, PollTimesOut
  <2>. QED BY <1>1, <1>6, <2>2, ChainUnchanged DEF SeeRandomness, PollTimesOut,
              ShapeInv
<1>7. CASE Attest(p) \/ RecordDelegation(p)
  <2>1. {"delegate", "readCommit", "queueAgain"} \subseteq Steps \ Knowing
    BY DEF Steps, Knowing
  <2>2. ProcTypes'
    BY <1>1, <1>7, <2>1, GoStep DEF Attest, RecordDelegation
  <2>3. doc' \in Document
    BY <1>1, <1>7 DEF Attest, RecordDelegation, Document
  <2>. QED BY <1>1, <1>7, <2>2, <2>3, ChainUnchanged DEF Attest,
              RecordDelegation, ShapeInv
<1>8. CASE ReadCommit(p)
  <2>1. CASE Throw(p)
    BY <1>1, <1>8, <2>1, EndJob, ChainUnchanged DEF ReadCommit, ShapeInv
  <2>2. CASE ~Throw(p)
    <3>1. /\ UNCHANGED jobs /\ x[p].pc # "idle"
          /\ doc.attestation \in Attestation
          /\ x' = [x EXCEPT ![p].att = doc.attestation,
                            ![p].pc = IF OnRollup THEN "queueReveal" ELSE "commit"]
      BY <1>1, <1>8, <2>2 DEF ReadCommit, Document
    <3>2. /\ x' \in [Procs -> Proc]
          /\ x'[p].task = x[p].task /\ x'[p].att = doc.attestation
          /\ \A q \in Procs : q # p => x'[q] = x[q]
      BY ZenonT(60), <1>1, <3>1, StepNames DEF Proc
    <3>3. ProcTypes'
      BY <1>1, <3>1, <3>2, ForwardStep
    <3>. QED BY <1>1, <1>8, <3>3, ChainUnchanged DEF ReadCommit, ShapeInv
  <2>. QED BY <2>1, <2>2
<1>9. CASE CommitOutcome(p)
  <2>1. /\ {"verify", "delegate"} \subseteq Steps
        /\ x[p].att \in Attestation
        /\ SendAtt("commit", x[p].att) \in Tx
    BY <1>1, <1>9, SendTypes, StepNames DEF CommitOutcome, ProcTypes,
       KnowsAttestation
  <2>2. ChainTypes'
    BY <1>1, <1>9, <2>1, ExecuteTypes, GiveUpTypes, ChainUnchanged
       DEF CommitOutcome, ChainTypes
  <2>3. CASE /\ x' = [x EXCEPT ![p].pc = "delegate", ![p].path = "fallback"]
             /\ UNCHANGED jobs
    <3>1. /\ x' \in [Procs -> Proc]
          /\ x'[p].task = x[p].task /\ x'[p].pc = "delegate"
          /\ \A q \in Procs : q # p => x'[q] = x[q]
      BY <1>1, <2>1, <2>3 DEF Proc
    <3>2. ProcTypes'
      BY <1>1, <1>9, <2>3, <3>1, ForwardStep DEF Knowing, CommitOutcome
    <3>. QED BY <1>9, <2>2, <3>2 DEF CommitOutcome, ShapeInv
  <2>4. CASE (Goto(p, "verify") /\ UNCHANGED jobs) \/ Throw(p)
    <3>1. ProcTypes'
      BY <1>1, <1>9, <2>1, <2>4, GoStep, EndJob DEF CommitOutcome
    <3>. QED BY <1>9, <2>2, <3>1 DEF CommitOutcome, ShapeInv
  <2>. QED BY <1>9, <2>3, <2>4 DEF CommitOutcome
<1>10. CASE VerifyCommit(p) \/ Publish(p) \/ Finish(p)
  <2>1. {"queueReveal", "queueSettle"} \subseteq Steps \ Knowing
    BY DEF Steps, Knowing
  <2>2. ProcTypes'
    BY <1>1, <1>10, <2>1, GoStep, EndJob DEF VerifyCommit, Publish, Finish
  <2>. QED BY <1>1, <1>10, <2>2, ChainUnchanged DEF VerifyCommit, Publish,
              Finish, ShapeInv
<1>11. CASE QueueReveal(p) \/ QueueAgain(p)
  <2>1. "finish" \in Steps \ Knowing /\ {"reveal", "again"} \subseteq JobNames
    BY DEF Steps, Knowing, JobNames
  <2>2. \/ UNCHANGED jobs
        \/ \E n \in {"reveal", "again"} : /\ jobs[n].state # "active"
                                          /\ jobs' = [jobs EXCEPT ![n] = NewJob]
    BY <1>11 DEF QueueReveal, QueueAgain, Added
  <2>3. /\ x[p].pc # "idle" /\ Goto(p, "finish")
        /\ UNCHANGED <<chain, limbo, doc, bet, settle>>
    BY <1>11 DEF QueueReveal, QueueAgain
  <2>4. ProcTypes'
    BY <1>1, <2>1, <2>2, <2>3, GoStep, AddStep
  <2>. QED BY <1>1, <2>3, <2>4, ChainUnchanged DEF ShapeInv
<1>12. CASE ReadReveal(p)
  <2>1. CASE Throw(p)
    BY <1>1, <1>12, <2>1, EndJob, ChainUnchanged DEF ReadReveal, ShapeInv
  <2>2. CASE ~Throw(p)
    <3>1. /\ UNCHANGED jobs /\ x[p].pc # "idle"
          /\ doc.attestation \in Attestation
          /\ x' = [x EXCEPT ![p].att = doc.attestation,
                            ![p].delegated = OnRollup,
                            ![p].pc = "reveal"]
      BY <1>1, <1>12, <2>2 DEF ReadReveal, Document
    <3>2. OnRollup \in BOOLEAN
      BY <1>1 DEF OnRollup, Document
    <3>3. /\ x' \in [Procs -> Proc]
          /\ x'[p].task = x[p].task /\ x'[p].att = doc.attestation
          /\ \A q \in Procs : q # p => x'[q] = x[q]
      BY ZenonT(60), <1>1, <3>1, <3>2, StepNames DEF Proc
    <3>4. ProcTypes'
      BY <1>1, <3>1, <3>3, ForwardStep
    <3>. QED BY <1>1, <1>12, <3>4, ChainUnchanged DEF ReadReveal, ShapeInv
  <2>. QED BY <2>1, <2>2
<1>13. CASE Reveal(p)
  <2>. DEFINE kind == IF x[p].delegated THEN "erReveal" ELSE "reveal"
              tx == SendAtt(kind, x[p].att)
  <2>1. /\ x[p].pc # "idle" /\ "recordReveal" \in Steps
        /\ x[p].att \in Attestation
        /\ tx \in Tx
        /\ UNCHANGED <<doc, bet, settle>>
    BY <1>1, <1>13, SendTypes, StepNames DEF Reveal, ProcTypes, KnowsAttestation
  <2>2. CASE Transact(p, tx, "recordReveal")
    <3>. HIDE DEF tx
    <3>1. ChainTypes' /\ ProcTypes'
      BY <1>1, <2>1, <2>2, TransactTypes
    <3>. QED BY <2>1, <3>1 DEF ShapeInv
  <2>3. CASE /\ \/ Chain!ErReveal(x[p].att.result) /\ UNCHANGED oracle
                \/ UNCHANGED chain
             /\ Goto(p, "recordReveal")
             /\ UNCHANGED <<limbo, jobs, faults>>
    <3>1. ChainTypes'
      BY <1>1, <2>1, <2>3 DEF ChainTypes, chain, Attestation, Chain!ErReveal,
         Chain!Write, Chain!Account
    <3>2. ProcTypes'
      BY <1>1, <2>1, <2>3, GoStep
    <3>. QED BY <2>1, <3>1, <3>2 DEF ShapeInv
  <2>. QED BY <1>13, <2>2, <2>3 DEF Reveal
<1>14. CASE RecordReveal(p)
  <2>1. "publish" \in Steps \ Knowing /\ x[p].att \in Attestation
    BY <1>14 DEF Steps, Knowing, ShapeInv, ProcTypes, KnowsAttestation,
       RecordReveal
  <2>2. ProcTypes'
    BY <1>1, <1>14, <2>1, GoStep DEF RecordReveal
  <2>3. doc' \in Document
    BY <1>1, <1>14, <2>1 DEF RecordReveal, Document, Attestation, Statuses
  <2>. QED BY <1>1, <1>14, <2>2, <2>3, ChainUnchanged DEF RecordReveal, ShapeInv
<1>. QED BY <1>2, <1>3, <1>4, <1>5, <1>6, <1>7, <1>8, <1>9, <1>10, <1>11, <1>12,
            <1>13, <1>14 DEF ServiceStep

\* The worker takes a job that was waiting.
LEMMA TakeTypes ==
  ASSUME ShapeInv, NEW n \in JobNames, TakeJob(n)
  PROVE  ShapeInv'
<1>1. x \in [Procs -> Proc] /\ jobs \in [JobNames -> Job] /\ jobs[n] \in Job
      /\ "worker" \in Procs /\ x["worker"].pc = "idle"
  BY IdleFields DEF ShapeInv, ProcTypes, Procs, TakeJob
<1>. DEFINE j == [jobs[n] EXCEPT !.state = "active"]
            e == [Idle EXCEPT !.task = n,
                              !.pc = IF n = "lock" THEN "read" ELSE "readReveal"]
<1>2. /\ j \in Job /\ j.state = "active" /\ j.attempts = jobs[n].attempts
      /\ jobs[n].attempts < MaxAttempts
  BY <1>1 DEF Job, TakeJob, ShapeInv, ProcTypes, JobsInHand
<1>3. jobs' = [jobs EXCEPT ![n] = j] /\ x' = [x EXCEPT !["worker"] = e]
  BY DEF TakeJob
<1>4. e \in Proc /\ e.pc \in {"read", "readReveal"} /\ e.task = n
  BY <1>1, StepNames DEF Idle, Proc
<1>. HIDE DEF j, e
<1>5. /\ jobs' \in [JobNames -> Job] /\ jobs'[n] = j
      /\ \A m \in JobNames : m # n => jobs'[m] = jobs[m]
  BY <1>1, <1>2, <1>3
<1>6. /\ x' \in [Procs -> Proc] /\ x'["worker"] = e
      /\ \A q \in Procs : q # "worker" => x'[q] = x[q]
  BY <1>1, <1>3, <1>4
<1>7. KnowsAttestation'
  BY <1>4, <1>6 DEF KnowsAttestation, ShapeInv, ProcTypes
<1>8. JobsInHand'
  BY <1>2, <1>4, <1>5, <1>6 DEF JobsInHand, ShapeInv, ProcTypes
<1>. QED BY <1>5, <1>6, <1>7, <1>8, ChainUnchanged DEF ShapeInv, ProcTypes,
            TakeJob

\* The expiry of a round keeps the shape.
LEMMA ExpirerTypes ==
  ASSUME ShapeInv, ExpirerStep
  PROVE  ShapeInv'
<1>. USE DEF At
<1>1. /\ ChainTypes /\ ProcTypes /\ doc \in Document
      /\ "expirer" \in Procs /\ "expirer" # "worker"
      /\ x \in [Procs -> Proc]
  BY DEF ShapeInv, ProcTypes, Procs
<1>2. {"countExpired", "undelegate", "recordSettled", "recordUndelegated", "idle"}
        \subseteq Steps \ Knowing
  BY DEF Steps, Knowing
<1>3. ASSUME NEW pc \in Steps \ Knowing, Goto("expirer", pc), UNCHANGED jobs
      PROVE  ProcTypes'
  <2>1. /\ x' \in [Procs -> Proc] /\ x'["expirer"].pc = pc
        /\ \A q \in Procs : q # "expirer" => x'[q] = x[q]
    BY <1>1, <1>3, GotoStep
  <2>2. x'["worker"] = x["worker"]
    BY <1>1, <2>1 DEF Procs
  <2>. QED BY <1>3, <2>1, <2>2 DEF ProcTypes, KnowsAttestation, JobsInHand,
              Knowing, ShapeInv
<1>4. CASE FindLocked \/ CountExpired
  <2>1. ProcTypes'
    BY <1>2, <1>3, <1>4 DEF FindLocked, CountExpired
  <2>. QED BY <1>1, <1>4, <2>1, ChainUnchanged DEF FindLocked, CountExpired,
              ShapeInv
<1>5. CASE ExpireRound
  <2>1. Send("undelegate") \in Tx /\ x["expirer"].pc # "idle"
    BY <1>5, SendTypes DEF ExpireRound
  <2>2. ChainTypes' /\ ProcTypes'
    BY <1>1, <1>2, <1>3, <1>5, <2>1, TransactTypes, ChainUnchanged DEF ExpireRound
  <2>. QED BY <1>5, <2>2 DEF ExpireRound, ShapeInv
<1>6. CASE RecordExpiry
  <2>1. ProcTypes'
    BY <1>2, <1>3, <1>6 DEF RecordExpiry
  <2>2. doc' \in Document
    BY <1>1, <1>6 DEF RecordExpiry, Document, Statuses
  <2>. QED BY <1>1, <1>6, <2>1, <2>2, ChainUnchanged DEF RecordExpiry, ShapeInv
<1>. QED BY <1>4, <1>5, <1>6 DEF ExpirerStep

\* So does the settlement job.
LEMMA SettlementTypes ==
  ASSUME ShapeInv, SettlementStep
  PROVE  ShapeInv'
<1>1. ChainTypes /\ doc \in Document /\ UNCHANGED <<limbo, bet, jobs, x>>
  BY DEF ShapeInv, SettlementStep, SettlementUndelegates, SettlementNotes,
         SettlementRuns, SettlementCloses, Others
<1>2. ProcTypes'
  BY <1>1 DEF ShapeInv, ProcTypes, KnowsAttestation, JobsInHand
<1>3. doc' \in Document
  BY <1>1 DEF SettlementStep, SettlementUndelegates, SettlementNotes,
         SettlementRuns, SettlementCloses, Document, Statuses
<1>4. ChainTypes'
  BY <1>1 DEF SettlementStep, SettlementUndelegates, SettlementNotes,
         SettlementRuns, SettlementCloses, ChainTypes, chain, Chain!Undelegate,
         Chain!Settle, Chain!Write, Chain!Account, Chain!Homes
<1>5. settle' \in {"none", "queued", "note", "await", "close", "done", "failed"}
  BY DEF ShapeInv, SettlementStep, SettlementUndelegates, SettlementNotes,
         SettlementRuns, SettlementCloses
<1>. QED BY <1>1, <1>2, <1>3, <1>4, <1>5 DEF ShapeInv

\* So do the oracle, the validator and transactions that land late.
LEMMA ChainStepTypes ==
  ASSUME ShapeInv, ChainStep
  PROVE  ShapeInv'
<1>1. ChainTypes /\ UNCHANGED <<doc, bet, jobs, settle, x>>
  BY DEF ShapeInv, ChainStep, Callback, Undelegated, Land, Expire
<1>2. ProcTypes'
  BY <1>1 DEF ShapeInv, ProcTypes, KnowsAttestation, JobsInHand
<1>3. ASSUME Callback \/ Undelegated
      PROVE  ChainTypes'
  BY <1>1, <1>3 DEF ChainTypes, Callback, Undelegated, Chain!Callback,
     Chain!Return,
     Chain!Write, Chain!Account, Chain!Homes
<1>4. ASSUME NEW tx \in Tx, Land(tx) \/ Expire(tx)
      PROVE  ChainTypes'
  BY <1>1, <1>4, ExecuteTypes DEF ChainTypes, Land, Expire, chain
<1>5. ChainTypes'
  BY <1>3, <1>4 DEF ChainStep
<1>. QED BY <1>1, <1>2, <1>5 DEF ShapeInv

\* The job a crash interrupted.
LEMMA StalledJob ==
  ASSUME NEW j \in Job, NEW k,
         k = [j EXCEPT !.stalls = @ + 1,
                       !.state = IF j.stalls < MaxStalls THEN "waiting"
                                                         ELSE "failed"]
  PROVE  k \in Job /\ k.attempts = j.attempts /\ k.state \in {"waiting", "failed"}
<1>1. j.stalls \in Nat /\ j.stalls + 1 \in Nat
  BY DEF Job
<1>. QED BY <1>1 DEF Job

\* A crash keeps the shape.
LEMMA CrashTypes ==
  ASSUME ShapeInv, Crash
  PROVE  ShapeInv'
<1>1. x' \in [Procs -> Proc] /\ \A p \in Procs : x'[p].pc = "idle"
  BY IdleFields DEF Crash
<1>2. ASSUME NEW n \in JobNames
      PROVE  /\ jobs'[n] \in Job
             /\ jobs'[n].state \in {"waiting", "active"} =>
                  jobs'[n].attempts < MaxAttempts
  <2>1. PICK j \in Job : /\ jobs[n] = j
                         /\ j.state \in {"waiting", "active"} =>
                              j.attempts < MaxAttempts
    BY DEF ShapeInv, ProcTypes, JobsInHand
  <2>2. CASE j.state # "active"
    <3>1. jobs'[n] = j
      BY <2>1, <2>2 DEF Crash
    <3>. QED BY <2>1, <3>1
  <2>3. CASE j.state = "active"
    <3>. DEFINE k == [j EXCEPT !.stalls = @ + 1,
                               !.state = IF j.stalls < MaxStalls THEN "waiting"
                                                                 ELSE "failed"]
    <3>1. jobs'[n] = k
      BY <2>1, <2>3 DEF Crash
    <3>2. k \in Job /\ k.attempts = j.attempts
      BY StalledJob
    <3>. HIDE DEF k
    <3>. QED BY <2>1, <2>3, <3>1, <3>2
  <2>. QED BY <2>2, <2>3
<1>3. jobs' \in [JobNames -> Job]
  <2>. DEFINE F(n) == LET j == jobs[n] IN
               IF j.state # "active" THEN j
               ELSE [j EXCEPT !.stalls = @ + 1,
                              !.state = IF j.stalls < MaxStalls THEN "waiting"
                                                                ELSE "failed"]
  <2>1. jobs' = [n \in JobNames |-> F(n)]
    BY DEF Crash
  <2>. HIDE DEF F
  <2>. QED BY <1>2, <2>1
<1>4. ProcTypes'
  BY <1>1, <1>2, <1>3 DEF ProcTypes, KnowsAttestation, JobsInHand, Procs
<1>. QED BY <1>4, ChainUnchanged DEF Crash, ShapeInv

LEMMA ShapeInit == Init => ShapeInv
<1>. SUFFICES ASSUME Init PROVE ShapeInv
  OBVIOUS
<1>1. ChainTypes
  BY DEF Init, ChainTypes, Chain!NoAccount, Chain!Account, Chain!Homes
<1>2. doc \in Document
  BY DEF Init, OpenDoc, Document, Statuses
<1>3. PICK lock \in {NoJob, NewJob} :
        jobs = [n \in JobNames |-> IF n = "lock" THEN lock ELSE NoJob]
  BY DEF Init
<1>4. NoJob \in Job /\ NoJob.state = "none"
  BY LifecycleAssumption DEF NoJob, Job
<1>5. jobs \in [JobNames -> Job] /\ JobsInHand
  BY <1>3, <1>4, NewJobIs, IdleFields, LifecycleAssumption DEF Init, JobsInHand,
     Procs
<1>6. x \in [Procs -> Proc] /\ KnowsAttestation
  BY IdleFields DEF Init, KnowsAttestation
<1>. QED BY <1>1, <1>2, <1>5, <1>6 DEF Init, ShapeInv, ProcTypes

\* So does every step.
LEMMA ShapeStep ==
  ASSUME ShapeInv, [Next]_vars
  PROVE  ShapeInv'
<1>1. CASE WorkerStep \/ ServiceStep("admin")
  BY <1>1, TakeTypes, ServiceTypes DEF WorkerStep, Procs
<1>2. CASE ExpirerStep \/ SettlementStep \/ ChainStep \/ Crash
  BY <1>2, ExpirerTypes, SettlementTypes, ChainStepTypes, CrashTypes
<1>3. CASE CallLock
  <2>1. /\ "admin" \in Procs /\ "admin" # "worker" /\ "read" \in Steps \ Knowing
        /\ x \in [Procs -> Proc]
    BY DEF Procs, Steps, Knowing, ShapeInv, ProcTypes
  <2>2. /\ x' \in [Procs -> Proc] /\ x'["admin"].pc = "read"
        /\ \A q \in Procs : q # "admin" => x'[q] = x[q]
    BY <1>3, <2>1 DEF CallLock, Proc
  <2>3. x'["worker"] = x["worker"]
    BY <2>1, <2>2 DEF Procs
  <2>4. ProcTypes'
    BY <1>3, <2>2, <2>3 DEF ProcTypes, KnowsAttestation, JobsInHand, ShapeInv,
       CallLock
  <2>. QED BY <1>3, <2>4, ChainUnchanged DEF CallLock, ShapeInv
<1>4. ASSUME NEW p \in Procs, ServiceFails(p)
      PROVE  ShapeInv'
  <2>1. x[p].pc # "idle"
    BY <1>4 DEF ServiceFails
  <2>2. ProcTypes'
    BY <1>4, <2>1, EndJob DEF ServiceFails, ShapeInv
  <2>. QED BY <1>4, <2>2, ChainUnchanged DEF ServiceFails, ShapeInv
<1>5. CASE Recover
  <2>1. "lock" \in JobNames /\ jobs \in [JobNames -> Job]
    BY DEF JobNames, ShapeInv, ProcTypes
  <2>2. /\ jobs' \in [JobNames -> Job]
        /\ jobs'["lock"] = NewJob
        /\ \A m \in JobNames : m # "lock" => jobs'[m] = jobs[m]
    BY <1>5, <2>1, NewJobIs DEF Recover
  <2>3. ProcTypes'
    BY <1>5, <2>2, NewJobIs, LifecycleAssumption DEF Recover, ProcTypes,
       ShapeInv, KnowsAttestation, JobsInHand
  <2>. QED BY <1>5, <2>3, ChainUnchanged DEF Recover, ShapeInv
<1>6. CASE PlaceBet \/ StartConfirm \/ ConfirmBet \/ UNCHANGED vars
  <2>1. /\ UNCHANGED <<chain, limbo, doc, jobs, settle, x>>
        /\ bet' \in {"none", "placed", "confirming", "doc"}
    BY <1>6 DEF PlaceBet, StartConfirm, ConfirmBet, vars, ShapeInv
  <2>2. ProcTypes'
    BY <2>1 DEF ProcTypes, ShapeInv, KnowsAttestation, JobsInHand
  <2>. QED BY <2>1, <2>2, ChainUnchanged DEF ShapeInv
<1>. QED BY <1>1, <1>2, <1>3, <1>4, <1>5, <1>6 DEF Next

\* The inductive form of the type invariant holds: in particular no process ever
\* sends, compares or records an attestation it does not have.
THEOREM ShapeInvariant == Spec => []ShapeInv
  BY ShapeInit, ShapeStep, PTL DEF Spec

\* The document, the account, the jobs and the processes keep their shape, and no
\* job is attempted more often than MaxAttempts.
THEOREM LifecycleTypes == Spec => []TypeOK
<1>1. ShapeInv => TypeOK
  BY DEF ShapeInv, TypeOK, ChainTypes, ProcTypes, Proc, Document, Job
<1>. QED BY <1>1, ShapeInvariant, PTL

-----------------------------------------------------------------------------
(* Faults are counted                                                      *)

\* The counts of the faults.
FaultTypes == faults \in [spent : [Kinds -> Nat], budget : [Kinds -> Nat]]

\* A fault is counted, and only its own count changes.
LEMMA FaultStep ==
  ASSUME FaultTypes, NEW kind \in Kinds, Fault(kind)
  PROVE  /\ FaultTypes'
         /\ faults'.spent[kind] # 0
         /\ \A k \in Kinds : k # kind => faults'.spent[k] = faults.spent[k]
         /\ faults.spent[kind] < faults.budget[kind]
<1>1. PICK s \in [Kinds -> Nat], b \in [Kinds -> Nat] :
        faults = [spent |-> s, budget |-> b]
  BY DEF FaultTypes
<1>2. faults' = [spent |-> [s EXCEPT ![kind] = @ + 1], budget |-> b]
  BY <1>1 DEF Fault
<1>3. s[kind] \in Nat /\ [s EXCEPT ![kind] = @ + 1] \in [Kinds -> Nat]
  OBVIOUS
<1>. QED BY <1>1, <1>2, <1>3 DEF FaultTypes, Fault

\* Every step leaves the counts alone or counts one fault; only three actions
\* count a call, an expiry or a crash.
LEMMA FaultOfStep ==
  ASSUME [Next]_vars
  PROVE  \/ UNCHANGED faults
         \/ \E kind \in {"timeouts", "delegations", "storeErrors"} : Fault(kind)
         \/ CallLock /\ Fault("admin")
         \/ FindLocked /\ Fault("expiries")
         \/ Crash /\ Fault("crashes")
<1>1. ASSUME NEW p, NEW tx, GiveUp(tx)
      PROVE  \E kind \in {"timeouts", "delegations"} : Fault(kind)
  BY <1>1 DEF GiveUp
<1>2. ASSUME NEW p, NEW tx, NEW next, Transact(p, tx, next)
      PROVE  \/ UNCHANGED faults
             \/ \E kind \in {"timeouts", "delegations"} : Fault(kind)
  BY <1>1, <1>2 DEF Transact
<1>3. ASSUME NEW p, ServiceStep(p)
      PROVE  \/ UNCHANGED faults
             \/ \E kind \in {"timeouts", "delegations"} : Fault(kind)
  <2>1. CASE RequestRandomness(p) \/ DelegateAccount(p) \/ Reveal(p)
    BY <1>2, <2>1 DEF RequestRandomness, DelegateAccount, Reveal
  <2>2. CASE LockAccount(p) \/ CommitOutcome(p)
    BY <1>1, <2>2 DEF LockAccount, CommitOutcome
  <2>3. CASE PollTimesOut(p) \/ Publish(p)
    BY <2>3 DEF PollTimesOut, Publish
  <2>4. CASE \/ ReadRound(p) \/ RecordLock(p) \/ CountBets(p) \/ MarkExpired(p)
             \/ SeeRandomness(p) \/ Attest(p) \/ RecordDelegation(p)
             \/ ReadCommit(p) \/ VerifyCommit(p) \/ QueueReveal(p)
             \/ QueueAgain(p) \/ ReadReveal(p) \/ RecordReveal(p)
             \/ QueueSettle(p) \/ Finish(p)
    BY <2>4 DEF ReadRound, RecordLock, CountBets, MarkExpired, SeeRandomness,
       Attest, RecordDelegation, ReadCommit, VerifyCommit, QueueReveal,
       QueueAgain, ReadReveal, RecordReveal, QueueSettle, Finish
  <2>. QED BY <1>3, <2>1, <2>2, <2>3, <2>4 DEF ServiceStep
<1>4. CASE WorkerStep \/ ServiceStep("admin")
  BY <1>3, <1>4 DEF WorkerStep, TakeJob
<1>5. CASE ExpirerStep
  BY <1>2, <1>5 DEF ExpirerStep, FindLocked, CountExpired, ExpireRound,
     RecordExpiry
<1>6. CASE SettlementStep \/ ChainStep
  BY SMTT(60), <1>6 DEF SettlementStep, SettlementUndelegates, SettlementNotes,
     SettlementRuns,
     SettlementCloses, Others, ChainStep, Callback, Undelegated, Land, Expire
<1>7. CASE \/ CallLock \/ \E p \in Procs : ServiceFails(p)
           \/ PlaceBet \/ StartConfirm \/ ConfirmBet
           \/ Recover \/ Crash \/ UNCHANGED vars
  BY <1>7 DEF CallLock, ServiceFails, PlaceBet, StartConfirm, ConfirmBet, Recover,
     Crash, vars
<1>. QED BY <1>4, <1>5, <1>6, <1>7 DEF Next

\* So as long as none is counted, none of the three has happened.
LEMMA FaultsStep ==
  ASSUME FaultTypes, [Next]_vars
  PROVE  /\ FaultTypes'
         /\ faults'.spent.expiries = 0 => faults.spent.expiries = 0 /\ ~FindLocked
         /\ faults'.spent.admin = 0 => faults.spent.admin = 0 /\ ~CallLock
         /\ faults'.spent.crashes = 0 => faults.spent.crashes = 0 /\ ~Crash
<1>1. {"timeouts", "delegations", "storeErrors", "crashes", "admin", "expiries"}
         \subseteq Kinds
  BY DEF Kinds
<1>2. CASE UNCHANGED faults
  <2>1. ~FindLocked /\ ~CallLock /\ ~Crash
    <3>1. ASSUME NEW kind \in Kinds, Fault(kind) PROVE FALSE
      <4>1. /\ faults'.spent[kind] = faults.spent[kind] + 1
            /\ faults.spent[kind] \in Nat
        BY <3>1 DEF FaultTypes, Fault
      <4>. QED BY <1>2, <4>1
    <3>. QED BY <1>1, <3>1 DEF FindLocked, CallLock, Crash
  <2>. QED BY <1>2, <2>1 DEF FaultTypes
<1>3. ASSUME NEW kind \in Kinds, Fault(kind)
      PROVE  /\ FaultTypes'
             /\ \A k \in Kinds : IF k = kind THEN faults'.spent[k] # 0
                                ELSE faults'.spent[k] = faults.spent[k]
  BY <1>3, FaultStep
<1>4. ASSUME NEW kind \in Kinds, NEW other \in Kinds, Fault(kind), Fault(other)
      PROVE  kind = other
  <2>1. faults'.spent[kind] = faults.spent[kind] + 1 /\ faults.spent[kind] \in Nat
    BY <1>4 DEF FaultTypes, Fault
  <2>. QED BY <1>4, <2>1, FaultStep
<1>5. /\ FindLocked => Fault("expiries")
      /\ CallLock => Fault("admin")
      /\ Crash => Fault("crashes")
  BY DEF FindLocked, CallLock, Crash
<1>6. CASE ~UNCHANGED faults
  <2>1. PICK kind \in Kinds : Fault(kind)
    BY <1>1, <1>6, FaultOfStep
  <2>2. /\ FindLocked => kind = "expiries"
        /\ CallLock => kind = "admin"
        /\ Crash => kind = "crashes"
    BY <1>1, <1>4, <1>5, <2>1
  <2>. QED BY <1>1, <1>3, <2>1, <2>2
<1>. QED BY <1>2, <1>6

LEMMA FaultsInit == Init => FaultTypes
<1>. SUFFICES ASSUME Init PROVE FaultTypes
  OBVIOUS
<1>1. [k \in Kinds |-> 0] \in [Kinds -> Nat] /\ Budgets \subseteq [Kinds -> Nat]
  BY LifecycleAssumption
<1>. QED BY <1>1 DEF Init, FaultTypes

-----------------------------------------------------------------------------
(* Settling only what is revealed                                          *)

\* What a transaction that executes does to the outcome, to the commitment and
\* to the place of the account.
LEMMA ExecuteFacts ==
  ASSUME ChainTypes, NEW tx \in Tx, Execute(tx)
  PROVE  /\ acct.outcome # Pending => acct'.outcome # Pending
         /\ tx.kind # "undelegate" =>
              /\ home = "rollup" => home' = "rollup"
              /\ home # "leaving" => home' # "leaving"
         /\ tx.kind = "delegate" => home' = "rollup"
         /\ tx.kind \in {"reveal", "erReveal"} => acct'.outcome = tx.att.result
         /\ tx.kind = "commit" => acct'.commitment = tx.att.result
         /\ tx.kind # "commit" => acct'.commitment = acct.commitment
         /\ tx.kind \notin {"reveal", "erReveal"} => acct'.outcome = acct.outcome
<1>1. acct \in Chain!Account /\ Pending \notin Results
  BY LifecycleAssumption DEF ChainTypes
<1>2. CASE tx.kind \in {"lock", "request", "delegate", "undelegate"}
  BY <1>1, <1>2 DEF Execute, Accepted, Effect, Chain!Account, Chain!Lock,
     Chain!Delegate, Chain!Undelegate, Chain!Write
<1>3. CASE tx.kind \in {"commit", "reveal", "erReveal"}
  <2>1. tx.att.result \in Results
    BY <1>3 DEF Tx, Attestation
  <2>. QED BY <1>1, <1>3, <2>1 DEF Execute, Effect, Chain!Account,
              Chain!CommitHash, Chain!Reveal, Chain!ErReveal, Chain!Write
<1>. QED BY <1>2, <1>3 DEF Tx

\* Nobody expires the round: no undelegation but the settlement's is sent.
NoExpiry ==
  /\ x["expirer"] = Idle
  /\ \A tx \in limbo : tx.kind # "undelegate"

\* A process of a round that is not revealed.
UnrevealedProc(p) ==
  /\ x[p].pc \notin {"recordReveal", "publish", "queueSettle"}
  /\ x[p].pc = "recordDelegation" => home = "rollup"
  /\ x[p].delegated => doc.delegated

\* Until the account holds an outcome nobody is past the reveal, no settlement is
\* queued, and an account the document calls delegated is on the rollup, where
\* the reveal will find it.
Unrevealed ==
  /\ home # "leaving"
  /\ settle = "none"
  /\ doc.delegated => home = "rollup"
  /\ \A p \in Procs : UnrevealedProc(p)

\* The inductive invariant behind SettleOnlyRevealed.
RevealInv ==
  /\ FaultTypes
  /\ faults.spent.expiries = 0 =>
       NoExpiry /\ (acct.outcome = Pending => Unrevealed)

\* One process moves and the rest is no worse.
LEMMA UnrevealedMove ==
  ASSUME Unrevealed, NEW p \in Procs,
         \A q \in Procs : q # p => x'[q] = x[q],
         home' # "leaving", UNCHANGED settle,
         home = "rollup" => home' = "rollup",
         doc.delegated => doc'.delegated,
         doc'.delegated => home' = "rollup",
         UnrevealedProc(p)'
  PROVE  Unrevealed'
  BY DEF Unrevealed, UnrevealedProc

\* Every step of the service keeps it: the reveal whose error nobody looks at is
\* taken only for an account that is revealed already.
LEMMA RevealService ==
  ASSUME ShapeInv, NoExpiry, NEW p \in Procs, p # "expirer", ServiceStep(p)
  PROVE  /\ NoExpiry'
         /\ acct.outcome # Pending => acct'.outcome # Pending
         /\ Unrevealed /\ acct'.outcome = Pending => Unrevealed'
<1>. USE DEF At
<1>1. /\ ChainTypes /\ ProcTypes /\ x \in [Procs -> Proc] /\ x[p] \in Proc
      /\ doc \in Document /\ Pending \notin Results
  BY LifecycleAssumption DEF ShapeInv, ProcTypes
<1>2. ASSUME \A q \in Procs : q # p => x'[q] = x[q], UNCHANGED limbo
      PROVE  NoExpiry'
  BY <1>2 DEF NoExpiry, Procs
<1>3. ASSUME Return(p, jobs) \/ Throw(p) \/ Abandon(p)
      PROVE  x'[p] = Idle /\ \A q \in Procs : q # p => x'[q] = x[q]
  BY <1>1, <1>3, EndStep DEF Return, Throw, Abandon
<1>4. ASSUME NEW pc \in Steps, Goto(p, pc)
      PROVE  /\ x'[p].pc = pc /\ x'[p].att = x[p].att
             /\ x'[p].delegated = x[p].delegated
             /\ \A q \in Procs : q # p => x'[q] = x[q]
  BY <1>1, <1>4, GotoStep
<1>5. ASSUME NEW tx \in Tx, NEW pc \in Steps, Transact(p, tx, pc),
             tx.kind # "undelegate", UNCHANGED <<doc, bet, settle>>,
             pc # "recordDelegation" \/ tx.kind = "delegate",
             pc \notin {"publish", "queueSettle"},
             pc = "recordReveal" =>
               tx.kind \in {"reveal", "erReveal"} /\ tx.att.result # Pending
      PROVE  /\ NoExpiry'
             /\ acct.outcome # Pending => acct'.outcome # Pending
             /\ Unrevealed /\ acct'.outcome = Pending => Unrevealed'
  <2>1. CASE Execute(tx) /\ Goto(p, pc) /\ UNCHANGED <<limbo, jobs, faults>>
    <3>1. Unrevealed /\ acct'.outcome = Pending => UnrevealedProc(p)'
      BY <1>1, <1>4, <1>5, <2>1, ExecuteFacts DEF Unrevealed, UnrevealedProc
    <3>. QED BY <1>1, <1>2, <1>4, <1>5, <2>1, <3>1, ExecuteFacts,
                UnrevealedMove DEF Unrevealed
  <2>2. CASE Throw(p) /\ UNCHANGED <<chain, limbo, faults>>
    BY <1>2, <1>3, <1>5, <2>2, IdleFields, UnrevealedMove DEF Unrevealed,
       UnrevealedProc, chain
  <2>3. CASE GiveUp(tx) /\ Throw(p)
    BY <1>3, <1>5, <2>3, IdleFields, UnrevealedMove DEF Unrevealed,
       UnrevealedProc, chain, GiveUp, NoExpiry, Procs
  <2>. QED BY <1>5, <2>1, <2>2, <2>3 DEF Transact
<1>6. ASSUME Return(p, jobs) \/ Throw(p) \/ Abandon(p),
             UNCHANGED <<chain, limbo, doc, settle>>
      PROVE  /\ NoExpiry'
             /\ acct.outcome # Pending => acct'.outcome # Pending
             /\ Unrevealed /\ acct'.outcome = Pending => Unrevealed'
  BY <1>2, <1>3, <1>6, IdleFields, UnrevealedMove DEF Unrevealed, UnrevealedProc,
     chain
<1>7. ASSUME NEW pc \in Steps \ {"recordReveal", "publish", "queueSettle",
                                  "recordDelegation"},
             x'[p].pc = pc, x'[p].delegated = x[p].delegated,
             \A q \in Procs : q # p => x'[q] = x[q],
             doc'.delegated = doc.delegated, UNCHANGED <<chain, limbo, settle>>
      PROVE  /\ NoExpiry'
             /\ acct.outcome # Pending => acct'.outcome # Pending
             /\ Unrevealed /\ acct'.outcome = Pending => Unrevealed'
  BY <1>2, <1>7, UnrevealedMove DEF Unrevealed, UnrevealedProc, chain
<1>8. CASE ReadRound(p)
  <2>1. CASE ~(Return(p, jobs) \/ Abandon(p))
    <3>1. \E pc \in {"count", "lock"} :
            x'[p].pc = pc /\ x'[p].delegated = x[p].delegated
            /\ \A q \in Procs : q # p => x'[q] = x[q]
      BY <1>1, <1>8, <2>1 DEF ReadRound, Proc, Document
    <3>. QED BY <1>7, <1>8, <3>1, StepNames DEF ReadRound
  <2>. QED BY <1>6, <1>8, <2>1 DEF ReadRound
<1>9. CASE LockAccount(p)
  <2>1. "recordLock" \in Steps /\ Send("lock") \in Tx /\ Send("lock").kind = "lock"
    BY SendTypes, StepNames DEF Send
  <2>2. CASE /\ Execute(Send("lock")) /\ Goto(p, "recordLock")
             /\ UNCHANGED <<limbo, jobs, faults>>
    <3>1. Transact(p, Send("lock"), "recordLock")
      BY <2>2 DEF Transact
    <3>. QED BY <1>5, <1>9, <2>1, <3>1 DEF LockAccount
  <2>3. CASE GiveUp(Send("lock")) /\ Throw(p)
    <3>1. Transact(p, Send("lock"), "recordLock")
      BY <2>3 DEF Transact
    <3>. QED BY <1>5, <1>9, <2>1, <3>1 DEF LockAccount
  <2>. QED BY <1>4, <1>6, <1>7, <1>9, <2>1, <2>2, <2>3 DEF LockAccount
<1>10. CASE \/ RecordLock(p) \/ CountBets(p) \/ MarkExpired(p) \/ SeeRandomness(p)
            \/ Attest(p) \/ QueueReveal(p) \/ QueueAgain(p)
  <2>1. \E pc \in {"count", "markExpired", "readCommit", "request", "finish",
                    "attest", "delegate"} : Goto(p, pc)
    BY <1>10 DEF RecordLock, CountBets, MarkExpired, SeeRandomness, Attest,
       QueueReveal, QueueAgain
  <2>2. doc'.delegated = doc.delegated
    BY <1>1, <1>10 DEF RecordLock, CountBets, MarkExpired, SeeRandomness, Attest,
       QueueReveal, QueueAgain, Document
  <2>. QED BY <1>4, <1>7, <1>10, <2>1, <2>2, StepNames
       DEF RecordLock, CountBets, MarkExpired, SeeRandomness, Attest,
              QueueReveal, QueueAgain
<1>11. CASE RequestRandomness(p) \/ DelegateAccount(p)
  <2>1. /\ {"poll", "recordDelegation"} \subseteq Steps
        /\ Send("request") \in Tx /\ Send("request").kind = "request"
        /\ Send("delegate") \in Tx /\ Send("delegate").kind = "delegate"
    BY SendTypes, StepNames DEF Send
  <2>. QED BY <1>5, <1>11, <2>1 DEF RequestRandomness, DelegateAccount
<1>12. CASE PollTimesOut(p) \/ Finish(p)
  BY <1>6, <1>12 DEF PollTimesOut, Finish
<1>13. CASE RecordDelegation(p)
  <2>1. \E pc \in {"queueAgain", "readCommit"} : Goto(p, pc)
    BY <1>13 DEF RecordDelegation
  <2>2. doc'.delegated /\ UNCHANGED <<chain, limbo, settle>>
    BY <1>1, <1>13 DEF RecordDelegation, Document
  <2>. QED BY <1>2, <1>4, <1>13, <2>1, <2>2, StepNames, UnrevealedMove
       DEF Unrevealed, UnrevealedProc, chain, RecordDelegation
<1>14. CASE ReadCommit(p)
  <2>1. CASE ~Throw(p)
    <3>1. \E pc \in {"queueReveal", "commit"} :
            x'[p].pc = pc /\ x'[p].delegated = x[p].delegated
            /\ \A q \in Procs : q # p => x'[q] = x[q]
      BY <1>1, <1>14, <2>1 DEF ReadCommit, Proc
    <3>. QED BY <1>7, <1>14, <3>1, StepNames DEF ReadCommit
  <2>. QED BY <1>6, <1>14, <2>1 DEF ReadCommit
<1>15. CASE CommitOutcome(p)
  <2>1. /\ "verify" \in Steps /\ x[p].att \in Attestation
        /\ SendAtt("commit", x[p].att) \in Tx
        /\ SendAtt("commit", x[p].att).kind = "commit"
    BY <1>1, <1>15, SendTypes, StepNames DEF SendAtt, CommitOutcome, ProcTypes,
       KnowsAttestation
  <2>2. CASE Transact(p, SendAtt("commit", x[p].att), "verify")
    BY <1>5, <1>15, <2>1, <2>2 DEF CommitOutcome
  <2>3. CASE ~Transact(p, SendAtt("commit", x[p].att), "verify")
    <3>1. \/ Throw(p) /\ UNCHANGED <<chain, limbo>>
          \/ /\ x' = [x EXCEPT ![p].pc = "delegate", ![p].path = "fallback"]
             /\ UNCHANGED <<chain, limbo>>
      BY <1>15, <2>3 DEF CommitOutcome, Transact
    <3>2. CASE x' = [x EXCEPT ![p].pc = "delegate", ![p].path = "fallback"]
      <4>1. x'[p].pc = "delegate" /\ x'[p].delegated = x[p].delegated
            /\ \A q \in Procs : q # p => x'[q] = x[q]
        BY <1>1, <3>2 DEF Proc
      <4>. QED BY <1>6, <1>7, <1>15, <3>1, <4>1, StepNames DEF CommitOutcome
    <3>. QED BY <1>6, <1>15, <3>1, <3>2 DEF CommitOutcome
  <2>. QED BY <2>2, <2>3
<1>16. CASE VerifyCommit(p)
  BY <1>4, <1>6, <1>7, <1>16, StepNames DEF VerifyCommit
<1>17. CASE ReadReveal(p)
  <2>1. CASE ~Throw(p)
    <3>1. /\ x'[p].pc = "reveal" /\ x'[p].delegated = OnRollup
          /\ \A q \in Procs : q # p => x'[q] = x[q]
      BY <1>1, <1>17, <2>1 DEF ReadReveal, Proc
    <3>. QED BY <1>2, <1>17, <3>1, UnrevealedMove
         DEF ReadReveal, OnRollup, Unrevealed, UnrevealedProc, chain
  <2>. QED BY <1>6, <1>17, <2>1 DEF ReadReveal
<1>18. CASE Reveal(p)
  <2>. DEFINE kind == IF x[p].delegated THEN "erReveal" ELSE "reveal"
              tx == SendAtt(kind, x[p].att)
  <2>1. /\ "recordReveal" \in Steps
        /\ x[p].att \in Attestation /\ x[p].att.result \in Results
        /\ tx \in Tx /\ tx.kind \in {"reveal", "erReveal"} /\ tx.att = x[p].att
    BY <1>1, <1>18, SendTypes, StepNames DEF SendAtt, Reveal, ProcTypes,
       KnowsAttestation, Attestation
  <2>2. CASE Transact(p, tx, "recordReveal")
    <3>. HIDE DEF tx
    <3>. QED BY <1>1, <1>5, <1>18, <2>1, <2>2 DEF Reveal
  <2>3. CASE ~Transact(p, tx, "recordReveal")
    <3>1. /\ x[p].delegated /\ home # "rollup"
          /\ Goto(p, "recordReveal")
          /\ UNCHANGED <<limbo, doc, settle>>
          /\ \/ Chain!ErReveal(x[p].att.result) /\ UNCHANGED oracle
             \/ UNCHANGED chain
      BY <1>18, <2>3 DEF Reveal
    <3>2. ~Unrevealed
      BY <3>1 DEF Unrevealed, UnrevealedProc
    <3>3. acct.outcome # Pending => acct'.outcome # Pending
      BY <1>1, <2>1, <3>1 DEF ChainTypes, Chain!ErReveal, Chain!Write,
         Chain!Account, chain
    <3>. QED BY <1>2, <1>4, <2>1, <3>1, <3>2, <3>3
  <2>. QED BY <2>2, <2>3
<1>19. CASE RecordReveal(p) \/ Publish(p) \/ QueueSettle(p)
  <2>1. /\ ~Unrevealed /\ UNCHANGED <<chain, limbo>>
    BY <1>19 DEF RecordReveal, Publish, QueueSettle, Unrevealed, UnrevealedProc
  <2>2. Throw(p) \/ \E pc \in {"publish", "queueSettle", "finish"} : Goto(p, pc)
    BY <1>19 DEF RecordReveal, Publish, QueueSettle
  <2>. QED BY <1>2, <1>3, <1>4, <2>1, <2>2, StepNames DEF chain
<1>. QED BY <1>8, <1>9, <1>10, <1>11, <1>12, <1>13, <1>14, <1>15, <1>16, <1>17,
            <1>18, <1>19
         DEF ServiceStep

\* So does everybody else, the lock endpoint included.
LEMMA RevealOthers ==
  ASSUME ShapeInv, NoExpiry, [Next]_vars, ~FindLocked,
         ~WorkerStep, ~ServiceStep("admin")
  PROVE  /\ NoExpiry'
         /\ acct.outcome # Pending => acct'.outcome # Pending
         /\ Unrevealed /\ acct'.outcome = Pending => Unrevealed'
<1>1. /\ ChainTypes /\ ProcTypes /\ x \in [Procs -> Proc]
      /\ doc \in Document /\ Pending \notin Results /\ acct \in Chain!Account
      /\ Procs = {"worker", "admin", "expirer"}
  BY LifecycleAssumption DEF ShapeInv, ProcTypes, ChainTypes, Procs
<1>2. ~ExpirerStep
  BY <1>1, IdleFields DEF ExpirerStep, CountExpired, ExpireRound, RecordExpiry,
     At, NoExpiry
<1>3. CASE CallLock
  <2>1. /\ x'["admin"].pc = "read" /\ x'["admin"].delegated = x["admin"].delegated
        /\ \A q \in Procs : q # "admin" => x'[q] = x[q]
        /\ UNCHANGED <<chain, limbo, doc, settle>>
    BY <1>1, <1>3 DEF CallLock, Proc
  <2>2. Unrevealed => Unrevealed'
    BY <1>1, <2>1 DEF Unrevealed, UnrevealedProc, chain
  <2>. QED BY <1>1, <2>1, <2>2 DEF NoExpiry, chain
<1>4. ASSUME NEW p \in Procs, ServiceFails(p)
      PROVE  /\ NoExpiry'
             /\ acct.outcome # Pending => acct'.outcome # Pending
             /\ Unrevealed /\ acct'.outcome = Pending => Unrevealed'
  <2>1. /\ x'[p] = Idle /\ \A q \in Procs : q # p => x'[q] = x[q]
        /\ UNCHANGED <<chain, limbo, doc, settle>>
    BY <1>1, <1>4, EndStep DEF ServiceFails, Throw
  <2>2. Unrevealed => Unrevealed'
    BY <1>1, <2>1, IdleFields, UnrevealedMove DEF Unrevealed, UnrevealedProc,
       chain
  <2>. QED BY <1>1, <2>1, <2>2 DEF NoExpiry, chain
<1>5. CASE SettlementStep
  <2>1. UNCHANGED <<limbo, x>> /\ (settle = "none" => FALSE)
    BY <1>5 DEF SettlementStep, SettlementUndelegates, SettlementNotes,
         SettlementRuns, SettlementCloses, Others
  <2>2. acct'.outcome = acct.outcome
    BY <1>1, <1>5 DEF SettlementStep, SettlementUndelegates, SettlementNotes,
         SettlementRuns, SettlementCloses, chain, Chain!Undelegate,
         Chain!Settle, Chain!Write, Chain!Account
  <2>. QED BY <2>1, <2>2 DEF NoExpiry, Unrevealed
<1>6. CASE ChainStep
  <2>1. UNCHANGED <<doc, settle, x>>
    BY <1>6 DEF ChainStep, Callback, Undelegated, Land, Expire
  <2>2. CASE Callback \/ Undelegated
    <3>1. /\ UNCHANGED limbo /\ acct'.outcome = acct.outcome
          /\ home # "leaving" => home' = home
      BY <1>1, <2>2 DEF Callback, Undelegated, Chain!Callback, Chain!Return,
         Chain!Write, Chain!Account
    <3>. QED BY <2>1, <3>1 DEF NoExpiry, Unrevealed, UnrevealedProc
  <2>3. ASSUME NEW tx \in Tx, Land(tx) \/ Expire(tx)
        PROVE  /\ NoExpiry'
               /\ acct.outcome # Pending => acct'.outcome # Pending
               /\ Unrevealed /\ acct'.outcome = Pending => Unrevealed'
    <3>1. NoExpiry' /\ tx.kind # "undelegate"
      BY <2>1, <2>3 DEF Land, Expire, NoExpiry
    <3>2. CASE Land(tx)
      BY <1>1, <2>1, <3>1, <3>2, ExecuteFacts DEF Land, Unrevealed, UnrevealedProc
    <3>3. CASE Expire(tx)
      BY <2>1, <3>1, <3>3 DEF Expire, Unrevealed, UnrevealedProc, chain
    <3>. QED BY <2>3, <3>1, <3>2, <3>3
  <2>. QED BY <1>6, <2>2, <2>3 DEF ChainStep
<1>7. CASE Crash
  <2>1. /\ \A p \in Procs : x'[p] = Idle
        /\ UNCHANGED <<chain, limbo, doc, settle>>
    BY <1>7 DEF Crash
  <2>. QED BY <1>1, <2>1, IdleFields DEF NoExpiry, Unrevealed, UnrevealedProc,
              chain
<1>8. CASE PlaceBet \/ StartConfirm \/ ConfirmBet \/ Recover \/ UNCHANGED vars
  <2>1. UNCHANGED <<chain, limbo, doc, settle, x>>
    BY <1>8 DEF PlaceBet, StartConfirm, ConfirmBet, Recover, vars
  <2>. QED BY <2>1 DEF NoExpiry, Unrevealed, UnrevealedProc, chain
<1>. QED BY <1>2, <1>3, <1>4, <1>5, <1>6, <1>7, <1>8 DEF Next

\* What taking a job changes.
LEMMA TakeFacts ==
  ASSUME ShapeInv, NEW n \in JobNames, TakeJob(n)
  PROVE  /\ x["worker"] = Idle /\ jobs[n].state = "waiting"
         /\ x'["worker"].pc = IF n = "lock" THEN "read" ELSE "readReveal"
         /\ x'["worker"].task = n /\ x'["worker"].att = None
         /\ x'["worker"].delegated = FALSE
         /\ \A q \in Procs : q # "worker" => x'[q] = x[q]
         /\ jobs'[n].state = "active"
         /\ \A m \in JobNames : m # n => jobs'[m] = jobs[m]
         /\ UNCHANGED <<chain, limbo, doc, bet, settle, faults>>
<1>1. /\ x \in [Procs -> Proc] /\ "worker" \in Procs
      /\ jobs \in [JobNames -> Job] /\ jobs[n] \in Job
  BY DEF ShapeInv, ProcTypes, Procs
<1>2. x' = [x EXCEPT !["worker"] =
             [Idle EXCEPT !.task = n,
                          !.pc = IF n = "lock" THEN "read" ELSE "readReveal"]]
  BY DEF TakeJob
<1>3. jobs' = [jobs EXCEPT ![n].state = "active"]
  BY DEF TakeJob
<1>4. jobs'[n].state = "active" /\ \A m \in JobNames : m # n => jobs'[m] = jobs[m]
  BY <1>1, <1>3 DEF Job
<1>. QED BY <1>1, <1>2, <1>4 DEF TakeJob, Idle

\* So does every step.
LEMMA RevealStep ==
  ASSUME ShapeInv, RevealInv, [Next]_vars
  PROVE  RevealInv'
<1>1. FaultTypes'
  BY FaultsStep DEF RevealInv
<1>2. CASE faults'.spent.expiries = 0
  <2>1. NoExpiry /\ (acct.outcome = Pending => Unrevealed) /\ ~FindLocked
    BY <1>2, FaultsStep DEF RevealInv
  <2>2. ASSUME NEW n \in JobNames, TakeJob(n)
        PROVE  /\ NoExpiry'
               /\ acct'.outcome = Pending => Unrevealed'
    <3>. USE TakeFacts, <2>2
    <3>1. NoExpiry'
      BY <2>1 DEF NoExpiry, Procs
    <3>2. Unrevealed => Unrevealed'
      BY UnrevealedMove DEF Unrevealed, UnrevealedProc, Procs, chain
    <3>. QED BY <2>1, <3>1, <3>2 DEF chain
  <2>3. CASE WorkerStep \/ ServiceStep("admin")
    <3>1. "worker" \in Procs \ {"expirer"} /\ "admin" \in Procs \ {"expirer"}
      BY DEF Procs
    <3>. QED BY <1>1, <2>1, <2>2, <2>3, <3>1, RevealService DEF WorkerStep,
                RevealInv
  <2>4. CASE ~WorkerStep /\ ~ServiceStep("admin")
    BY <1>1, <2>1, <2>4, RevealOthers DEF RevealInv
  <2>. QED BY <2>3, <2>4
<1>. QED BY <1>1, <1>2 DEF RevealInv

LEMMA RevealInit == Init => RevealInv
  BY FaultsInit, IdleFields DEF Init, RevealInv, NoExpiry, Unrevealed,
     UnrevealedProc, OpenDoc, Procs

\* The inductive invariant holds, whatever overlaps, fails, crashes or is late, as
\* long as autoOpenRounds expires nothing.
THEOREM RevealInvariant == Spec => []RevealInv
  BY RevealInit, RevealStep, ShapeInvariant, PTL DEF Spec

\* The settlement job is queued for rounds that have an outcome only, although
\* revealOutcome does not look at the error of a reveal on the base chain.
THEOREM SettleTheorem == Spec => []SettleOnlyRevealed
<1>1. RevealInv => SettleOnlyRevealed
  BY DEF RevealInv, SettleOnlyRevealed, Unrevealed
<1>. QED BY <1>1, RevealInvariant, PTL

-----------------------------------------------------------------------------
(* One attestation                                                         *)

\* A processor that ends is idle, and one that goes on keeps what it knows.
LEMMA WorkerMoves ==
  ASSUME ShapeInv
  PROVE  /\ \A p \in Procs :
              Return(p, jobs) \/ Throw(p) \/ Abandon(p) =>
                x'[p] = Idle /\ \A q \in Procs : q # p => x'[q] = x[q]
         /\ \A p \in Procs, pc \in Steps :
              Goto(p, pc) =>
                /\ x'[p].pc = pc /\ x'[p].task = x[p].task /\ x'[p].path = x[p].path
                /\ x'[p].att = x[p].att /\ x'[p].delegated = x[p].delegated
                /\ \A q \in Procs : q # p => x'[q] = x[q]
<1>1. x \in [Procs -> Proc]
  BY DEF ShapeInv, ProcTypes
<1>2. ASSUME NEW p \in Procs, Return(p, jobs) \/ Throw(p) \/ Abandon(p)
      PROVE  x'[p] = Idle /\ \A q \in Procs : q # p => x'[q] = x[q]
  BY <1>1, <1>2, EndStep DEF Return, Throw, Abandon
<1>3. ASSUME NEW p \in Procs, NEW pc \in Steps, Goto(p, pc)
      PROVE  /\ x'[p].pc = pc /\ x'[p].task = x[p].task /\ x'[p].path = x[p].path
             /\ x'[p].att = x[p].att /\ x'[p].delegated = x[p].delegated
             /\ \A q \in Procs : q # p => x'[q] = x[q]
  BY <1>1, <1>3, GotoStep
<1>. QED BY <1>2, <1>3

\* What the worker holds, when it is alone, is what the document says: nothing
\* was attested until it saves an attestation, and it reads the one there is.
Attesting ==
  /\ doc.status = "PREDICTING" => doc.attestation = None
  /\ x["worker"].pc = "read" => x["worker"].att = None
  /\ x["worker"].pc \in {"lock", "recordLock"} =>
       x["worker"].att = None /\ doc.attestation = None
  /\ x["worker"].pc = "count" => x["worker"].att = doc.attestation
  /\ x["worker"].pc \in {"request", "poll", "attest"} => doc.attestation = None
  /\ x["worker"].pc \in {"count", "request", "poll", "attest"} =>
       doc.status # "PREDICTING"

\* The inductive invariant behind AttestationIsFinal.
AttestInv == Alone => x["admin"] = Idle /\ Attesting

AttestationKept == doc.attestation # None => doc'.attestation = doc.attestation

\* The places of which Attesting says nothing.
Quiet == {"idle", "delegate", "recordDelegation", "readCommit", "commit", "verify",
          "queueReveal", "queueAgain", "readReveal", "reveal", "recordReveal",
          "publish", "queueSettle", "markExpired", "finish"}

LEMMA AttestQuiet ==
  ASSUME Attesting, x'["worker"].pc \in Quiet, doc'.attestation = doc.attestation,
         doc'.status = "PREDICTING" => doc.status = "PREDICTING"
  PROVE  Attesting' /\ AttestationKept
  BY DEF Attesting, AttestationKept, Quiet

\* Every step of the worker keeps it, and the attestation.
LEMMA AttestService ==
  ASSUME ShapeInv, Attesting, ServiceStep("worker")
  PROVE  /\ Attesting' /\ AttestationKept
         /\ \A q \in Procs : q # "worker" => x'[q] = x[q]
<1>. DEFINE p == "worker"
<1>. HIDE DEF p
<1>0. p \in Procs /\ p = "worker"
  BY DEF Procs, p
<1>. SUFFICES ASSUME ServiceStep(p)
              PROVE  /\ Attesting' /\ AttestationKept
                     /\ \A q \in Procs : q # p => x'[q] = x[q]
  BY <1>0
<1>. USE <1>0 DEF At
<1>1. /\ x \in [Procs -> Proc] /\ x[p] \in Proc /\ doc \in Document
      /\ doc' \in Document /\ x'[p] \in Proc
  BY ServiceTypes DEF ShapeInv, ProcTypes
<1>2. ASSUME NEW pc \in Steps, Goto(p, pc)
      PROVE  /\ x'[p].pc = pc /\ x'[p].att = x[p].att
             /\ \A q \in Procs : q # p => x'[q] = x[q]
  BY <1>2, WorkerMoves
<1>3. ASSUME Return(p, jobs) \/ Throw(p) \/ Abandon(p)
      PROVE  /\ x'[p].pc \in Quiet /\ \A q \in Procs : q # p => x'[q] = x[q]
  BY <1>3, WorkerMoves, IdleFields DEF Quiet
<1>4. ASSUME NEW tx, NEW pc \in Steps, Transact(p, tx, pc), UNCHANGED doc
      PROVE  /\ x'[p].pc \in Quiet \cup {pc}
             /\ x'[p].att = x[p].att \/ x'[p].pc \in Quiet
             /\ \A q \in Procs : q # p => x'[q] = x[q]
  BY <1>2, <1>3, <1>4 DEF Transact
<1>5. CASE ReadRound(p)
  <2>1. CASE Return(p, jobs) \/ Abandon(p)
    BY <1>3, <1>5, <2>1, AttestQuiet DEF ReadRound
  <2>2. CASE ~(Return(p, jobs) \/ Abandon(p))
    <3>1. \/ /\ x'[p].pc = "count" /\ doc.status = "LOCKED"
             /\ x'[p].att = doc.attestation
             /\ \A q \in Procs : q # p => x'[q] = x[q]
          \/ /\ x'[p].pc = "lock" /\ doc.status = "PREDICTING"
             /\ x'[p].att = x[p].att
             /\ \A q \in Procs : q # p => x'[q] = x[q]
      BY <1>1, <1>5, <2>2 DEF ReadRound, Proc
    <3>2. UNCHANGED doc /\ x[p].pc = "read"
      BY <1>5 DEF ReadRound
    <3>3. Attesting'
      BY <3>1, <3>2 DEF Attesting
    <3>. QED BY <3>1, <3>2, <3>3 DEF AttestationKept
  <2>. QED BY <2>1, <2>2
<1>6. CASE LockAccount(p)
  BY <1>2, <1>3, <1>6, StepNames, AttestQuiet DEF LockAccount, Attesting,
     AttestationKept
<1>7. CASE RecordLock(p) \/ CountBets(p)
  <2>1. CASE RecordLock(p)
    <3>1. /\ doc'.attestation = doc.attestation /\ doc'.status = "LOCKED"
          /\ x'[p].pc = "count" /\ x'[p].att = x[p].att
          /\ \A q \in Procs : q # p => x'[q] = x[q]
      BY <1>1, <1>2, <2>1, StepNames DEF RecordLock, Document
    <3>. QED BY <2>1, <3>1 DEF RecordLock, Attesting, AttestationKept
  <2>2. CASE CountBets(p)
    <3>1. /\ UNCHANGED doc /\ x[p].pc = "count"
          /\ \/ x'[p].pc \in {"markExpired", "readCommit"}
             \/ x'[p].pc = "request" /\ x[p].att = None
          /\ \A q \in Procs : q # p => x'[q] = x[q]
      BY <1>2, <2>2, StepNames DEF CountBets
    <3>. QED BY <3>1 DEF Attesting, AttestationKept
  <2>. QED BY <1>7, <2>1, <2>2
<1>8. CASE RequestRandomness(p) \/ SeeRandomness(p) \/ PollTimesOut(p)
  BY <1>2, <1>3, <1>4, <1>8, StepNames, AttestQuiet
     DEF RequestRandomness, SeeRandomness, PollTimesOut, Attesting,
     AttestationKept
<1>9. CASE Attest(p)
  <2>1. /\ doc'.status = doc.status /\ x'[p].pc \in Quiet
        /\ \A q \in Procs : q # p => x'[q] = x[q]
    BY <1>1, <1>2, <1>9, StepNames DEF Attest, Document, Quiet
  <2>2. doc.attestation = None /\ doc.status # "PREDICTING"
    BY <1>9 DEF Attesting, Attest
  <2>. QED BY <2>1, <2>2 DEF Attesting, AttestationKept, Quiet
<1>10. CASE \/ MarkExpired(p) \/ QueueReveal(p) \/ QueueAgain(p) \/ RecordReveal(p)
            \/ RecordDelegation(p) \/ QueueSettle(p) \/ VerifyCommit(p) \/ Publish(p)
            \/ Finish(p)
  <2>1. /\ doc'.attestation = doc.attestation
        /\ doc'.status = "PREDICTING" => doc.status = "PREDICTING"
    BY <1>1, <1>10 DEF MarkExpired, QueueReveal, QueueAgain, RecordReveal,
       RecordDelegation, QueueSettle, VerifyCommit, Publish, Finish, Document
  <2>2. \/ Return(p, jobs) \/ Throw(p)
        \/ \E pc \in Steps \cap Quiet : Goto(p, pc)
    BY <1>10, StepNames DEF MarkExpired, QueueReveal, QueueAgain, RecordReveal,
       RecordDelegation, QueueSettle, VerifyCommit, Publish, Finish, Quiet
  <2>. QED BY <1>2, <1>3, <2>1, <2>2, AttestQuiet
<1>11. CASE DelegateAccount(p)
  <2>1. "recordDelegation" \in Quiet \cap Steps
    BY StepNames DEF Quiet
  <2>. QED BY <1>4, <1>11, <2>1, AttestQuiet DEF DelegateAccount
<1>12. CASE ReadCommit(p) \/ ReadReveal(p)
  <2>1. CASE Throw(p)
    BY <1>3, <1>12, <2>1, AttestQuiet DEF ReadCommit, ReadReveal
  <2>2. CASE ~Throw(p)
    <3>1. /\ x'[p].pc \in {"queueReveal", "commit", "reveal"}
          /\ \A q \in Procs : q # p => x'[q] = x[q]
      BY <1>1, <1>12, <2>2 DEF ReadCommit, ReadReveal, Proc
    <3>. QED BY <1>12, <3>1, AttestQuiet DEF ReadCommit, ReadReveal, Quiet
  <2>. QED BY <2>1, <2>2
<1>13. CASE CommitOutcome(p)
  <2>1. CASE x' = [x EXCEPT ![p].pc = "delegate", ![p].path = "fallback"]
    <3>1. x'[p].pc = "delegate" /\ \A q \in Procs : q # p => x'[q] = x[q]
      BY <1>1, <2>1 DEF Proc
    <3>. QED BY <1>13, <3>1, AttestQuiet DEF CommitOutcome, Quiet
  <2>2. CASE Throw(p) \/ Goto(p, "verify")
    <3>1. "verify" \in Steps \cap Quiet
      BY StepNames DEF Quiet
    <3>. QED BY <1>2, <1>3, <1>13, <2>2, <3>1, AttestQuiet DEF CommitOutcome
  <2>. QED BY <1>13, <2>1, <2>2 DEF CommitOutcome
<1>14. CASE Reveal(p)
  <2>1. Throw(p) \/ Goto(p, "recordReveal")
    BY <1>14 DEF Reveal, Transact
  <2>2. "recordReveal" \in Steps \cap Quiet
    BY StepNames DEF Quiet
  <2>. QED BY <1>2, <1>3, <1>14, <2>1, <2>2, AttestQuiet DEF Reveal
<1>. QED BY <1>5, <1>6, <1>7, <1>8, <1>9, <1>10, <1>11, <1>12, <1>13, <1>14
            DEF ServiceStep

\* Who is alone was alone before.
LEMMA AloneStep ==
  ASSUME FaultTypes, [Next]_vars, Alone'
  PROVE  Alone /\ ~CallLock /\ ~FindLocked
  BY FaultsStep DEF Alone

\* A process that is idle does nothing.
LEMMA IdleProc ==
  ASSUME NEW p \in Procs, x[p] = Idle
  PROVE  ~ServiceStep(p) /\ ~ServiceFails(p)
<1>. USE IdleFields DEF At
<1>1. x[p].pc = "idle"
  OBVIOUS
<1>2. ~(\/ ReadRound(p) \/ LockAccount(p) \/ RecordLock(p) \/ CountBets(p)
        \/ MarkExpired(p) \/ RequestRandomness(p) \/ SeeRandomness(p)
        \/ PollTimesOut(p) \/ Attest(p)
        \/ DelegateAccount(p) \/ RecordDelegation(p))
  BY <1>1 DEF ReadRound, LockAccount, RecordLock, CountBets, MarkExpired,
     RequestRandomness,
     SeeRandomness, PollTimesOut, Attest, DelegateAccount, RecordDelegation
<1>3. ~(\/ ReadCommit(p) \/ CommitOutcome(p) \/ VerifyCommit(p) \/ QueueReveal(p)
        \/ QueueAgain(p) \/ ReadReveal(p) \/ Reveal(p) \/ RecordReveal(p)
        \/ Publish(p) \/ QueueSettle(p) \/ Finish(p))
  BY <1>1 DEF ReadCommit, CommitOutcome, VerifyCommit, QueueReveal, QueueAgain,
     ReadReveal,
     Reveal, RecordReveal, Publish, QueueSettle, Finish
<1>. QED BY <1>1, <1>2, <1>3 DEF ServiceStep, ServiceFails

\* When the worker is alone nobody else runs the service.
LEMMA AloneProcs ==
  ASSUME RevealInv, AttestInv, Alone
  PROVE  /\ x["admin"] = Idle /\ x["expirer"] = Idle /\ Attesting
         /\ ~ServiceStep("admin")
         /\ ExpirerStep => FindLocked
         /\ \A p \in Procs : ServiceFails(p) => p = "worker"
<1>1. x["admin"] = Idle /\ x["expirer"] = Idle /\ Attesting
  BY DEF Alone, RevealInv, AttestInv, NoExpiry
<1>2. ExpirerStep => FindLocked
  BY <1>1, IdleFields DEF ExpirerStep, CountExpired, ExpireRound, RecordExpiry, At
<1>. QED BY <1>1, <1>2, IdleProc DEF Procs

\* The steps of the settlement, the chain and the players change neither a
\* process nor what was attested and shown.
LEMMA NobodysStep ==
  ASSUME SettlementStep \/ ChainStep \/ PlaceBet \/ StartConfirm \/ ConfirmBet
         \/ Recover \/ UNCHANGED vars,
         ShapeInv
  PROVE  /\ UNCHANGED x
         /\ doc'.attestation = doc.attestation
         /\ doc'.outcome = doc.outcome
         /\ \/ doc'.status = doc.status
            \/ settle = "await" /\ doc'.status \in {"SETTLED", "FAILED"}
<1>1. doc \in Document
  BY DEF ShapeInv
<1>2. CASE SettlementStep
  BY <1>1, <1>2 DEF SettlementStep, SettlementUndelegates, SettlementNotes,
     SettlementRuns,
     SettlementCloses, Others, Document
<1>3. CASE \/ ChainStep \/ PlaceBet \/ StartConfirm \/ ConfirmBet \/ Recover
           \/ UNCHANGED vars
  BY <1>3 DEF ChainStep, Callback, Undelegated, Land, Expire, PlaceBet,
     StartConfirm,
     ConfirmBet, Recover, vars
<1>. QED BY <1>2, <1>3

\* So does every step.
LEMMA AttestStep ==
  ASSUME ShapeInv, RevealInv, AttestInv, [Next]_vars
  PROVE  AttestInv' /\ (Alone' => AttestationKept)
<1>. SUFFICES ASSUME Alone'
              PROVE  x'["admin"] = Idle /\ Attesting' /\ AttestationKept
  BY DEF AttestInv
<1>1. Alone /\ ~CallLock /\ ~FindLocked
  BY AloneStep DEF RevealInv
<1>2. /\ x["admin"] = Idle /\ Attesting
      /\ ~ServiceStep("admin") /\ ~ExpirerStep
      /\ \A p \in Procs : ServiceFails(p) => p = "worker"
      /\ "admin" \in Procs /\ "worker" \in Procs
  BY <1>1, AloneProcs DEF Procs
<1>3. ASSUME NEW n \in JobNames, TakeJob(n)
      PROVE  x'["admin"] = Idle /\ Attesting' /\ AttestationKept
  <2>1. /\ x'["worker"].pc \in {"read", "readReveal"} /\ x'["worker"].att = None
        /\ x'["admin"] = x["admin"] /\ UNCHANGED doc
    BY <1>2, <1>3, TakeFacts
  <2>. QED BY <1>2, <2>1 DEF Attesting, AttestationKept
<1>4. CASE WorkerStep
  BY <1>2, <1>3, <1>4, AttestService DEF WorkerStep
<1>5. CASE ServiceFails("worker")
  <2>1. x'["worker"].pc \in Quiet /\ x'["admin"] = x["admin"] /\ UNCHANGED doc
    BY <1>2, <1>5, WorkerMoves, IdleFields DEF ServiceFails, Quiet
  <2>. QED BY <1>2, <2>1, AttestQuiet
<1>6. CASE SettlementStep \/ ChainStep \/ PlaceBet \/ StartConfirm \/ ConfirmBet
         \/ Recover \/ UNCHANGED vars
  BY <1>2, <1>6, NobodysStep DEF Attesting, AttestationKept
<1>7. CASE Crash
  <2>1. x'["worker"] = Idle /\ x'["admin"] = Idle /\ UNCHANGED doc
    BY <1>2, <1>7 DEF Crash
  <2>. QED BY <1>2, <2>1, IdleFields DEF Attesting, AttestationKept
<1>. QED BY <1>1, <1>2, <1>4, <1>5, <1>6, <1>7 DEF Next

LEMMA AttestInit == Init => AttestInv
  BY IdleFields DEF Init, AttestInv, Attesting, OpenDoc, Procs

\* The inductive invariant holds.
THEOREM AttestInvariant == Spec => []AttestInv
  BY AttestInit, AttestStep, ShapeInvariant, RevealInvariant, PTL DEF Spec

\* A call or an expiry begins without a write.
LEMMA AloneEnds ==
  ASSUME FaultTypes, [Next]_vars, Alone, ~Alone'
  PROVE  UNCHANGED doc
<1>1. \/ UNCHANGED faults
      \/ \E kind \in {"timeouts", "delegations", "storeErrors", "crashes"} :
           Fault(kind)
      \/ CallLock \/ FindLocked
  BY FaultOfStep
<1>2. ASSUME NEW kind \in {"timeouts", "delegations", "storeErrors", "crashes"},
             Fault(kind)
      PROVE  FALSE
  <2>1. /\ {kind, "admin", "expiries"} \subseteq Kinds
        /\ kind \notin {"admin", "expiries"}
    BY DEF Kinds
  <2>. QED BY <1>2, <2>1, FaultStep DEF Alone
<1>. QED BY <1>1, <1>2 DEF Alone, CallLock, FindLocked

\* An attestation that was saved is never replaced, however often the lock is
\* attempted again and whatever generateOutcome answers, as long as the worker
\* works on the round alone.
THEOREM FinalTheorem == Spec => AttestationIsFinal
<1>1. ASSUME ShapeInv, RevealInv, AttestInv, [Next]_vars
      PROVE  [Alone /\ doc.attestation # None =>
                doc'.attestation = doc.attestation]_vars
  <2>1. CASE Alone'
    BY <1>1, <2>1, AttestStep DEF AttestationKept
  <2>2. CASE Alone /\ ~Alone'
    BY <1>1, <2>2, AloneEnds DEF RevealInv
  <2>. QED BY <2>1, <2>2
<1>. QED BY <1>1, ShapeInvariant, RevealInvariant, AttestInvariant, PTL DEF Spec,
            AttestationIsFinal

-----------------------------------------------------------------------------
(* One outcome                                                             *)

Same(a) == doc.attestation # None /\ a = doc.attestation

\* A transaction that carries an attestation carries the document's.
Honest(tx) == tx.kind \in {"commit", "reveal", "erReveal"} => Same(tx.att)

\* Everything that was ever sent, committed, revealed or shown is what the
\* document's attestation says.
OneOutcome ==
  /\ \A tx \in limbo : Honest(tx)
  /\ x["worker"].pc \in Knowing => Same(x["worker"].att)
  /\ acct.commitment # None =>
       doc.attestation # None /\ acct.commitment = doc.attestation.result
  /\ acct.outcome # Pending =>
       doc.attestation # None /\ acct.outcome = doc.attestation.result
  /\ doc.outcome # None => acct.outcome = doc.outcome

\* The inductive invariant behind RevealedIsOnChain and CommitmentHonoured.
OutcomeInv == Alone => OneOutcome

\* A step that adds nothing but what the attestation says keeps it.
LEMMA OutcomeMove ==
  ASSUME ShapeInv, OneOutcome, AttestationKept,
         \A tx \in limbo' : tx \in limbo \/ Honest(tx),
         x'["worker"].pc \in Knowing => Same(x'["worker"].att),
         \/ acct'.commitment = acct.commitment
         \/ doc.attestation # None /\ acct'.commitment = doc.attestation.result,
         \/ acct'.outcome = acct.outcome
         \/ doc.attestation # None /\ acct'.outcome = doc.attestation.result,
         doc'.outcome = doc.outcome \/ doc'.outcome = acct'.outcome
  PROVE  OneOutcome'
<1>1. doc \in Document /\ Pending \notin Results /\ acct \in Chain!Account
  BY LifecycleAssumption DEF ShapeInv, ChainTypes
<1>2. doc.outcome # None => doc.outcome # Pending
  BY <1>1 DEF Document
<1>3. \A a : Same(a) => doc'.attestation # None /\ a = doc'.attestation
  BY DEF Same, AttestationKept
<1>4. \A tx \in limbo' : Honest(tx)'
  BY <1>3 DEF OneOutcome, Honest, Same
<1>5. x'["worker"].pc \in Knowing => Same(x["worker"].att)'
  BY <1>3 DEF Same
<1>6. /\ acct'.commitment # None =>
           doc'.attestation # None /\ acct'.commitment = doc'.attestation.result
      /\ acct'.outcome # Pending =>
           doc'.attestation # None /\ acct'.outcome = doc'.attestation.result
  BY DEF OneOutcome, AttestationKept
<1>7. doc'.outcome # None => acct'.outcome = doc'.outcome
  BY <1>2 DEF OneOutcome
<1>. QED BY <1>4, <1>5, <1>6, <1>7 DEF OneOutcome, Honest, Same

\* Transactions, early or late, write what the attestation says.
LEMMA ExecuteHonest ==
  ASSUME ChainTypes, NEW tx \in Tx, Execute(tx), Honest(tx)
  PROVE  /\ \/ acct'.commitment = acct.commitment
            \/ doc.attestation # None /\ acct'.commitment = doc.attestation.result
         /\ \/ acct'.outcome = acct.outcome
            \/ doc.attestation # None /\ acct'.outcome = doc.attestation.result
  BY ExecuteFacts DEF Honest, Same, Tx

LEMMA OutcomeTransact ==
  ASSUME ShapeInv, OneOutcome, NEW tx \in Tx, Honest(tx), NEW pc \in Steps,
         Transact("worker", tx, pc), UNCHANGED doc,
         pc \in Knowing => x["worker"].pc \in Knowing
  PROVE  OneOutcome'
<1>. "worker" \in Procs
  BY DEF Procs
<1>1. ChainTypes /\ AttestationKept
  BY DEF ShapeInv, AttestationKept
<1>2. CASE Execute(tx) /\ Goto("worker", pc) /\ UNCHANGED <<limbo, jobs, faults>>
  <2>1. x'["worker"].pc = pc /\ x'["worker"].att = x["worker"].att
    BY <1>2, WorkerMoves
  <2>2. x'["worker"].pc \in Knowing => Same(x'["worker"].att)
    BY <2>1 DEF OneOutcome
  <2>. QED BY <1>1, <1>2, <2>2, ExecuteHonest, OutcomeMove
<1>3. CASE Throw("worker") /\ (GiveUp(tx) \/ UNCHANGED <<chain, limbo, faults>>)
  <2>1. x'["worker"].pc \notin Knowing
    BY <1>3, WorkerMoves, IdleFields DEF Knowing
  <2>2. UNCHANGED acct /\ \A u \in limbo' : u \in limbo \/ Honest(u)
    BY <1>3 DEF GiveUp, chain
  <2>. QED BY <1>1, <2>1, <2>2, OutcomeMove
<1>. QED BY <1>2, <1>3 DEF Transact

\* Every step of the worker keeps it: what it records as the outcome is on the
\* chain by RevealInv.
LEMMA OutcomeService ==
  ASSUME ShapeInv, RevealInv, Alone, OneOutcome, AttestationKept,
         ServiceStep("worker")
  PROVE  OneOutcome'
<1>. DEFINE p == "worker"
<1>. HIDE DEF p
<1>0. p \in Procs /\ p = "worker"
  BY DEF Procs, p
<1>. SUFFICES ASSUME ServiceStep(p)
              PROVE  OneOutcome'
  BY <1>0
<1>. USE <1>0 DEF At
<1>1. /\ x \in [Procs -> Proc] /\ x[p] \in Proc /\ doc \in Document /\ ChainTypes
      /\ x[p].pc \in Knowing => Same(x[p].att) /\ x[p].att \in Attestation
  BY DEF ShapeInv, ProcTypes, KnowsAttestation, Knowing, OneOutcome
<1>2. ASSUME Return(p, jobs) \/ Throw(p) \/ Abandon(p)
             \/ (\E pc \in Steps \ Knowing : Goto(p, pc)),
             UNCHANGED <<chain, limbo>>, doc'.outcome = doc.outcome
      PROVE  OneOutcome'
  <2>1. x'[p].pc \notin Knowing
    BY <1>2, WorkerMoves, IdleFields DEF Knowing
  <2>. QED BY <1>2, <2>1, OutcomeMove DEF chain
<1>3. CASE ReadRound(p)
  <2>1. x'[p].pc \notin Knowing
    <3>1. CASE Return(p, jobs) \/ Abandon(p)
      BY <3>1, WorkerMoves, IdleFields DEF Knowing
    <3>2. CASE ~(Return(p, jobs) \/ Abandon(p))
      BY <1>1, <1>3, <3>2 DEF ReadRound, Proc, Knowing
    <3>. QED BY <3>1, <3>2
  <2>. QED BY <1>3, <2>1, OutcomeMove DEF ReadRound, chain
<1>4. CASE LockAccount(p)
  <2>1. /\ "recordLock" \in Steps \ Knowing
        /\ Send("lock") \in Tx /\ Honest(Send("lock"))
    BY SendTypes, StepNames DEF Send, Honest, Knowing
  <2>2. CASE Transact(p, Send("lock"), "recordLock")
    BY <1>4, <2>1, <2>2, OutcomeTransact DEF LockAccount
  <2>3. CASE ~Transact(p, Send("lock"), "recordLock")
    <3>1. (Goto(p, "recordLock") \/ Throw(p)) /\ UNCHANGED <<chain, limbo, doc>>
      BY <1>4, <2>3 DEF LockAccount, Transact
    <3>. QED BY <1>2, <2>1, <3>1
  <2>. QED BY <2>2, <2>3
<1>5. CASE \/ RecordLock(p) \/ CountBets(p) \/ MarkExpired(p) \/ SeeRandomness(p)
           \/ PollTimesOut(p) \/ Attest(p) \/ RecordDelegation(p) \/ VerifyCommit(p)
           \/ QueueReveal(p) \/ QueueAgain(p) \/ Publish(p) \/ QueueSettle(p)
           \/ Finish(p)
  <2>1. {"count", "markExpired", "readCommit", "request", "finish", "attest",
         "delegate", "queueAgain", "queueReveal", "queueSettle"}
           \subseteq Steps \ Knowing
    BY DEF Steps, Knowing
  <2>2. UNCHANGED <<chain, limbo>> /\ doc'.outcome = doc.outcome
    BY <1>1, <1>5 DEF RecordLock, CountBets, MarkExpired, SeeRandomness,
       PollTimesOut, Attest,
       RecordDelegation, VerifyCommit, QueueReveal, QueueAgain, Publish,
       QueueSettle, Finish, Document
  <2>3. Return(p, jobs) \/ Throw(p) \/ (\E pc \in Steps \ Knowing : Goto(p, pc))
    BY <1>5, <2>1 DEF RecordLock, CountBets, MarkExpired, SeeRandomness,
       PollTimesOut, Attest,
       RecordDelegation, VerifyCommit, QueueReveal, QueueAgain, Publish,
       QueueSettle, Finish
  <2>. QED BY <1>2, <2>2, <2>3
<1>6. CASE RequestRandomness(p) \/ DelegateAccount(p)
  <2>1. /\ {"poll", "recordDelegation"} \subseteq Steps \ Knowing
        /\ Send("request") \in Tx /\ Honest(Send("request"))
        /\ Send("delegate") \in Tx /\ Honest(Send("delegate"))
    BY SendTypes, StepNames DEF Send, Honest, Knowing
  <2>. QED BY <1>6, <2>1, OutcomeTransact DEF RequestRandomness, DelegateAccount
<1>7. CASE ReadCommit(p) \/ ReadReveal(p)
  <2>1. CASE Throw(p)
    BY <1>2, <1>7, <2>1 DEF ReadCommit, ReadReveal
  <2>2. CASE ~Throw(p)
    <3>1. Same(x'[p].att)
      BY <1>1, <1>7, <2>2 DEF ReadCommit, ReadReveal, Proc, Same
    <3>. QED BY <1>7, <3>1, OutcomeMove DEF ReadCommit, ReadReveal, chain
  <2>. QED BY <2>1, <2>2
<1>8. CASE CommitOutcome(p)
  <2>. DEFINE tx == SendAtt("commit", x[p].att)
  <2>1. /\ {"verify", "delegate"} \subseteq Steps /\ x[p].pc \in Knowing
        /\ tx \in Tx /\ Honest(tx)
    BY <1>1, <1>8, SendTypes, StepNames DEF CommitOutcome, Knowing, SendAtt,
       Honest
  <2>2. CASE Transact(p, tx, "verify")
    <3>. HIDE DEF tx
    <3>. QED BY <1>8, <2>1, <2>2, OutcomeTransact DEF CommitOutcome
  <2>3. CASE ~Transact(p, tx, "verify")
    <3>1. /\ UNCHANGED <<chain, limbo, doc>>
          /\ \/ Throw(p)
             \/ x' = [x EXCEPT ![p].pc = "delegate", ![p].path = "fallback"]
      BY <1>8, <2>3 DEF CommitOutcome, Transact
    <3>2. CASE x' = [x EXCEPT ![p].pc = "delegate", ![p].path = "fallback"]
      <4>1. x'[p].pc \notin Knowing
        BY <1>1, <3>2 DEF Proc, Knowing
      <4>. QED BY <3>1, <4>1, OutcomeMove DEF chain
    <3>. QED BY <1>2, <3>1, <3>2
  <2>. QED BY <2>2, <2>3
<1>9. CASE Reveal(p)
  <2>. DEFINE kind == IF x[p].delegated THEN "erReveal" ELSE "reveal"
              tx == SendAtt(kind, x[p].att)
  <2>1. /\ "recordReveal" \in Steps /\ x[p].pc \in Knowing
        /\ tx \in Tx /\ Honest(tx) /\ UNCHANGED doc
    BY <1>1, <1>9, SendTypes, StepNames DEF Reveal, Knowing, SendAtt, Honest
  <2>2. CASE Transact(p, tx, "recordReveal")
    <3>. HIDE DEF tx
    <3>. QED BY <2>1, <2>2, OutcomeTransact
  <2>3. CASE ~Transact(p, tx, "recordReveal")
    <3>1. /\ Goto(p, "recordReveal") /\ UNCHANGED limbo
          /\ Chain!ErReveal(x[p].att.result) \/ UNCHANGED chain
      BY <1>9, <2>3 DEF Reveal
    <3>2. x'[p].att = x[p].att
      BY <2>1, <3>1, WorkerMoves
    <3>3. /\ acct'.commitment = acct.commitment
          /\ acct'.outcome \in {acct.outcome, x[p].att.result}
      BY <1>1, <3>1 DEF ChainTypes, Chain!ErReveal, Chain!Write, Chain!Account,
         chain
    <3>. QED BY <1>1, <2>1, <3>1, <3>2, <3>3, OutcomeMove DEF Same
  <2>. QED BY <2>2, <2>3
<1>10. CASE RecordReveal(p)
  <2>1. Same(x[p].att) /\ acct.outcome # Pending
    BY <1>1, <1>10 DEF RecordReveal, Knowing, RevealInv, Alone, Unrevealed,
       UnrevealedProc
  <2>2. acct.outcome = x[p].att.result
    BY <2>1 DEF OneOutcome, Same
  <2>3. x'[p].pc \notin Knowing
    BY <1>10, WorkerMoves, StepNames DEF RecordReveal, Knowing
  <2>4. doc'.outcome = acct'.outcome /\ UNCHANGED <<acct, limbo>>
    BY <1>1, <1>10, <2>2 DEF RecordReveal, Document, chain
  <2>. QED BY <2>3, <2>4, OutcomeMove
<1>. QED BY <1>3, <1>4, <1>5, <1>6, <1>7, <1>8, <1>9, <1>10 DEF ServiceStep

\* So do the settlement, the oracle, and transactions that land late.
LEMMA OutcomeOthers ==
  ASSUME ShapeInv, OneOutcome,
         SettlementStep \/ ChainStep \/ PlaceBet \/ StartConfirm \/ ConfirmBet
         \/ Recover \/ UNCHANGED vars
  PROVE  OneOutcome'
<1>1. /\ UNCHANGED x /\ doc'.outcome = doc.outcome /\ AttestationKept /\ ChainTypes
      /\ x["worker"].pc \in Knowing => Same(x["worker"].att)
      /\ acct \in Chain!Account
  BY NobodysStep DEF AttestationKept, ShapeInv, ChainTypes, OneOutcome
<1>2. CASE ChainStep
  <2>1. CASE Callback \/ Undelegated
    <3>1. /\ acct'.commitment = acct.commitment /\ acct'.outcome = acct.outcome
          /\ UNCHANGED limbo
      BY <1>1, <2>1 DEF Callback, Undelegated, Chain!Callback, Chain!Return,
         Chain!Write, Chain!Account
    <3>. QED BY <1>1, <3>1, OutcomeMove
  <2>2. ASSUME NEW tx \in Tx, Land(tx)
        PROVE  OneOutcome'
    BY <1>1, <2>2, ExecuteHonest, OutcomeMove DEF Land, OneOutcome
  <2>3. ASSUME NEW tx \in Tx, Expire(tx)
        PROVE  OneOutcome'
    BY <1>1, <2>3, OutcomeMove DEF Expire, chain
  <2>. QED BY <1>2, <2>1, <2>2, <2>3 DEF ChainStep
<1>3. CASE SettlementStep
  <2>1. /\ acct'.commitment = acct.commitment /\ acct'.outcome = acct.outcome
        /\ UNCHANGED limbo
    BY <1>1, <1>3 DEF SettlementStep, SettlementUndelegates, SettlementNotes,
       SettlementRuns, SettlementCloses, Others, chain, Chain!Undelegate,
       Chain!Settle,
       Chain!Write, Chain!Account
  <2>. QED BY <1>1, <2>1, OutcomeMove
<1>4. CASE PlaceBet \/ StartConfirm \/ ConfirmBet \/ Recover \/ UNCHANGED vars
  <2>1. UNCHANGED <<chain, limbo>>
    BY <1>4 DEF PlaceBet, StartConfirm, ConfirmBet, Recover, vars
  <2>. QED BY <1>1, <2>1, OutcomeMove DEF chain
<1>. QED BY <1>2, <1>3, <1>4

\* So does every step.
LEMMA OutcomeStep ==
  ASSUME ShapeInv, RevealInv, AttestInv, OutcomeInv, [Next]_vars
  PROVE  OutcomeInv'
<1>. SUFFICES ASSUME Alone'
              PROVE  OneOutcome'
  BY DEF OutcomeInv
<1>1. Alone /\ ~CallLock /\ ~FindLocked /\ AttestationKept /\ OneOutcome
  BY AloneStep, AttestStep DEF RevealInv, OutcomeInv
<1>2. /\ ~ServiceStep("admin") /\ ~ExpirerStep
      /\ \A p \in Procs : ServiceFails(p) => p = "worker"
      /\ "worker" \in Procs
  BY <1>1, AloneProcs DEF Procs
<1>3. ASSUME x'["worker"].pc \notin Knowing, UNCHANGED <<chain, limbo, doc>>
      PROVE  OneOutcome'
  BY <1>1, <1>3, OutcomeMove DEF chain
<1>4. ASSUME NEW n \in JobNames, TakeJob(n)
      PROVE  OneOutcome'
  BY <1>3, <1>4, TakeFacts DEF Knowing
<1>5. CASE WorkerStep
  BY <1>1, <1>4, <1>5, OutcomeService DEF WorkerStep
<1>6. CASE ServiceFails("worker")
  <2>1. x'["worker"].pc \notin Knowing
    BY <1>2, <1>6, WorkerMoves, IdleFields DEF ServiceFails, Knowing
  <2>. QED BY <1>3, <1>6, <2>1 DEF ServiceFails
<1>7. CASE Crash
  <2>1. x'["worker"].pc \notin Knowing
    BY <1>2, <1>7, IdleFields DEF Crash, Knowing
  <2>. QED BY <1>3, <1>7, <2>1 DEF Crash
<1>. QED BY <1>1, <1>2, <1>5, <1>6, <1>7, OutcomeOthers DEF Next

LEMMA OutcomeInit == Init => OutcomeInv
  BY IdleFields DEF Init, OutcomeInv, OneOutcome, OpenDoc, Procs, Knowing,
     Chain!NoAccount

\* The inductive invariant holds.
THEOREM OutcomeInvariant == Spec => []OutcomeInv
  BY OutcomeInit, OutcomeStep, ShapeInvariant, RevealInvariant, AttestInvariant,
     PTL DEF Spec

\* The outcome the players are shown is the outcome on the chain, whatever
\* transactions were lost or late and whatever attempts were repeated.
THEOREM RevealedTheorem == Spec => []RevealedIsOnChain
<1>1. OutcomeInv => RevealedIsOnChain
  BY DEF OutcomeInv, OneOutcome, RevealedIsOnChain
<1>. QED BY <1>1, OutcomeInvariant, PTL

\* What was committed is what is revealed, on the rollup too.
THEOREM CommitmentTheorem == Spec => []CommitmentHonoured
<1>1. OutcomeInv => CommitmentHonoured
  BY DEF OutcomeInv, OneOutcome, CommitmentHonoured
<1>. QED BY <1>1, OutcomeInvariant, PTL

-----------------------------------------------------------------------------
(* One ending                                                              *)

\* The places of revealOutcome.
Revealing == {"readReveal", "reveal", "recordReveal", "publish", "queueSettle"}

\* Neither of the jobs that reveal was added.
Unqueued == jobs["reveal"].state = "none" /\ jobs["again"].state = "none"

\* The worker is through with the round: it can but complete its job.
Done == /\ x["worker"].pc \in {"idle", "finish"}
        /\ \A n \in JobNames : jobs[n].state # "waiting"

\* Without crashes one job ends the round: the lock job is over before a reveal
\* job runs, at most one reveal job is ever added, and whoever queues the
\* settlement, or finds no bets, was the last.
OneEnding ==
  /\ Over \/ settle # "none" => Done
  /\ settle # "none" => doc.status # "PREDICTING"
  /\ doc.status = "PREDICTING" =>
       x["worker"].pc \in {"idle", "read", "lock", "recordLock"} /\ Unqueued
  /\ x["worker"].task = "lock" /\ x["worker"].pc \notin {"idle", "finish"} =>
       Unqueued
  /\ jobs["lock"].state = "waiting" => Unqueued
  /\ jobs["reveal"].state = "none" \/ jobs["again"].state = "none"
  /\ x["worker"].pc \in Revealing =>
       x["worker"].task # "lock" /\ jobs["lock"].state # "waiting"
  /\ x["worker"].pc \notin {"idle", "finish"} \cup Revealing =>
       x["worker"].task = "lock"

\* The inductive invariant behind TerminalStays.
EndingInv == Alone /\ faults.spent.crashes = 0 => OneEnding

\* What an ending does to the job in hand.
LEMMA EndFacts ==
  ASSUME ShapeInv, x["worker"].pc # "idle",
         Return("worker", jobs) \/ Throw("worker") \/ Abandon("worker")
  PROVE  /\ x'["worker"].pc = "idle"
         /\ x["worker"].task \in JobNames
         /\ jobs[x["worker"].task].state = "active"
         /\ jobs'[x["worker"].task].state \in {"waiting", "completed", "failed"}
         /\ Return("worker", jobs) => jobs'[x["worker"].task].state = "completed"
         /\ \A m \in JobNames : m # x["worker"].task => jobs'[m] = jobs[m]
<1>1. PICK n \in JobNames : /\ x["worker"].task = n
                            /\ jobs[n] \in Job /\ jobs[n].state = "active"
  BY DEF ShapeInv, ProcTypes, JobsInHand
<1>2. jobs \in [JobNames -> Job] /\ x'["worker"].pc = "idle"
  BY WorkerMoves, IdleFields DEF ShapeInv, ProcTypes, Procs
<1>3. CASE Throw("worker") /\ ~Return("worker", jobs)
  <2>1. \E k : /\ jobs' = [jobs EXCEPT ![n] = k]
               /\ k.state \in {"waiting", "failed"}
    <3>. DEFINE k == [jobs[n] EXCEPT !.attempts = @ + 1,
                        !.state = IF jobs[n].attempts + 1 < MaxAttempts
                                    THEN "waiting" ELSE "failed"]
    <3>1. jobs' = [jobs EXCEPT ![n] = k]
      BY <1>1, <1>3 DEF Throw
    <3>2. k.state \in {"waiting", "failed"}
      BY <1>1 DEF Job
    <3>. QED BY <3>1, <3>2
  <2>. QED BY <1>1, <1>2, <1>3, <2>1
<1>4. CASE Return("worker", jobs) \/ Abandon("worker")
  <2>1. PICK s \in {"completed", "failed"} :
          /\ jobs' = [jobs EXCEPT ![n].state = s]
          /\ Return("worker", jobs) => s = "completed"
    BY <1>1, <1>4 DEF Return, Abandon, Ended
  <2>. QED BY <1>1, <1>2, <2>1 DEF Job
<1>. QED BY <1>3, <1>4

\* An attempt that ends keeps it.
LEMMA EndingEnds ==
  ASSUME ShapeInv, OneEnding, x["worker"].pc # "idle",
         Return("worker", jobs) \/ Throw("worker") \/ Abandon("worker"),
         x["worker"].pc = "finish" => Return("worker", jobs),
         UNCHANGED <<doc, settle>>
  PROVE  OneEnding'
<1>. DEFINE n == x["worker"].task
<1>1. /\ x'["worker"].pc = "idle" /\ n \in JobNames
      /\ jobs[n].state = "active"
      /\ jobs'[n].state \in {"waiting", "completed", "failed"}
      /\ Return("worker", jobs) => jobs'[n].state = "completed"
      /\ \A m \in JobNames : m # n => jobs'[m] = jobs[m]
      /\ JobNames = {"lock", "reveal", "again"}
  BY EndFacts DEF JobNames
<1>2. Over \/ settle # "none" => Done'
  BY <1>1 DEF OneEnding, Done
<1>3. /\ jobs'["reveal"].state = "none" <=> jobs["reveal"].state = "none"
      /\ jobs'["again"].state = "none" <=> jobs["again"].state = "none"
  BY <1>1
<1>4. jobs'["lock"].state = "waiting" => Unqueued
  BY <1>1 DEF OneEnding
<1>. QED BY <1>1, <1>2, <1>3, <1>4 DEF OneEnding, Over, Unqueued, Revealing

\* So does a worker that goes on with its job.
LEMMA EndingGoes ==
  ASSUME OneEnding, UNCHANGED <<jobs, settle>>,
         x["worker"].pc \notin {"idle", "finish"},
         x'["worker"].task = x["worker"].task,
         x'["worker"].pc \notin {"idle", "finish"},
         x'["worker"].pc \in Revealing <=> x["worker"].pc \in Revealing,
         doc'.status \notin {"FAILED", "SETTLED"},
         doc'.status = "PREDICTING" =>
           /\ doc.status = "PREDICTING"
           /\ x'["worker"].pc \in {"read", "lock", "recordLock"}
  PROVE  OneEnding'
<1>. DEFINE w == x["worker"]
<1>1. settle = "none" /\ ~Over
  BY DEF OneEnding, Done
<1>. QED BY <1>1 DEF OneEnding, Over, Unqueued, Done

\* So does every step of the worker.
LEMMA EndingService ==
  ASSUME ShapeInv, OneEnding, ServiceStep("worker")
  PROVE  OneEnding' /\ (Over => Over')
<1>. DEFINE p == "worker"
<1>. HIDE DEF p
<1>0. p \in Procs /\ p = "worker"
  BY DEF Procs, p
<1>. SUFFICES ASSUME ServiceStep(p)
              PROVE  OneEnding' /\ (Over => Over')
  BY <1>0
<1>. USE <1>0 DEF At
<1>1. /\ x \in [Procs -> Proc] /\ x[p] \in Proc /\ doc \in Document
      /\ x[p].pc \notin {"idle", "finish"} => ~Over /\ settle = "none"
      /\ x[p].pc # "idle"
  <2>1. x[p] # Idle
    BY IdleProc
  <2>2. x[p].pc # "idle"
    BY IdleProc DEF ServiceStep, ReadRound, LockAccount, RecordLock, CountBets,
       MarkExpired,
       RequestRandomness, SeeRandomness, PollTimesOut, Attest, DelegateAccount,
       RecordDelegation, ReadCommit, CommitOutcome, VerifyCommit, QueueReveal,
       QueueAgain,
       ReadReveal, Reveal, RecordReveal, Publish, QueueSettle, Finish
  <2>. QED BY <2>2 DEF ShapeInv, ProcTypes, OneEnding, Done
<1>2. ASSUME Return(p, jobs) \/ Throw(p) \/ Abandon(p),
             x[p].pc = "finish" => Return(p, jobs),
             UNCHANGED <<doc, settle>>
      PROVE  OneEnding' /\ (Over => Over')
  BY <1>1, <1>2, EndingEnds DEF Over
<1>3. ASSUME NEW pc \in Steps, Goto(p, pc), x[p].pc \notin {"idle", "finish"},
             pc \notin {"idle", "finish"}, UNCHANGED <<jobs, settle>>,
             pc \in Revealing <=> x[p].pc \in Revealing,
             doc'.status \notin {"FAILED", "SETTLED"},
             doc'.status = "PREDICTING" =>
               doc.status = "PREDICTING" /\ pc \in {"read", "lock", "recordLock"}
      PROVE  OneEnding' /\ (Over => Over')
  <2>1. x'[p].pc = pc /\ x'[p].task = x[p].task
    BY <1>3, WorkerMoves
  <2>. QED BY <1>1, <1>3, <2>1, EndingGoes
<1>4. CASE ReadRound(p)
  <2>1. CASE Return(p, jobs) \/ Abandon(p)
    BY <1>2, <1>4, <2>1 DEF ReadRound
  <2>2. CASE ~(Return(p, jobs) \/ Abandon(p))
    <3>1. /\ x'[p].task = x[p].task
          /\ \/ x'[p].pc = "count" /\ doc.status = "LOCKED"
             \/ x'[p].pc = "lock" /\ doc.status = "PREDICTING"
          /\ UNCHANGED <<doc, settle, jobs>> /\ x[p].pc = "read"
      BY <1>1, <1>4, <2>2 DEF ReadRound, Proc
    <3>. QED BY <1>1, <3>1, EndingGoes DEF Revealing, Over
  <2>. QED BY <2>1, <2>2
<1>5. CASE LockAccount(p)
  <2>1. Throw(p) \/ (Goto(p, "recordLock") /\ UNCHANGED jobs)
    BY <1>5 DEF LockAccount
  <2>. QED BY <1>1, <1>2, <1>3, <1>5, <2>1, StepNames DEF LockAccount, Revealing,
              Over, OneEnding
<1>6. CASE RecordLock(p)
  <2>1. doc'.status = "LOCKED"
    BY <1>1, <1>6 DEF RecordLock, Document
  <2>. QED BY <1>1, <1>3, <1>6, <2>1, StepNames DEF RecordLock, Revealing
<1>7. CASE CountBets(p)
  <2>1. CASE bet # "doc"
    <3>1. Goto(p, "markExpired")
      BY <1>7, <2>1 DEF CountBets
    <3>. QED BY <1>1, <1>3, <1>7, <3>1, StepNames DEF CountBets, Revealing, Over,
                OneEnding
  <2>2. CASE bet = "doc"
    <3>1. Goto(p, "readCommit") \/ Goto(p, "request")
      BY <1>7, <2>2 DEF CountBets
    <3>. QED BY <1>1, <1>3, <1>7, <3>1, StepNames DEF CountBets, Revealing, Over,
                OneEnding
  <2>. QED BY <2>1, <2>2
<1>8. CASE \/ RequestRandomness(p) \/ SeeRandomness(p) \/ PollTimesOut(p)
           \/ DelegateAccount(p) \/ VerifyCommit(p)
  <2>1. \/ Throw(p)
        \/ /\ \E pc \in {"poll", "attest", "recordDelegation", "queueReveal"} :
                Goto(p, pc)
           /\ UNCHANGED jobs
    BY <1>8 DEF RequestRandomness, SeeRandomness, PollTimesOut, DelegateAccount,
       VerifyCommit, Transact
  <2>2. /\ x[p].pc \in {"request", "poll", "delegate", "verify"}
        /\ UNCHANGED <<doc, settle>>
    BY <1>8 DEF RequestRandomness, SeeRandomness, PollTimesOut, DelegateAccount,
       VerifyCommit
  <2>3. doc.status \notin {"PREDICTING", "FAILED", "SETTLED"}
    BY <1>1, <2>2 DEF OneEnding, Over
  <2>. QED BY <1>2, <1>3, <2>1, <2>2, <2>3, StepNames DEF Revealing
<1>9. CASE Attest(p) \/ RecordDelegation(p)
  <2>1. /\ \E pc \in {"delegate", "readCommit", "queueAgain"} : Goto(p, pc)
        /\ UNCHANGED <<jobs, settle>>
        /\ x[p].pc \in {"attest", "recordDelegation"}
        /\ doc'.status = doc.status
    BY <1>1, <1>9 DEF Attest, RecordDelegation, Document
  <2>2. doc.status \notin {"PREDICTING", "FAILED", "SETTLED"}
    BY <1>1, <2>1 DEF OneEnding, Over
  <2>. QED BY <1>3, <2>1, <2>2, StepNames DEF Revealing
<1>10. CASE ReadCommit(p) \/ ReadReveal(p)
  <2>1. CASE Throw(p)
    BY <1>2, <1>10, <2>1 DEF ReadCommit, ReadReveal
  <2>2. CASE ~Throw(p)
    <3>1. /\ \/ x[p].pc = "readCommit" /\ x'[p].pc \in {"queueReveal", "commit"}
             \/ x[p].pc = "readReveal" /\ x'[p].pc = "reveal"
          /\ x'[p].task = x[p].task
          /\ UNCHANGED <<doc, settle, jobs>>
      BY <1>1, <1>10, <2>2 DEF ReadCommit, ReadReveal, Proc
    <3>2. doc.status \notin {"PREDICTING", "FAILED", "SETTLED"}
      BY <1>1, <3>1 DEF OneEnding, Over
    <3>. QED BY <1>1, <3>1, <3>2, EndingGoes DEF Revealing
  <2>. QED BY <2>1, <2>2
<1>11. CASE CommitOutcome(p)
  <2>1. UNCHANGED <<doc, settle>> /\ x[p].pc = "commit"
    BY <1>11 DEF CommitOutcome
  <2>2. doc.status \notin {"PREDICTING", "FAILED", "SETTLED"}
    BY <1>1, <2>1 DEF OneEnding, Over
  <2>3. CASE Throw(p)
    BY <1>2, <2>1, <2>3
  <2>4. CASE ~Throw(p)
    <3>1. /\ x'[p].pc \in {"verify", "delegate"} /\ x'[p].task = x[p].task
          /\ UNCHANGED jobs
      BY <1>1, <1>11, <2>4 DEF CommitOutcome, Goto, Proc
    <3>. QED BY <1>1, <2>1, <2>2, <3>1, EndingGoes DEF Revealing
  <2>. QED BY <2>3, <2>4
<1>12. CASE Reveal(p) \/ Publish(p)
  <2>1. /\ \/ Throw(p)
           \/ /\ \E pc \in {"recordReveal", "queueSettle"} : Goto(p, pc)
              /\ UNCHANGED jobs
        /\ UNCHANGED <<doc, settle>> /\ x[p].pc \in {"reveal", "publish"}
    BY <1>12 DEF Reveal, Publish, Transact
  <2>2. doc.status \notin {"PREDICTING", "FAILED", "SETTLED"}
    BY <1>1, <2>1 DEF OneEnding, Over
  <2>. QED BY <1>2, <1>3, <2>1, <2>2, StepNames DEF Revealing
<1>13. CASE RecordReveal(p)
  <2>1. doc'.status = "REVEALED"
    BY <1>1, <1>13 DEF RecordReveal, Document
  <2>. QED BY <1>3, <1>13, <2>1, StepNames DEF RecordReveal, Revealing
<1>14. CASE Finish(p)
  BY <1>2, <1>14 DEF Finish
<1>15. CASE MarkExpired(p) \/ QueueSettle(p)
  <2>1. /\ x'[p].pc = "finish" /\ x'[p].task = x[p].task /\ UNCHANGED jobs
        /\ x[p].task \in JobNames /\ jobs[x[p].task].state = "active"
        /\ JobNames = {"lock", "reveal", "again"}
    BY <1>1, <1>15, WorkerMoves, StepNames DEF MarkExpired, QueueSettle,
       ShapeInv, ProcTypes, JobsInHand, JobNames
  <2>2. \/ x[p].pc = "markExpired" /\ doc'.status = "FAILED"
        \/ x[p].pc = "queueSettle" /\ doc' = doc
    BY <1>1, <1>15 DEF MarkExpired, QueueSettle, Document
  <2>3. doc.status \notin {"PREDICTING", "FAILED", "SETTLED"}
    BY <1>1, <2>2 DEF OneEnding, Over
  <2>4. Done'
    <3>1. \A n \in JobNames : jobs[n].state # "waiting"
      BY <2>1, <2>2 DEF OneEnding, Unqueued, Revealing
    <3>. QED BY <2>1, <3>1 DEF Done
  <2>. QED BY <2>1, <2>2, <2>3, <2>4 DEF OneEnding, Unqueued, Revealing, Over
<1>16. CASE QueueReveal(p) \/ QueueAgain(p)
  <2>1. /\ x'[p].pc = "finish" /\ x'[p].task = x[p].task
        /\ x[p].pc \in {"queueReveal", "queueAgain"} /\ UNCHANGED <<doc, settle>>
        /\ x[p].task = "lock" /\ jobs["lock"].state = "active"
        /\ JobNames = {"lock", "reveal", "again"}
    BY <1>1, <1>16, WorkerMoves, StepNames DEF QueueReveal, QueueAgain, ShapeInv,
       ProcTypes,
       JobsInHand, JobNames, OneEnding, Revealing
  <2>2. /\ doc.status \notin {"PREDICTING", "FAILED", "SETTLED"}
        /\ Unqueued /\ settle = "none"
    BY <1>1, <2>1 DEF OneEnding, Over
  <2>3. \E n \in {"reveal", "again"} : jobs' = [jobs EXCEPT ![n] = NewJob]
    BY <1>16, <2>2 DEF QueueReveal, QueueAgain, Added, Unqueued
  <2>4. /\ jobs'["lock"] = jobs["lock"]
        /\ jobs'["reveal"] = jobs["reveal"] \/ jobs'["again"] = jobs["again"]
    BY <2>1, <2>3 DEF ShapeInv, ProcTypes
  <2>. QED BY <2>1, <2>2, <2>4 DEF OneEnding, Unqueued, Revealing, Over
<1>. QED BY <1>4, <1>5, <1>6, <1>7, <1>8, <1>9, <1>10, <1>11, <1>12, <1>13,
            <1>14, <1>15,
            <1>16 DEF ServiceStep

\* So does everybody else: the recovery adds a lock job to a round without any.
LEMMA EndingOthers ==
  ASSUME ShapeInv, OneEnding,
         SettlementStep \/ ChainStep \/ PlaceBet \/ StartConfirm \/ ConfirmBet
         \/ Recover \/ UNCHANGED vars
  PROVE  OneEnding' /\ (Over => Over')
<1>1. /\ UNCHANGED x
      /\ \/ doc'.status = doc.status
         \/ settle = "await" /\ doc'.status \in {"SETTLED", "FAILED"}
      /\ JobNames = {"lock", "reveal", "again"}
  BY NobodysStep DEF JobNames
<1>2. CASE SettlementStep
  <2>1. UNCHANGED jobs /\ settle # "none"
    BY <1>2 DEF SettlementStep, SettlementUndelegates, SettlementNotes,
       SettlementRuns, SettlementCloses, Others
  <2>. QED BY <1>1, <2>1 DEF OneEnding, Done, Over, Unqueued
<1>3. CASE Recover
  <2>1. /\ UNCHANGED <<doc, settle>> /\ doc.status = "PREDICTING"
        /\ \A m \in JobNames : m # "lock" => jobs'[m] = jobs[m]
    BY <1>3 DEF Recover, ShapeInv, ProcTypes
  <2>2. settle = "none" /\ ~Over /\ Unqueued /\ Unqueued'
    BY <1>1, <2>1 DEF OneEnding, Over, Unqueued
  <2>. QED BY <1>1, <2>1, <2>2 DEF OneEnding, Revealing, Over, Unqueued
<1>4. CASE ChainStep \/ PlaceBet \/ StartConfirm \/ ConfirmBet \/ UNCHANGED vars
  <2>1. UNCHANGED <<doc, settle, jobs>>
    BY <1>4 DEF ChainStep, Callback, Undelegated, Land, Expire, PlaceBet,
       StartConfirm,
       ConfirmBet, vars
  <2>. QED BY <1>1, <2>1 DEF OneEnding, Done, Over, Unqueued
<1>. QED BY <1>2, <1>3, <1>4

\* So does taking a job.
LEMMA EndingTakes ==
  ASSUME ShapeInv, OneEnding, NEW n \in JobNames, TakeJob(n)
  PROVE  OneEnding' /\ (Over => Over')
<1>1. /\ jobs[n].state = "waiting" /\ JobNames = {"lock", "reveal", "again"}
      /\ x'["worker"].pc = IF n = "lock" THEN "read" ELSE "readReveal"
      /\ x'["worker"].task = n
      /\ jobs'[n].state = "active"
      /\ \A m \in JobNames : m # n => jobs'[m] = jobs[m]
      /\ UNCHANGED <<doc, settle>>
  BY TakeFacts DEF JobNames
<1>2. ~Over /\ settle = "none"
  BY <1>1 DEF OneEnding, Done
<1>3. CASE n = "lock"
  <2>1. Unqueued /\ Unqueued'
    BY <1>1, <1>3 DEF OneEnding, Unqueued
  <2>. QED BY <1>1, <1>2, <1>3, <2>1 DEF OneEnding, Over, Revealing, Unqueued
<1>4. CASE n # "lock"
  <2>1. doc.status # "PREDICTING" /\ jobs["lock"].state # "waiting"
    BY <1>1, <1>4 DEF OneEnding, Unqueued
  <2>. QED BY <1>1, <1>2, <1>4, <2>1 DEF OneEnding, Over, Revealing, Unqueued
<1>. QED BY <1>3, <1>4

\* So does every step of a worker that is alone, and a round that is over is over
\* after it.
LEMMA EndingKept ==
  ASSUME ShapeInv, RevealInv, AttestInv, OneEnding, [Next]_vars, Alone,
         ~CallLock, ~FindLocked, ~Crash
  PROVE  OneEnding' /\ (Over => Over')
<1>1. /\ ~ServiceStep("admin") /\ ~ExpirerStep
      /\ \A p \in Procs : ServiceFails(p) => p = "worker"
      /\ "worker" \in Procs
  BY AloneProcs DEF Procs
<1>2. CASE WorkerStep
  BY <1>2, EndingTakes, EndingService DEF WorkerStep
<1>3. CASE ServiceFails("worker")
  <2>1. /\ x["worker"].pc \notin {"idle", "finish"} /\ Throw("worker")
        /\ UNCHANGED <<doc, settle>>
    BY <1>3 DEF ServiceFails
  <2>. QED BY <2>1, EndingEnds DEF Over
<1>. QED BY <1>1, <1>2, <1>3, EndingOthers DEF Next

LEMMA EndingStep ==
  ASSUME ShapeInv, RevealInv, AttestInv, EndingInv, [Next]_vars
  PROVE  EndingInv'
  BY FaultsStep, AloneStep, EndingKept DEF EndingInv, RevealInv

LEMMA EndingInit == Init => EndingInv
<1>. SUFFICES ASSUME Init PROVE OneEnding
  BY DEF EndingInv
<1>1. PICK lock \in {NoJob, NewJob} :
        jobs = [n \in JobNames |-> IF n = "lock" THEN lock ELSE NoJob]
  BY DEF Init
<1>2. NoJob.state = "none" /\ "reveal" \in JobNames /\ "again" \in JobNames
  BY DEF NoJob, JobNames
<1>. QED BY <1>1, <1>2, IdleFields
     DEF Init, OneEnding, Over, OpenDoc, Unqueued, Revealing, Procs

\* The inductive invariant holds.
THEOREM EndingInvariant == Spec => []EndingInv
  BY EndingInit, EndingStep, ShapeInvariant, RevealInvariant, AttestInvariant,
     PTL DEF Spec

\* A round that failed or was settled stays so without crashes, although every
\* status is written without a look at what it has become: nobody is left to
\* write one.
THEOREM TerminalTheorem == Spec => TerminalStays
<1>1. ASSUME ShapeInv, RevealInv, AttestInv, EndingInv, [Next]_vars
      PROVE  [Alone /\ faults.spent.crashes = 0 /\ Over => Over']_vars
  <2>. SUFFICES ASSUME Alone, faults.spent.crashes = 0, Over
                PROVE  Over'
    OBVIOUS
  <2>1. CASE CallLock \/ FindLocked \/ Crash
    BY <2>1 DEF CallLock, FindLocked, Crash, Over
  <2>2. CASE ~CallLock /\ ~FindLocked /\ ~Crash
    BY <1>1, <2>2, EndingKept DEF EndingInv
  <2>. QED BY <2>1, <2>2
<1>. QED BY <1>1, ShapeInvariant, RevealInvariant, AttestInvariant,
            EndingInvariant, PTL
     DEF Spec, TerminalStays

=============================================================================
