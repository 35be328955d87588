-------------------------- MODULE RoundScheduling --------------------------
(***************************************************************************)
(* The rounds of one market, from the queue to the lock: autoOpenRounds    *)
(* queues the next round, releaseQueuedRounds opens the due ones on the    *)
(* chain and adds their lock jobs, recoverStalledRounds repairs, the TTL   *)
(* index and cleanupOldRounds delete, and the admin may open a round too.  *)
(* What a round does after its lock is RoundLifecycle's.                   *)
(*                                                                         *)
(* Every await that reads or writes shared state ends a step.  Times are   *)
(* ages: a document is fresh when queued, then due, then stale: the grace  *)
(* of recoverStalledRounds has passed, and sooner or later a day.  An      *)
(* opened one is fresh again, then stale.  The statuses after LOCKED are   *)
(* one, "CLOSED": the schedulers do not tell them apart.                   *)
(***************************************************************************)
EXTENDS Integers, FiniteSets

CONSTANTS
  Docs,        \* identities of Round documents
  Runs,        \* executions of autoOpenRounds
  MaxNumber,   \* bound: greater round numbers are not told apart
  MaxAttempts, \* attempts of openRound
  MaxLast,     \* bound on the rounds opened on the chain
  MaxFaults,   \* budget of faults of any kind: an opening without an answer, a
               \* call that fails, a pause of the market, a crash
  MaxMeetings, \* budget of what lets two openings meet: a holder of SchedulerLock
               \* beyond its 120 s, a call of the open endpoint
  None

ASSUME SchedulingAssumption ==
  /\ IsFiniteSet(Docs)
  /\ {MaxNumber, MaxAttempts, MaxLast} \subseteq Nat \ {0}
  /\ MaxLast < MaxNumber
  /\ {MaxFaults, MaxMeetings} \subseteq Nat
  /\ None \notin Docs /\ "admin" \notin Docs

VARIABLES
  last,   \* market.last_round on the chain
  active, \* market.is_active on the chain
  limbo,  \* numbers of open transactions whose sender gave up
  doc,    \* doc[d]: the Round document
  job,    \* job[d]: the job lock-<d>
  lock,   \* SchedulerLock of autoOpenRounds
  auto,   \* auto[a]: an execution of autoOpenRounds
  release, \* the execution of releaseQueuedRounds
  opener, \* opener[o]: releaseQueuedRound and openRound, for a document or the admin
  recover, \* the execution of recoverStalledRounds
  shown,  \* history: the highest number open for bets while no openings could meet
  faults  \* faults and meetings spent.  A bound fixed at the start, the
          \* scenario: documents grow stale and calls fail, or a lock is
          \* released by force, or the admin opens rounds

chain == <<last, active, limbo>>
db == <<doc, job, shown>>
vars == <<chain, db, lock, auto, release, opener, recover, faults>>

-----------------------------------------------------------------------------
(* Documents *)

Ages == {"fresh", "due", "stale"}

RoundStatus == {"QUEUED", "PREDICTING", "LOCKED", "CLOSED"}
NoDoc == [status |-> "none", num |-> 0, age |-> "fresh"]

Existing == {d \in Docs : doc[d].status # "none"}
In(statuses) == {d \in Docs : doc[d].status \in statuses}

\* Numbers from MaxNumber on are not told apart, so they never collide.
Cap(n) == IF n > MaxNumber THEN MaxNumber ELSE n
Larger(m, n) == IF m > n THEN m ELSE n

\* The unique index on marketId and roundNumber: one of `among' has the number.
Taken(n, among) == n < MaxNumber /\ \E d \in among : doc[d].num = n

\* The last document of the market by round number.
IsLatest(d) == d \in Existing /\ \A e \in Existing : doc[e].num <= doc[d].num
LatestNumber == IF Existing = {} THEN 0
                ELSE CHOOSE n \in {doc[d].num : d \in Existing} :
                       \A e \in Existing : doc[e].num <= n

\* An identity is used again only when nobody remembers it.
Free(d) ==
  /\ doc[d] = NoDoc /\ job[d] = "none"
  /\ d \notin release.todo \cup release.batch \cup release.done \cup recover.ids
  /\ opener[d].pc = "idle"
  /\ \A a \in Runs : auto[a].round # d

Fault ==
  /\ faults.scenario = "stale" /\ faults.spent < MaxFaults
  /\ faults' = [faults EXCEPT !.spent = @ + 1]

Meet(scenario) ==
  /\ faults.scenario = scenario /\ faults.meetings < MaxMeetings
  /\ faults' = [faults EXCEPT !.meetings = @ + 1]

Met == faults.meetings > 0

-----------------------------------------------------------------------------
(* autoOpenRounds *)

IdleAuto == [pc |-> "idle", round |-> None, num |-> 0]
AutoAt(a, pc) == auto[a].pc = pc
AutoGoto(a, pc) == auto' = [auto EXCEPT ![a].pc = pc]

FreeLock == [running |-> FALSE, overdue |-> FALSE]

\* acquire, which releases by force a lock held for more than TIMEOUT_MS, and
\* the first query.  Executions that find a round open or queued end at once.
AutoStart(a) ==
  /\ AutoAt(a, "idle") /\ a = CHOOSE b \in Runs : AutoAt(b, "idle")
  /\ ~lock.running \/ lock.overdue
  /\ \/ /\ \A d \in In({"PREDICTING", "QUEUED"}) : ~IsLatest(d)
        /\ AutoGoto(a, "conflict")
     \/ \E d \in In({"LOCKED"}) :
          /\ IsLatest(d)
          /\ auto' = [auto EXCEPT ![a].pc = "expire", ![a].round = d]
  /\ lock' = [running |-> TRUE, overdue |-> FALSE]
  /\ UNCHANGED <<chain, db, release, opener, recover, faults>>

Overdue ==
  /\ lock.running /\ ~lock.overdue
  /\ lock' = [lock EXCEPT !.overdue = TRUE]
  /\ Meet("overdue")
  /\ UNCHANGED <<chain, db, auto, release, opener, recover>>

\* The finally block: release, whoever holds the lock by now.
AutoEnd(a) ==
  /\ auto' = [auto EXCEPT ![a] = IdleAuto]
  /\ lock' = FreeLock

\* A locked round without bets is expired before the next one is queued.
AutoExpire(a) ==
  /\ AutoAt(a, "expire")
  /\ IF auto[a].round \in Existing
       THEN doc' = [doc EXCEPT ![auto[a].round].status = "CLOSED"]
       ELSE UNCHANGED doc
  /\ auto' = [auto EXCEPT ![a] = [IdleAuto EXCEPT !.pc = "conflict"]]
  /\ UNCHANGED <<chain, job, shown, lock, release, opener, recover, faults>>

\* queueRound
AutoConflict(a) ==
  /\ AutoAt(a, "conflict")
  /\ IF In({"PREDICTING", "QUEUED"}) # {}
       THEN AutoEnd(a)
       ELSE AutoGoto(a, "number") /\ UNCHANGED lock
  /\ UNCHANGED <<chain, db, release, opener, recover, faults>>

AutoNumber(a) ==
  /\ AutoAt(a, "number")
  /\ auto' = [auto EXCEPT ![a].pc = "create", ![a].num = Cap(LatestNumber + 1)]
  /\ UNCHANGED <<chain, db, lock, release, opener, recover, faults>>

AutoCreate(a) ==
  /\ AutoAt(a, "create")
  /\ IF Taken(auto[a].num, Existing)
       THEN UNCHANGED doc
       ELSE \E d \in Docs :
              /\ Free(d)
              /\ doc' = [doc EXCEPT ![d] = [status |-> "QUEUED", num |-> auto[a].num,
                                            age |-> "fresh"]]
  /\ AutoEnd(a)
  /\ UNCHANGED <<chain, job, shown, release, opener, recover, faults>>

\* A call that fails before has the same effect as one that fails here.
AutoFails(a) ==
  /\ AutoAt(a, "create")
  /\ Fault
  /\ AutoEnd(a)
  /\ UNCHANGED <<chain, db, release, opener, recover>>

-----------------------------------------------------------------------------
(* releaseQueuedRounds *)

IdleOpener == [pc |-> "idle", own |-> 0, num |-> 0, last |-> 0, tries |-> 0]
IdleRelease == [pc |-> "idle", todo |-> {}, batch |-> {}, done |-> {}]

\* The documents with one releaseGroupId are released concurrently; which of
\* those read were queued for the same time is left open.
NextGroup(todo) ==
  IF todo = {}
    THEN release' = IdleRelease /\ UNCHANGED opener
    ELSE \E group \in SUBSET todo \ {{}} :
           /\ release' = [pc |-> "open", todo |-> todo \ group, batch |-> group, done |-> {}]
           /\ opener' = [o \in DOMAIN opener |->
                           IF o \in group THEN [IdleOpener EXCEPT !.pc = "read"]
                                          ELSE opener[o]]

\* `releasing' keeps a second execution out.
ReleaseStart ==
  /\ release.pc = "idle"
  /\ \E d \in In({"QUEUED"}) : doc[d].age # "fresh"
  /\ NextGroup({d \in In({"QUEUED"}) : doc[d].age # "fresh"})
  /\ UNCHANGED <<chain, db, lock, auto, recover, faults>>

\* The timestamps of those that succeeded become the time they were due, which
\* may make an open round stale at once.
ReleaseSync ==
  /\ release.pc = "open"
  /\ \A d \in release.batch : opener[d].pc \in {"ok", "failed"}
  /\ LET released == {d \in release.batch : opener[d].pc = "ok"}
     IN  /\ release' = [release EXCEPT !.pc = "jobs", !.batch = {}, !.done = released]
         /\ \E age \in IF faults.scenario = "stale" THEN {"fresh", "stale"} ELSE {"fresh"} :
              doc' = [d \in Docs |->
                       IF d \in released \cap In({"PREDICTING"}) /\ doc[d].age = "fresh"
                       THEN [doc[d] EXCEPT !.age = age] ELSE doc[d]]
  /\ opener' = [o \in DOMAIN opener |-> IF o \in release.batch THEN IdleOpener ELSE opener[o]]
  /\ UNCHANGED <<chain, job, shown, lock, auto, recover, faults>>

\* The job is not added when the queue knows its id, ended or not.
ReleaseJob(d) ==
  /\ release.pc = "jobs" /\ d \in release.done
  /\ job' = [job EXCEPT ![d] = IF @ = "none" THEN "waiting" ELSE @]
  /\ release' = [release EXCEPT !.done = @ \ {d}]
  /\ UNCHANGED <<chain, doc, shown, lock, auto, opener, recover, faults>>

ReleaseNext ==
  /\ release.pc = "jobs" /\ release.done = {}
  /\ NextGroup(release.todo)
  /\ UNCHANGED <<chain, db, lock, auto, recover, faults>>

ReleaseFails ==
  /\ release.pc = "jobs"
  /\ Fault
  /\ release' = IdleRelease
  /\ UNCHANGED <<chain, db, lock, auto, opener, recover>>

-----------------------------------------------------------------------------
(* releaseQueuedRound and openRound *)

OpenerAt(o, pc) == opener[o].pc = pc
OpenerGoto(o, pc) == opener' = [opener EXCEPT ![o].pc = pc]
OpenerEnd(o, result) == opener' = [opener EXCEPT ![o] = [IdleOpener EXCEPT !.pc = result]]

\* releaseQueuedRound: a round that is no longer queued, or whose market has a
\* round open, is left alone, which counts as released.
OpenerRead(d) ==
  /\ OpenerAt(d, "read")
  /\ \/ d \notin Existing /\ OpenerEnd(d, "failed")
     \/ d \in Existing \ In({"QUEUED"}) /\ OpenerEnd(d, "ok")
     \/ /\ d \in In({"QUEUED"})
        /\ opener' = [opener EXCEPT ![d].pc = "active", ![d].own = doc[d].num]
  /\ UNCHANGED <<chain, db, lock, auto, release, recover, faults>>

\* A mutant of OpenerActive: a round is opened beside another.
OpenerActiveUnchecked(d) ==
  /\ OpenerAt(d, "active")
  /\ OpenerGoto(d, "state")
  /\ UNCHANGED <<chain, db, lock, auto, release, recover, faults>>

OpenerActive(d) ==
  /\ OpenerAt(d, "active")
  /\ IF In({"PREDICTING"}) # {} THEN OpenerEnd(d, "ok") ELSE OpenerGoto(d, "state")
  /\ UNCHANGED <<chain, db, lock, auto, release, recover, faults>>

\* The open endpoint refuses a market that has a round open.
AdminOpens ==
  /\ OpenerAt("admin", "idle")
  /\ In({"PREDICTING"}) = {}
  /\ Meet("admin")
  /\ OpenerGoto("admin", "state")
  /\ UNCHANGED <<chain, db, lock, auto, release, recover>>

OpenerState(o) ==
  /\ OpenerAt(o, "state")
  /\ IF active THEN opener' = [opener EXCEPT ![o].pc = "number", ![o].last = last]
               ELSE OpenerEnd(o, "failed")
  /\ UNCHANGED <<chain, db, lock, auto, release, recover, faults>>

\* A mutant of Synced: openRound tries for ever.
SyncedForEver(o, n) ==
  LET writes == o \in Existing /\ opener[o].own # n
      refused == writes /\ Taken(n, Existing \ {o})
  IN  /\ doc' = IF writes /\ ~refused THEN [doc EXCEPT ![o].num = n] ELSE doc
      /\ IF refused
           THEN OpenerEnd(o, "failed")
           ELSE opener' = [opener EXCEPT ![o].num = n, ![o].last = 0, ![o].pc = "send"]

\* syncQueuedRoundNumber, which compares with the number it read at first;
\* it throws when the index refuses the number.
Synced(o, n) ==
  LET writes == o \in Existing /\ opener[o].own # n
      refused == writes /\ Taken(n, Existing \ {o})
  IN  /\ doc' = IF writes /\ ~refused THEN [doc EXCEPT ![o].num = n] ELSE doc
      /\ IF refused \/ opener[o].tries = MaxAttempts
           THEN OpenerEnd(o, "failed")
           ELSE opener' = [opener EXCEPT ![o].num = n, ![o].last = 0, ![o].pc = "send"]

OpenerNumber(o) ==
  /\ OpenerAt(o, "number")
  /\ LET desired == IF o = "admin" THEN LatestNumber + 1 ELSE opener[o].own
     IN  Synced(o, Cap(Larger(desired, opener[o].last + 1)))
  /\ UNCHANGED <<chain, job, shown, lock, auto, release, recover, faults>>

\* The address of the round account fixes its number (ConstraintSeeds).
Opens(n) == n = last + 1 /\ active /\ last < MaxLast

\* A mutant of OpenerSend: no answer is taken for success.
OpenerSendUnconfirmed(o) ==
  /\ OpenerAt(o, "send")
  /\ \/ /\ Opens(opener[o].num)
        /\ last' = last + 1
        /\ OpenerGoto(o, "record")
        /\ UNCHANGED <<limbo, faults>>
     \/ /\ Fault
        /\ limbo' = limbo \cup {opener[o].num}
        /\ OpenerGoto(o, "record")
        /\ UNCHANGED last
  /\ UNCHANGED <<active, db, lock, auto, release, recover>>

OpenerSend(o) ==
  /\ OpenerAt(o, "send")
  /\ \/ /\ Opens(opener[o].num)
        /\ last' = last + 1
        /\ OpenerGoto(o, "record")
        /\ UNCHANGED <<limbo, faults>>
     \/ /\ opener[o].num # last + 1
        /\ opener' = [opener EXCEPT ![o].pc = "refresh", ![o].tries = @ + 1]
        /\ UNCHANGED <<last, limbo, faults>>
     \/ /\ opener[o].num = last + 1 /\ ~active
        /\ OpenerEnd(o, "failed")
        /\ UNCHANGED <<last, limbo, faults>>
     \/ /\ Fault
        /\ limbo' = limbo \cup {opener[o].num}
        /\ OpenerEnd(o, "failed")
        /\ UNCHANGED last
  /\ UNCHANGED <<active, db, lock, auto, release, recover>>

OpenerRefresh(o) ==
  /\ OpenerAt(o, "refresh")
  /\ Synced(o, Cap(Larger(opener[o].num + 1, last + 1)))
  /\ UNCHANGED <<chain, job, shown, lock, auto, release, recover, faults>>

Opened(record, n) == [record EXCEPT !.status = "PREDICTING", !.num = n, !.age = "fresh"]

Show(n) == shown' = IF Met THEN shown ELSE Larger(shown, n)

\* The document of a queued round; nothing when it has been deleted meanwhile.
OpenerRecord(d) ==
  /\ OpenerAt(d, "record")
  /\ LET n == opener[d].num IN
     IF d \in Existing /\ ~Taken(n, Existing \ {d})
       THEN /\ doc' = [doc EXCEPT ![d] = Opened(@, n)]
            /\ Show(n)
       ELSE UNCHANGED <<doc, shown>>
  /\ OpenerEnd(d, IF d \in Existing /\ Taken(opener[d].num, Existing \ {d})
                  THEN "failed" ELSE "ok")
  /\ UNCHANGED <<chain, job, lock, auto, release, recover, faults>>

\* The endpoint: an upsert by market and number.
AdminRecord ==
  /\ OpenerAt("admin", "record")
  /\ LET n == opener["admin"].num
         found == {d \in Existing : doc[d].num = n}
     IN  /\ \E d \in IF found # {} THEN found ELSE {e \in Docs : Free(e)} :
              /\ doc' = [doc EXCEPT ![d] = Opened(@, n)]
         /\ Show(n)
  /\ opener' = [opener EXCEPT !["admin"] = IdleOpener]
  /\ UNCHANGED <<chain, job, lock, auto, release, recover, faults>>

AdminDone ==
  /\ OpenerAt("admin", "failed")
  /\ opener' = [opener EXCEPT !["admin"] = IdleOpener]
  /\ UNCHANGED <<chain, db, lock, auto, release, recover, faults>>

\* Before the round is sent a failure anywhere leaves what one here leaves;
\* after it the round is open on the chain, and in no document.
OpenerFails(o) ==
  /\ opener[o].pc \in {"state", "record"}
  /\ Fault
  /\ OpenerEnd(o, "failed")
  /\ UNCHANGED <<chain, db, lock, auto, release, recover>>

-----------------------------------------------------------------------------
(* recoverStalledRounds *)

IdleRecover == [pc |-> "idle", ids |-> {}]

\* requeueLockJob: a job that has ended is removed and added again.
RecoverPredicting(d) ==
  /\ doc[d].status = "PREDICTING" /\ doc[d].age = "stale"
  /\ job[d] # "waiting"
  /\ job' = [job EXCEPT ![d] = "waiting"]
  /\ UNCHANGED <<chain, doc, shown, lock, auto, release, opener, recover, faults>>

\* Queued rounds have no bets: a bet needs a round that is open.
RecoverFind ==
  /\ recover.pc = "idle"
  /\ LET staleQueued == {d \in In({"QUEUED"}) : doc[d].age = "stale"}
     IN  /\ staleQueued # {}
         /\ recover' = [pc |-> "fail", ids |-> staleQueued]
  /\ UNCHANGED <<chain, db, lock, auto, release, opener, faults>>

\* updateMany by identity, whatever the documents have become.
RecoverFail ==
  /\ recover.pc = "fail"
  /\ doc' = [d \in Docs |-> IF d \in recover.ids \cap Existing
                            THEN [doc[d] EXCEPT !.status = "CLOSED"] ELSE doc[d]]
  /\ recover' = IdleRecover
  /\ UNCHANGED <<chain, job, shown, lock, auto, release, opener, faults>>

-----------------------------------------------------------------------------
(* The lifecycle of an open round, as far as the schedulers see it *)

\* The lock job: lockRound throws ConflictError, which is not retried, unless
\* the round is PREDICTING or was locked before.
LockJobRuns(d) ==
  /\ job[d] = "waiting"
  /\ job' = [job EXCEPT ![d] = IF d \in Existing THEN "ended" ELSE "none"]
  /\ doc' = IF doc[d].status = "PREDICTING"
              THEN [doc EXCEPT ![d].status = "LOCKED"] ELSE doc
  /\ UNCHANGED <<chain, shown, lock, auto, release, opener, recover, faults>>

\* All attempts of the lock job fail before the round is locked.
LockJobFails(d) ==
  /\ job[d] = "waiting" /\ doc[d].status = "PREDICTING"
  /\ Fault
  /\ job' = [job EXCEPT ![d] = "ended"]
  /\ UNCHANGED <<chain, doc, shown, lock, auto, release, opener, recover>>

Proceed(d) ==
  /\ doc[d].status = "LOCKED"
  /\ doc' = [doc EXCEPT ![d].status = "CLOSED"]
  /\ UNCHANGED <<chain, job, shown, lock, auto, release, opener, recover, faults>>

-----------------------------------------------------------------------------
(* Time, deletions, the chain, crashes *)

Age(d) ==
  /\ \/ /\ doc[d].status = "QUEUED" /\ doc[d].age = "fresh"
        /\ doc' = [doc EXCEPT ![d].age = "due"]
     \/ /\ d \in Existing /\ faults.scenario = "stale"
        /\ doc[d].age = IF doc[d].status = "QUEUED" THEN "due" ELSE "fresh"
        /\ doc' = [doc EXCEPT ![d].age = "stale"]
  /\ UNCHANGED <<chain, job, shown, lock, auto, release, opener, recover, faults>>

\* The TTL indexes delete a document a day after it was queued or opened,
\* whatever its status; cleanupOldRounds deletes those that are over.
Delete(d) ==
  /\ doc[d].age = "stale"
  /\ doc' = [doc EXCEPT ![d] = NoDoc]
  /\ job' = [job EXCEPT ![d] = IF @ = "ended" THEN "none" ELSE @]
  /\ UNCHANGED <<chain, shown, lock, auto, release, opener, recover, faults>>

Land(n) ==
  /\ n \in limbo
  /\ last' = IF Opens(n) THEN last + 1 ELSE last
  /\ limbo' = limbo \ {n}
  /\ UNCHANGED <<active, db, lock, auto, release, opener, recover, faults>>

Pause ==
  /\ active
  /\ Fault
  /\ active' = FALSE
  /\ UNCHANGED <<last, limbo, db, lock, auto, release, opener, recover>>

Resume ==
  /\ ~active
  /\ active' = TRUE
  /\ UNCHANGED <<last, limbo, db, lock, auto, release, opener, recover, faults>>

\* A crash loses the executions and the locks in memory; a transaction that
\* was being sent may have gone out.
Crash ==
  /\ Fault
  /\ limbo' \in {limbo, limbo \cup {opener[o].num : o \in {p \in DOMAIN opener : OpenerAt(p, "send")}}}
  /\ lock' = FreeLock
  /\ auto' = [a \in Runs |-> IdleAuto]
  /\ release' = IdleRelease
  /\ opener' = [o \in DOMAIN opener |-> IdleOpener]
  /\ recover' = IdleRecover
  /\ UNCHANGED <<last, active, db>>

-----------------------------------------------------------------------------

Init ==
  /\ last = 0 /\ active = TRUE /\ limbo = {}
  /\ doc = [d \in Docs |-> NoDoc]
  /\ job = [d \in Docs |-> "none"]
  /\ lock = FreeLock
  /\ auto = [a \in Runs |-> IdleAuto]
  /\ release = IdleRelease
  /\ opener = [o \in Docs \cup {"admin"} |-> IdleOpener]
  /\ recover = IdleRecover
  /\ shown = 0
  /\ faults \in [spent : {0}, meetings : {0}, scenario : {"stale", "overdue", "admin"}]

AutoStep(a) ==
  \/ AutoExpire(a) \/ AutoConflict(a)
  \/ AutoNumber(a) \/ AutoCreate(a)

ReleaseStep ==
  \/ ReleaseStart \/ ReleaseSync \/ ReleaseNext
  \/ \E d \in Docs : ReleaseJob(d)

OpenerStep(o) ==
  \/ o \in Docs /\ (OpenerRead(o) \/ OpenerActive(o) \/ OpenerRecord(o))
  \/ OpenerState(o) \/ OpenerNumber(o) \/ OpenerSend(o) \/ OpenerRefresh(o)

Next ==
  \/ \E a \in Runs : AutoStart(a) \/ AutoStep(a) \/ AutoFails(a)
  \/ Overdue
  \/ ReleaseStep \/ ReleaseFails
  \/ \E o \in Docs \cup {"admin"} : OpenerStep(o) \/ OpenerFails(o)
  \/ AdminOpens \/ AdminRecord \/ AdminDone
  \/ RecoverFind \/ RecoverFail
  \/ \E d \in Docs : \/ RecoverPredicting(d) \/ LockJobRuns(d) \/ LockJobFails(d)
                      \/ Proceed(d) \/ Age(d) \/ Delete(d)
  \/ \E n \in limbo : Land(n)
  \/ Pause \/ Resume \/ Crash

Spec == Init /\ [][Next]_vars

-----------------------------------------------------------------------------
(* Properties *)

\* The type invariant.
TypeOK ==
  /\ last \in 0..MaxLast /\ active \in BOOLEAN /\ limbo \subseteq 0..MaxNumber
  /\ doc \in [Docs -> [status : RoundStatus \cup {"none"}, num : 0..MaxNumber,
                      age : Ages]]
  /\ job \in [Docs -> {"none", "waiting", "ended"}]
  /\ lock \in [running : BOOLEAN, overdue : BOOLEAN]
  /\ auto \in [Runs -> [pc : {"idle", "expire", "conflict", "number", "create"},
                       round : Docs \cup {None}, num : 0..MaxNumber]]
  /\ release \in [pc : {"idle", "open", "jobs"}, todo : SUBSET Docs,
                  batch : SUBSET Docs, done : SUBSET Docs]
  /\ opener \in [Docs \cup {"admin"} ->
       [pc : {"idle", "read", "active", "state", "number", "send", "refresh",
              "record", "ok", "failed"},
        own : 0..MaxNumber, num : 0..MaxNumber, last : 0..MaxLast, tries : 0..MaxAttempts]]
  /\ recover \in [pc : {"idle", "fail"}, ids : SUBSET Docs]
  /\ shown \in 0..MaxNumber
  /\ faults \in [spent : 0..MaxFaults, meetings : 0..MaxMeetings,
                scenario : {"stale", "overdue", "admin"}]

\* queueRound, releaseQueuedRound and openRound keep to one open round, and to
\* new numbers, although each looks before it acts: the rounds that users see
\* open are a series, as long as only the schedulers open rounds and no lock is
\* released by force.
Current == IF In({"PREDICTING"}) = {} \/ Met THEN 0
           ELSE IF Cardinality(In({"PREDICTING"})) > 1 THEN -1
           ELSE doc[CHOOSE d \in In({"PREDICTING"}) : TRUE].num
Series == INSTANCE RoundSeries WITH Numbers <- 1..MaxLast, current <- Current,
                                    highest <- shown
ImplementsRoundSeries == Series!Spec

\* A round that is shown open is open on the chain under its number: no round
\* takes the place, or the number, of another, whatever attempts it took.
OpenIsOpened ==
  \/ faults.scenario = "admin"
  \/ \A d \in In({"PREDICTING"}) : doc[d].num <= last /\ doc[d].num # 0

=============================================================================
