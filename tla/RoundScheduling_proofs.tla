---------------------- MODULE RoundScheduling_proofs ----------------------
(***************************************************************************)
(* For any documents, executions, attempts and faults: what the schedulers *)
(* show open is open on the chain, and the rounds users see are a series.  *)
(***************************************************************************)
EXTENDS RoundScheduling, FiniteSetTheorems, WellFoundedInduction, TLAPS

-----------------------------------------------------------------------------
(* Numbers *)

Num == 0..MaxNumber

LEMMA BoundsOK ==
  /\ MaxNumber \in Nat /\ MaxNumber > 0 /\ MaxAttempts \in Nat /\ MaxAttempts > 0
  /\ MaxLast \in Nat /\ MaxLast > 0 /\ MaxLast < MaxNumber
  /\ MaxFaults \in Nat /\ MaxMeetings \in Nat
  BY SchedulingAssumption

\* A set of numbers has a greatest one.
LEMMA GreatestExists ==
  ASSUME NEW S \in SUBSET Num, S # {}
  PROVE  \E n \in S : \A m \in S : m <= n
<1>. DEFINE Above(n) == n..MaxNumber
            T == {Above(n) : n \in S}
            F == SUBSET Num
<1>1. T \subseteq F /\ T # {}
  <2>1. \A n \in Num : Above(n) \subseteq Num
    BY BoundsOK DEF Num
  <2>. QED BY <2>1
<1>2. IsWellFoundedOn(StrictSubsetOrdering(Num), F)
  <2>1. IsFiniteSet(Num)
    BY BoundsOK, FS_Interval DEF Num
  <2>. QED BY <2>1, FS_FiniteSubsetsOfFinite, FS_StrictSubsetOrderingWellFounded
<1>3. PICK t \in T : \A x \in T : ~ (<<x, t>> \in StrictSubsetOrdering(Num))
  <2>. HIDE DEF T, F
  <2>. QED BY <1>1, <1>2, WFMin
<1>4. PICK n \in S : t = Above(n)
  OBVIOUS
<1>5. ASSUME NEW m \in S, n < m
      PROVE  FALSE
  <2>1. Above(m) \in T /\ Above(m) \subseteq t /\ n \in t /\ n \notin Above(m)
    BY <1>4, <1>5, BoundsOK DEF Num
  <2>2. <<Above(m), t>> \in StrictSubsetOrdering(Num)
    BY <1>1, <2>1 DEF StrictSubsetOrdering
  <2>. QED BY <1>3, <2>1, <2>2
<1>. QED BY <1>5 DEF Num

-----------------------------------------------------------------------------
(* The invariant *)

Openers == Docs \cup {"admin"}
Same(S) == \A x, y \in S : x = y

OpenerPc == {"idle", "read", "active", "state", "number", "send", "refresh", "record",
             "ok", "failed"}
Opener == [pc : OpenerPc, own : Num, num : Num, last : 0..MaxLast, tries : 0..MaxAttempts]

\* An opening that found no round open and has not ended.
IsOpening(pc) == pc \in {"state", "number", "send", "refresh", "record"}

\* An attempt is counted when the chain refuses it, and the last one ends.
TriesOK ==
  \A o \in Openers :
    /\ opener[o].pc \in {"idle", "read", "active", "state", "number", "ok", "failed"} =>
         opener[o].tries = 0
    /\ opener[o].pc = "send" => opener[o].tries < MaxAttempts

Document == [status : RoundStatus \cup {"none"}, num : Num, age : Ages]

ChainOK == last \in 0..MaxLast /\ active \in BOOLEAN /\ limbo \subseteq Num
DocsOK == doc \in [Docs -> Document] /\ job \in [Docs -> {"none", "waiting", "ended"}]
AutosOK ==
  /\ lock \in [running : BOOLEAN, overdue : BOOLEAN]
  /\ auto \in [Runs -> [pc : {"idle", "expire", "conflict", "number", "create"},
                       round : Docs \cup {None}, num : Num]]
ReleaseOK == release \in [pc : {"idle", "open", "jobs"}, todo : SUBSET Docs,
                          batch : SUBSET Docs, done : SUBSET Docs]
OpenersOK == opener \in [Openers -> Opener] /\ TriesOK
RestOK == /\ recover \in [pc : {"idle", "fail"}, ids : SUBSET Docs]
          /\ shown \in Num
          /\ faults \in [spent : 0..MaxFaults, meetings : 0..MaxMeetings,
                        scenario : {"stale", "overdue", "admin"}]

Typed == ChainOK /\ DocsOK /\ AutosOK /\ ReleaseOK /\ OpenersOK /\ RestOK

\* The documents of one group have their openings, and nobody else.
BatchesOK ==
  /\ release.pc # "open" => release.batch = {}
  /\ \A d \in Docs : opener[d].pc # "idle" => d \in release.batch

\* The admin has not opened a round.
NoAdmin == faults.scenario # "admin" \/ ~ Met

\* A document shown open has a number opened on the chain, and an opening under
\* way is not of such a document.
OpenedNumbers ==
  /\ opener["admin"].pc = "idle"
  /\ \A d \in In({"PREDICTING"}) : doc[d].num \in 1..last
  /\ \A d \in Docs : opener[d].pc = "record" => opener[d].num \in 1..last
  /\ \A d \in Docs : opener[d].pc = "active" \/ IsOpening(opener[d].pc) =>
                       doc[d].status # "PREDICTING"

OpenedOK == NoAdmin => OpenedNumbers

\* The scheduler's lock: one execution, and one round queued.
QueueOK ==
  ~ Met =>
    /\ ~ lock.overdue
    /\ \A a \in Runs : ~ AutoAt(a, "idle") => lock.running
    /\ \A a, b \in Runs : ~ AutoAt(a, "idle") /\ ~ AutoAt(b, "idle") => a = b
    /\ Same(In({"QUEUED"}))
    /\ \A a \in Runs : auto[a].pc \in {"number", "create"} => In({"QUEUED"}) = {}

\* One document at a time is released, and its opening finds no other open.
SeriesOK ==
  ~ Met =>
    /\ Same(release.todo \cup release.batch)
    /\ Same(In({"PREDICTING"}))
    /\ shown <= last
    /\ \A d \in Docs : IsOpening(opener[d].pc) => In({"PREDICTING"}) = {}
    /\ \A d \in Docs : opener[d].pc = "record" => shown < opener[d].num

ScheduleInv == Typed /\ BatchesOK /\ OpenedOK /\ QueueOK /\ SeriesOK

-----------------------------------------------------------------------------
(* Types *)

LEMMA TypedTypes == Typed => TypeOK
  BY DEF Typed, TypeOK, ChainOK, DocsOK, AutosOK, ReleaseOK, OpenersOK, RestOK, Document,
     Opener, OpenerPc, Openers, Num

LEMMA CapOK ==
  ASSUME NEW n \in Nat
  PROVE  Cap(n) \in Num
  BY BoundsOK DEF Cap, Num

LEMMA LatestOK ==
  ASSUME DocsOK
  PROVE  LatestNumber \in Num
<1>1. CASE Existing = {}
  BY <1>1, BoundsOK DEF LatestNumber, Num
<1>2. CASE Existing # {}
  <2>. DEFINE S == {doc[d].num : d \in Existing}
  <2>1. S \subseteq Num /\ S # {} /\ \A e \in Existing : doc[e].num \in S
    <3>1. \A d \in Existing : doc[d].num \in Num
      BY DEF DocsOK, Document, Existing
    <3>. HIDE DEF Existing
    <3>. QED BY <1>2, <3>1
  <2>2. \E n \in S : \A e \in Existing : doc[e].num <= n
    <3>. HIDE DEF S
    <3>. QED BY <2>1, GreatestExists
  <2>3. LatestNumber \in S
    BY <1>2, <2>2 DEF LatestNumber
  <2>. QED BY <2>1, <2>3
<1>. QED BY <1>1, <1>2

LEMMA FaultOK ==
  ASSUME RestOK, Fault \/ \E scenario : Meet(scenario)
  PROVE  /\ faults' \in [spent : 0..MaxFaults, meetings : 0..MaxMeetings,
                        scenario : {"stale", "overdue", "admin"}]
         /\ faults'.scenario = faults.scenario
  BY BoundsOK DEF RestOK, Fault, Meet

TriesFit(e) ==
  /\ e.pc \in {"idle", "read", "active", "state", "number", "ok", "failed"} => e.tries = 0
  /\ e.pc = "send" => e.tries < MaxAttempts

\* One opening changes.
LEMMA OpenerChanges ==
  ASSUME OpenersOK, NEW o \in Openers, NEW e \in Opener, TriesFit(e),
         opener' = [opener EXCEPT ![o] = e]
  PROVE  OpenersOK'
  BY DEF OpenersOK, TriesOK, TriesFit

LEMMA IdleOpenerOK ==
  ASSUME NEW pc \in OpenerPc
  PROVE  LET e == [IdleOpener EXCEPT !.pc = pc]
         IN  e \in Opener /\ e.pc = pc /\ e.tries = 0 /\ TriesFit(e)
  BY BoundsOK DEF IdleOpener, Opener, OpenerPc, Num, TriesFit

LEMMA OpenerEndOK ==
  ASSUME OpenersOK, NEW o \in Openers, NEW pc \in {"ok", "failed"}, OpenerEnd(o, pc)
  PROVE  OpenersOK' /\ opener'[o].pc = pc
<1>. DEFINE e == [IdleOpener EXCEPT !.pc = pc]
<1>1. e \in Opener /\ TriesFit(e) /\ e.pc = pc
  BY IdleOpenerOK DEF OpenerPc
<1>2. opener' = [opener EXCEPT ![o] = e]
  BY DEF OpenerEnd
<1>. HIDE DEF e
<1>3. opener'[o] = e
  BY <1>2 DEF OpenersOK
<1>. QED BY <1>1, <1>2, <1>3, OpenerChanges

LEMMA OpenerGotoOK ==
  ASSUME OpenersOK, NEW o \in Openers, NEW pc \in OpenerPc, OpenerGoto(o, pc),
         TriesFit([opener[o] EXCEPT !.pc = pc])
  PROVE  OpenersOK' /\ opener'[o].pc = pc /\ opener'[o].num = opener[o].num
<1>. DEFINE e == [opener[o] EXCEPT !.pc = pc]
<1>1. e \in Opener /\ e.pc = pc /\ e.num = opener[o].num
  BY DEF Opener, OpenersOK
<1>2. opener' = [opener EXCEPT ![o] = e]
  BY DEF OpenerGoto
<1>. HIDE DEF e
<1>3. opener'[o] = e
  BY <1>2 DEF OpenersOK
<1>. QED BY <1>1, <1>2, <1>3, OpenerChanges DEF e

\* syncQueuedRoundNumber: the document takes the number, and the opening sends it
\* or ends.
LEMMA SyncedOK ==
  ASSUME DocsOK, OpenersOK, NEW o \in Openers, NEW n \in Num, Synced(o, n),
         opener[o].tries # MaxAttempts => opener[o].tries < MaxAttempts
  PROVE  /\ doc' \in [Docs -> Document] /\ OpenersOK'
         /\ opener'[o].pc \in {"send", "failed"}
         /\ \A d \in Docs : doc'[d].status = doc[d].status /\ (d # o => doc'[d] = doc[d])
<1>1. /\ doc' \in [Docs -> Document]
      /\ \A d \in Docs : doc'[d].status = doc[d].status /\ (d # o => doc'[d] = doc[d])
  BY DEF Synced, DocsOK, Document, Existing
<1>2. CASE OpenerEnd(o, "failed")
  BY <1>1, <1>2, OpenerEndOK
<1>3. CASE /\ opener[o].tries # MaxAttempts
           /\ opener' = [opener EXCEPT ![o].num = n, ![o].last = 0, ![o].pc = "send"]
  <2>. DEFINE e == [opener[o] EXCEPT !.num = n, !.last = 0, !.pc = "send"]
  <2>1. opener' = [opener EXCEPT ![o] = e]
    BY <1>3
  <2>2. e \in Opener /\ e.pc = "send" /\ e.tries = opener[o].tries
    <3>1. opener[o] \in Opener /\ 0 \in 0..MaxLast /\ "send" \in OpenerPc
      BY BoundsOK DEF OpenersOK, OpenerPc
    <3>. QED BY <3>1 DEF Opener
  <2>. HIDE DEF e
  <2>3. TriesFit(e)
    BY <1>3, <2>2 DEF TriesFit
  <2>4. opener'[o] = e
    BY <2>1 DEF OpenersOK
  <2>. QED BY <1>1, <2>1, <2>2, <2>3, <2>4, OpenerChanges
<1>. QED BY <1>2, <1>3 DEF Synced

-----------------------------------------------------------------------------
(* The steps of an opening *)

\* An opening goes one step further, or ends; no document changes its status.
Advances(o) ==
  /\ opener[o].pc # "idle"
  /\ \A p \in Openers : p # o => opener'[p] = opener[p]
  /\ UNCHANGED <<release, auto, lock, shown>>
  /\ faults'.meetings = faults.meetings /\ faults'.scenario = faults.scenario
  /\ \A d \in Docs : doc'[d].status = doc[d].status /\ (d # o => doc'[d] = doc[d])
  /\ o \in Docs /\ doc'[o] # doc[o] => IsOpening(opener[o].pc)
  /\ last' \in {last, last + 1}
  /\ \/ opener'[o].pc \in {"ok", "failed"}
     \/ opener'[o].pc = "active" /\ opener[o].pc = "read" /\ doc[o].status = "QUEUED"
     \/ opener'[o].pc = "state" /\ opener[o].pc = "active" /\ In({"PREDICTING"}) = {}
     \/ opener'[o].pc \in {"number", "send", "refresh"} /\ IsOpening(opener[o].pc)
     \/ /\ opener'[o].pc = "record" /\ opener[o].pc = "send"
        /\ opener'[o].num = last' /\ last' = last + 1

LEMMA ReadAdvances ==
  ASSUME Typed, NEW d \in Docs, OpenerRead(d)
  PROVE  Typed' /\ Advances(d)
<1>. USE DEF Typed
<1>. DEFINE e == [opener[d] EXCEPT !.pc = "active", !.own = doc[d].num]
<1>0. /\ d \in Openers /\ UNCHANGED <<chain, db, lock, auto, release, recover, faults>>
      /\ opener[d].pc = "read" /\ opener[d] \in Opener /\ doc[d] \in Document
  BY DEF OpenerRead, OpenerAt, Openers, OpenersOK, DocsOK
<1>1. CASE OpenerEnd(d, "failed") \/ OpenerEnd(d, "ok")
  <2>1. OpenersOK' /\ opener'[d].pc \in {"ok", "failed"}
    BY <1>0, <1>1, OpenerEndOK
  <2>2. \A p \in Openers : p # d => opener'[p] = opener[p]
    BY <1>1 DEF OpenerEnd, OpenersOK
  <2>. QED BY <1>0, <2>1, <2>2 DEF Advances, ChainOK, DocsOK, AutosOK, ReleaseOK, RestOK, chain, db
<1>2. CASE d \in In({"QUEUED"}) /\ opener' = [opener EXCEPT ![d].pc = "active", ![d].own = doc[d].num]
  <2>1. opener' = [opener EXCEPT ![d] = e]
    BY <1>2
  <2>2. e \in Opener /\ e.pc = "active" /\ TriesFit(e)
    BY <1>0 DEF Opener, OpenerPc, Document, TriesFit, OpenersOK, TriesOK
  <2>. HIDE DEF e
  <2>3. OpenersOK' /\ opener'[d] = e /\ \A p \in Openers : p # d => opener'[p] = opener[p]
    BY <1>0, <2>1, <2>2, OpenerChanges DEF OpenersOK
  <2>. QED BY <1>0, <1>2, <2>2, <2>3
           DEF Advances, ChainOK, DocsOK, AutosOK, ReleaseOK, RestOK, chain, db, In
<1>. QED BY <1>1, <1>2 DEF OpenerRead

LEMMA ActiveAdvances ==
  ASSUME Typed, NEW d \in Docs, OpenerActive(d)
  PROVE  Typed' /\ Advances(d)
<1>. USE DEF Typed
<1>0. /\ d \in Openers /\ UNCHANGED <<chain, db, lock, auto, release, recover, faults>>
      /\ opener[d].pc = "active"
      /\ OpenerEnd(d, "ok") \/ (OpenerGoto(d, "state") /\ In({"PREDICTING"}) = {})
  BY DEF OpenerActive, OpenerAt, Openers
<1>1. \A p \in Openers : p # d => opener'[p] = opener[p]
  BY <1>0 DEF OpenerEnd, OpenerGoto, OpenersOK
<1>2. OpenersOK' /\ (opener'[d].pc = "ok" \/ (opener'[d].pc = "state" /\ In({"PREDICTING"}) = {}))
  <2>1. TriesFit([opener[d] EXCEPT !.pc = "state"])
    BY <1>0 DEF TriesFit, OpenersOK, TriesOK, Opener
  <2>. QED BY <1>0, <2>1, OpenerEndOK, OpenerGotoOK DEF OpenerPc
<1>. QED BY <1>0, <1>1, <1>2
         DEF Advances, ChainOK, DocsOK, AutosOK, ReleaseOK, RestOK, chain, db

LEMMA StateAdvances ==
  ASSUME Typed, NEW o \in Openers, OpenerState(o)
  PROVE  Typed' /\ Advances(o)
<1>. USE DEF Typed
<1>. DEFINE e == [opener[o] EXCEPT !.pc = "number", !.last = last]
<1>0. /\ UNCHANGED <<chain, db, lock, auto, release, recover, faults>>
      /\ opener[o].pc = "state" /\ opener[o] \in Opener
  BY DEF OpenerState, OpenerAt, OpenersOK
<1>1. CASE OpenerEnd(o, "failed")
  <2>1. OpenersOK' /\ opener'[o].pc = "failed"
    BY <1>0, <1>1, OpenerEndOK
  <2>2. \A p \in Openers : p # o => opener'[p] = opener[p]
    BY <1>1 DEF OpenerEnd, OpenersOK
  <2>. QED BY <1>0, <2>1, <2>2 DEF Advances, ChainOK, DocsOK, AutosOK, ReleaseOK, RestOK, chain, db
<1>2. CASE opener' = [opener EXCEPT ![o].pc = "number", ![o].last = last]
  <2>1. opener' = [opener EXCEPT ![o] = e]
    BY <1>2
  <2>2. e \in Opener /\ e.pc = "number" /\ TriesFit(e)
    BY <1>0 DEF Opener, OpenerPc, ChainOK, TriesFit, OpenersOK, TriesOK
  <2>. HIDE DEF e
  <2>3. OpenersOK' /\ opener'[o] = e /\ \A p \in Openers : p # o => opener'[p] = opener[p]
    BY <2>1, <2>2, OpenerChanges DEF OpenersOK
  <2>. QED BY <1>0, <2>2, <2>3
           DEF Advances, ChainOK, DocsOK, AutosOK, ReleaseOK, RestOK, chain, db, IsOpening
<1>. QED BY <1>1, <1>2 DEF OpenerState

LEMMA LargerOK ==
  ASSUME NEW m \in Nat, NEW n \in Nat
  PROVE  Cap(Larger(m, n)) \in Num
  BY CapOK DEF Larger

LEMMA NumberAdvances ==
  ASSUME Typed, NEW o \in Openers, OpenerNumber(o) \/ OpenerRefresh(o)
  PROVE  Typed' /\ Advances(o)
<1>. USE DEF Typed
<1>0. /\ UNCHANGED <<chain, job, shown, lock, auto, release, recover, faults>>
      /\ opener[o].pc \in {"number", "refresh"} /\ opener[o] \in Opener
  BY DEF OpenerNumber, OpenerRefresh, OpenerAt, OpenersOK
<1>1. PICK n \in Num : Synced(o, n)
  <2>1. CASE OpenerNumber(o)
    <3>. DEFINE desired == IF o = "admin" THEN LatestNumber + 1 ELSE opener[o].own
    <3>1. desired \in Nat /\ opener[o].last + 1 \in Nat
      BY <1>0, LatestOK, BoundsOK DEF Opener, Num
    <3>2. Synced(o, Cap(Larger(desired, opener[o].last + 1)))
      BY <2>1 DEF OpenerNumber
    <3>. QED BY <3>1, <3>2, LargerOK
  <2>2. CASE OpenerRefresh(o)
    <3>1. opener[o].num + 1 \in Nat /\ last + 1 \in Nat
      BY <1>0, BoundsOK DEF Opener, Num, ChainOK
    <3>. QED BY <2>2, <3>1, LargerOK DEF OpenerRefresh
  <2>. QED BY <2>1, <2>2
<1>2. opener[o].tries # MaxAttempts => opener[o].tries < MaxAttempts
  BY <1>0, BoundsOK DEF Opener
<1>3. /\ doc' \in [Docs -> Document] /\ OpenersOK' /\ opener'[o].pc \in {"send", "failed"}
      /\ \A d \in Docs : doc'[d].status = doc[d].status /\ (d # o => doc'[d] = doc[d])
  BY <1>1, <1>2, SyncedOK
<1>4. \A p \in Openers : p # o => opener'[p] = opener[p]
  BY <1>1 DEF Synced, OpenerEnd, OpenersOK
<1>. QED BY <1>0, <1>3, <1>4
         DEF Advances, ChainOK, DocsOK, AutosOK, ReleaseOK, RestOK, chain, IsOpening

LEMMA SendAdvances ==
  ASSUME Typed, NEW o \in Openers, OpenerSend(o)
  PROVE  Typed' /\ Advances(o)
<1>. USE DEF Typed
<1>. DEFINE e == [opener[o] EXCEPT !.pc = "refresh", !.tries = @ + 1]
<1>0. /\ UNCHANGED <<active, db, lock, auto, release, recover>>
      /\ opener[o].pc = "send" /\ opener[o] \in Opener /\ opener[o].tries < MaxAttempts
  BY DEF OpenerSend, OpenerAt, OpenersOK, TriesOK
<1>1. CASE /\ OpenerEnd(o, "failed") /\ UNCHANGED last
           /\ \/ UNCHANGED <<limbo, faults>>
              \/ Fault /\ limbo' = limbo \cup {opener[o].num}
  <2>1. OpenersOK' /\ opener'[o].pc = "failed"
    BY <1>0, <1>1, OpenerEndOK
  <2>2. \A p \in Openers : p # o => opener'[p] = opener[p]
    BY <1>1 DEF OpenerEnd, OpenersOK
  <2>3. RestOK' /\ faults'.meetings = faults.meetings /\ faults'.scenario = faults.scenario
    BY <1>0, <1>1, FaultOK DEF RestOK, Fault, db
  <2>4. ChainOK'
    BY <1>0, <1>1 DEF ChainOK, Opener
  <2>. QED BY <1>0, <1>1, <2>1, <2>2, <2>3, <2>4 DEF Advances, DocsOK, AutosOK, ReleaseOK, db
<1>2. CASE /\ opener' = [opener EXCEPT ![o].pc = "refresh", ![o].tries = @ + 1]
           /\ UNCHANGED <<last, limbo, faults>>
  <2>1. opener' = [opener EXCEPT ![o] = e]
    BY <1>2
  <2>2. e \in Opener /\ e.pc = "refresh" /\ TriesFit(e)
    <3>1. opener[o].tries + 1 \in 0..MaxAttempts /\ "refresh" \in OpenerPc
      BY <1>0, BoundsOK DEF Opener, OpenerPc
    <3>. QED BY <1>0, <3>1 DEF Opener, TriesFit
  <2>. HIDE DEF e
  <2>3. OpenersOK' /\ opener'[o] = e /\ \A p \in Openers : p # o => opener'[p] = opener[p]
    BY <2>1, <2>2, OpenerChanges DEF OpenersOK
  <2>. QED BY <1>0, <1>2, <2>2, <2>3
           DEF Advances, ChainOK, DocsOK, AutosOK, ReleaseOK, RestOK, db, IsOpening
<1>3. CASE /\ Opens(opener[o].num) /\ last' = last + 1 /\ OpenerGoto(o, "record")
           /\ UNCHANGED <<limbo, faults>>
  <2>1. TriesFit([opener[o] EXCEPT !.pc = "record"])
    BY <1>0 DEF TriesFit, Opener
  <2>2. OpenersOK' /\ opener'[o].pc = "record" /\ opener'[o].num = opener[o].num
    BY <1>3, <2>1, OpenerGotoOK DEF OpenerPc
  <2>3. \A p \in Openers : p # o => opener'[p] = opener[p]
    BY <1>3 DEF OpenerGoto, OpenersOK
  <2>4. ChainOK' /\ opener[o].num = last + 1
    BY <1>0, <1>3, BoundsOK DEF ChainOK, Opens
  <2>. QED BY <1>0, <1>3, <2>2, <2>3, <2>4
           DEF Advances, DocsOK, AutosOK, ReleaseOK, RestOK, db, IsOpening
<1>. QED BY <1>0, <1>1, <1>2, <1>3 DEF OpenerSend

LEMMA FailsAdvances ==
  ASSUME Typed, NEW o \in Openers, OpenerFails(o)
  PROVE  Typed' /\ Advances(o)
<1>. USE DEF Typed
<1>0. /\ UNCHANGED <<chain, db, lock, auto, release, recover>> /\ opener[o].pc # "idle"
      /\ Fault /\ OpenerEnd(o, "failed")
  BY DEF OpenerFails
<1>1. OpenersOK' /\ opener'[o].pc = "failed"
  BY <1>0, OpenerEndOK
<1>2. \A p \in Openers : p # o => opener'[p] = opener[p]
  BY <1>0 DEF OpenerEnd, OpenersOK
<1>3. RestOK' /\ faults'.meetings = faults.meetings /\ faults'.scenario = faults.scenario
  BY <1>0, FaultOK DEF RestOK, Fault, db
<1>. QED BY <1>0, <1>1, <1>2, <1>3 DEF Advances, ChainOK, DocsOK, AutosOK, ReleaseOK, chain, db

LEMMA AdvancesKeeps ==
  ASSUME ScheduleInv, Typed', NEW o \in Openers, Advances(o)
  PROVE  /\ BatchesOK' /\ OpenedOK' /\ QueueOK' /\ SeriesOK'
         /\ shown' = shown /\ Met' = Met
         /\ ~ Met => \A d \in Docs : /\ doc'[d].status = doc[d].status
                                     /\ doc[d].status = "PREDICTING" => doc'[d].num = doc[d].num
<1>. USE DEF ScheduleInv, Advances
<1>0. Met' = Met /\ NoAdmin' = NoAdmin
  BY DEF Met, NoAdmin
<1>1. /\ \A statuses : In(statuses)' = In(statuses)
      /\ \A d \in Docs : NoAdmin /\ doc[d].status = "PREDICTING" => doc'[d] = doc[d]
  BY DEF In, OpenedOK, OpenedNumbers
<1>2. last \in Nat /\ last' \in Nat /\ last' >= last
  BY BoundsOK DEF Typed, ChainOK
<1>3. BatchesOK'
  BY DEF BatchesOK, Openers
<1>4. QueueOK'
  BY <1>0, <1>1 DEF QueueOK, AutoAt
<1>5. OpenedOK'
  <2>. SUFFICES ASSUME NoAdmin, OpenedNumbers PROVE OpenedNumbers'
    BY <1>0 DEF OpenedOK
  <2>1. o # "admin" /\ o \in Docs
    BY DEF OpenedNumbers, Openers
  <2>2. opener'["admin"].pc = "idle"
    BY <2>1 DEF OpenedNumbers, Openers
  <2>3. \A d \in In({"PREDICTING"})' : doc'[d].num \in 1..last'
    BY <1>1, <1>2 DEF OpenedNumbers, In
  <2>4. \A d \in Docs : opener'[d].pc = "record" => opener'[d].num \in 1..last'
    BY <1>2, <2>1 DEF OpenedNumbers, Openers
  <2>5. \A d \in Docs : opener'[d].pc = "active" \/ IsOpening(opener'[d].pc) =>
                          doc'[d].status # "PREDICTING"
    BY <1>1, <2>1 DEF OpenedNumbers, Openers, IsOpening
  <2>. QED BY <2>2, <2>3, <2>4, <2>5 DEF OpenedNumbers
<1>6. SeriesOK'
  <2>. SUFFICES ASSUME ~ Met, SeriesOK PROVE SeriesOK'
    BY <1>0 DEF SeriesOK
  <2>1. shown \in Nat /\ shown <= last /\ shown <= last'
    BY <1>2, BoundsOK DEF SeriesOK, Typed, RestOK, Num
  <2>2. /\ Same(release.todo \cup release.batch)' /\ Same(In({"PREDICTING"}))'
    BY <1>1 DEF SeriesOK, Same
  <2>3. \A d \in Docs : IsOpening(opener'[d].pc) => In({"PREDICTING"})' = {}
    BY <1>1 DEF SeriesOK, Openers, IsOpening
  <2>4. \A d \in Docs : opener'[d].pc = "record" => shown < opener'[d].num
    BY <1>2, <2>1 DEF SeriesOK, Openers
  <2>. QED BY <2>1, <2>2, <2>3, <2>4 DEF SeriesOK
<1>7. ~ Met => NoAdmin
  BY DEF NoAdmin
<1>. QED BY <1>0, <1>1, <1>3, <1>4, <1>5, <1>6, <1>7

-----------------------------------------------------------------------------
(* The other steps open nothing *)

\* No document becomes PREDICTING, or QUEUED, that was not.
DocsShrink ==
  \A d \in Docs : /\ doc'[d].status = "PREDICTING" => /\ doc[d].status = "PREDICTING"
                                                      /\ doc'[d].num = doc[d].num
QueueShrinks == \A d \in Docs : doc'[d].status = "QUEUED" => doc[d].status = "QUEUED"

\* Openings start, end or stay as they are.
Settles ==
  \A o \in Openers : \/ opener'[o] = opener[o]
                     \/ opener'[o].pc = "idle"
                     \/ o \in Docs /\ opener'[o].pc = "read"

\* What a step does that opens no round.
OpensNothing ==
  /\ Settles /\ DocsShrink /\ shown' = shown /\ last' >= last
  /\ Met => Met'
  /\ faults'.scenario = faults.scenario

LEMMA NothingOpened ==
  ASSUME ScheduleInv, Typed', OpensNothing,
         ~ Met' => Same(release.todo \cup release.batch)'
  PROVE  OpenedOK' /\ SeriesOK'
<1>. USE DEF ScheduleInv, OpensNothing
<1>0. /\ last \in Nat /\ last' \in Nat /\ last' >= last /\ shown \in Nat
      /\ \A d \in Docs : doc[d].num \in Nat
  BY BoundsOK DEF Typed, ChainOK, RestOK, DocsOK, Document, Num
<1>1. /\ In({"PREDICTING"})' \subseteq In({"PREDICTING"})
      /\ \A d \in In({"PREDICTING"})' : doc'[d].num = doc[d].num
  BY DEF DocsShrink, In
<1>2. OpenedOK'
  <2>. SUFFICES ASSUME OpenedNumbers PROVE OpenedNumbers'
    BY DEF OpenedOK, NoAdmin
  <2>1. opener'["admin"].pc = "idle" /\ "admin" \notin Docs
    BY SchedulingAssumption DEF OpenedNumbers, Settles, Openers
  <2>2. \A d \in In({"PREDICTING"})' : doc'[d].num \in 1..last'
    BY <1>0, <1>1 DEF OpenedNumbers
  <2>3. \A d \in Docs : opener'[d].pc = "record" => opener'[d].num \in 1..last'
    BY <1>0 DEF OpenedNumbers, Settles, Openers
  <2>4. \A d \in Docs : opener'[d].pc = "active" \/ IsOpening(opener'[d].pc) =>
                          doc'[d].status # "PREDICTING"
    BY DEF OpenedNumbers, Settles, Openers, IsOpening, DocsShrink
  <2>. QED BY <2>1, <2>2, <2>3, <2>4 DEF OpenedNumbers
<1>3. SeriesOK'
  <2>. SUFFICES ASSUME ~ Met', ~ Met PROVE SeriesOK'
    BY DEF SeriesOK
  <2>1. Same(In({"PREDICTING"}))' /\ shown' <= last'
    BY <1>0, <1>1 DEF SeriesOK, Same
  <2>2. \A d \in Docs : IsOpening(opener'[d].pc) => In({"PREDICTING"})' = {}
    BY <1>1 DEF SeriesOK, Settles, Openers, IsOpening
  <2>3. \A d \in Docs : opener'[d].pc = "record" => shown' < opener'[d].num
    BY DEF SeriesOK, Settles, Openers
  <2>. QED BY <2>1, <2>2, <2>3 DEF SeriesOK
<1>. QED BY <1>2, <1>3

LEMMA QueueKept ==
  ASSUME QueueOK, Met => Met', QueueShrinks, UNCHANGED <<lock, auto>>
  PROVE  QueueOK'
<1>1. In({"QUEUED"})' \subseteq In({"QUEUED"})
  BY DEF QueueShrinks, In
<1>. QED BY <1>1 DEF QueueOK, AutoAt, Same

Kept == Typed' /\ BatchesOK' /\ OpenedOK' /\ QueueOK' /\ SeriesOK'

-----------------------------------------------------------------------------
(* The lifecycle, the recovery, time and the chain *)

\* None of these touches the schedulers' executions.
OutsideStep ==
  \/ RecoverFind \/ RecoverFail \/ Pause \/ Resume \/ \E n \in limbo : Land(n)
  \/ \E d \in Docs : \/ RecoverPredicting(d) \/ LockJobRuns(d) \/ LockJobFails(d)
                     \/ Proceed(d) \/ Age(d) \/ Delete(d)

LEMMA OutsideTypes ==
  ASSUME Typed, OutsideStep
  PROVE  Typed'
<1>. USE DEF Typed
<1>0. NoDoc \in Document
  BY BoundsOK DEF NoDoc, Document, Ages, Num
<1>1. CASE RecoverFind \/ RecoverFail
  <2>1. recover' \in [pc : {"idle", "fail"}, ids : SUBSET Docs]
    BY <1>1 DEF RecoverFind, RecoverFail, IdleRecover, RestOK, In
  <2>2. doc' \in [Docs -> Document]
    BY <1>1 DEF RecoverFind, RecoverFail, db, DocsOK, Document, RoundStatus
  <2>3. UNCHANGED <<chain, job, shown, lock, auto, release, opener, faults>>
    BY <1>1 DEF RecoverFind, RecoverFail, db
  <2>. QED BY <2>1, <2>2, <2>3 DEF chain, ChainOK, DocsOK, AutosOK, ReleaseOK, OpenersOK, TriesOK, RestOK
<1>2. CASE Pause \/ Resume
  BY ZenonT(60), <1>2, FaultOK
  DEF Pause, Resume, db, ChainOK, DocsOK, AutosOK, ReleaseOK, OpenersOK, TriesOK, RestOK
<1>3. ASSUME NEW n \in limbo, Land(n)
      PROVE  Typed'
  <2>1. ChainOK'
    BY <1>3, BoundsOK DEF Land, Opens, ChainOK
  <2>. QED BY <1>3, <2>1 DEF Land, db, DocsOK, AutosOK, ReleaseOK, OpenersOK, TriesOK, RestOK
<1>4. ASSUME NEW d \in Docs, RecoverPredicting(d) \/ LockJobFails(d)
      PROVE  Typed'
  <2>1. RestOK'
    BY <1>4, FaultOK DEF RecoverPredicting, LockJobFails, RestOK
  <2>. QED BY <1>4, <2>1 DEF RecoverPredicting, LockJobFails, chain, ChainOK, DocsOK, AutosOK, ReleaseOK,
              OpenersOK, TriesOK
<1>5. ASSUME NEW d \in Docs, LockJobRuns(d) \/ Proceed(d) \/ Age(d) \/ Delete(d)
      PROVE  Typed'
  <2>1. DocsOK'
    BY <1>0, <1>5 DEF LockJobRuns, Proceed, Age, Delete, DocsOK, Document, RoundStatus, Ages
  <2>. QED BY <1>5, <2>1 DEF LockJobRuns, Proceed, Age, Delete, chain, ChainOK, AutosOK, ReleaseOK,
              OpenersOK, TriesOK, RestOK
<1>. QED BY <1>1, <1>2, <1>3, <1>4, <1>5 DEF OutsideStep

LEMMA OutsideKeeps ==
  ASSUME ScheduleInv, OutsideStep
  PROVE  Kept /\ OpensNothing
<1>. USE DEF ScheduleInv
<1>1. Typed'
  BY OutsideTypes
<1>2. /\ UNCHANGED <<shown, lock, auto, release, opener>>
      /\ faults'.meetings = faults.meetings /\ faults'.scenario = faults.scenario
  BY DEF OutsideStep, RecoverFind, RecoverFail, Pause, Resume, Land, RecoverPredicting, LockJobRuns,
     LockJobFails, Proceed, Age, Delete, Fault, db, Typed, RestOK
<1>3. last' >= last
  BY BoundsOK DEF OutsideStep, RecoverFind, RecoverFail, Pause, Resume, Land, Opens, RecoverPredicting,
     LockJobRuns, LockJobFails, Proceed, Age, Delete, chain, Typed, ChainOK
<1>4. DocsShrink /\ QueueShrinks
  <2>1. CASE RecoverFind \/ Pause \/ Resume \/ \E n \in limbo : Land(n)
    BY <2>1 DEF RecoverFind, Pause, Resume, Land, db, DocsShrink, QueueShrinks
  <2>2. CASE RecoverFail
    BY <2>2 DEF RecoverFail, DocsShrink, QueueShrinks, Typed, DocsOK, Document
  <2>3. ASSUME NEW d \in Docs, \/ RecoverPredicting(d) \/ LockJobRuns(d) \/ LockJobFails(d)
                               \/ Proceed(d) \/ Age(d) \/ Delete(d)
        PROVE  DocsShrink /\ QueueShrinks
    BY <2>3 DEF RecoverPredicting, LockJobRuns, LockJobFails, Proceed, Age, Delete, NoDoc,
       DocsShrink, QueueShrinks, Typed, DocsOK, Document
  <2>. QED BY <2>1, <2>2, <2>3 DEF OutsideStep
<1>5. OpensNothing /\ Met' = Met
  BY <1>2, <1>3, <1>4 DEF OpensNothing, Settles, Met
<1>6. ~ Met' => Same(release.todo \cup release.batch)'
  BY <1>2, <1>5 DEF SeriesOK, Same
<1>7. BatchesOK' /\ QueueOK'
  BY <1>2, <1>4, <1>5, QueueKept DEF BatchesOK
<1>. QED BY <1>1, <1>5, <1>6, <1>7, NothingOpened DEF Kept

-----------------------------------------------------------------------------
(* autoOpenRounds *)

Execution == [pc : {"idle", "expire", "conflict", "number", "create"},
              round : Docs \cup {None}, num : Num]

\* Execution a becomes e.
LEMMA AutoChanges ==
  ASSUME AutosOK, NEW a \in Runs, NEW e \in Execution, auto' = [auto EXCEPT ![a] = e],
         lock' \in [running : BOOLEAN, overdue : BOOLEAN]
  PROVE  AutosOK' /\ auto'[a] = e /\ \A b \in Runs : b # a => auto'[b] = auto[b]
  BY DEF AutosOK, Execution

IdleOK(pc) == [IdleAuto EXCEPT !.pc = pc]

LEMMA IdleAutoOK ==
  /\ IdleAuto \in Execution /\ IdleAuto.pc = "idle"
  /\ IdleOK("conflict") \in Execution /\ IdleOK("conflict").pc = "conflict"
  /\ FreeLock \in [running : BOOLEAN, overdue : BOOLEAN] /\ FreeLock.overdue = FALSE
  BY BoundsOK DEF IdleAuto, IdleOK, Execution, Num, FreeLock

LEMMA AutoEnds ==
  ASSUME AutosOK, NEW a \in Runs, AutoEnd(a)
  PROVE  /\ AutosOK' /\ auto'[a].pc = "idle" /\ ~ lock'.overdue
         /\ \A b \in Runs : b # a => auto'[b] = auto[b]
  BY AutoChanges, IdleAutoOK DEF AutoEnd

\* What happens to the lock and to the execution a, and to no other.
AutoMoves(a) ==
  /\ \A b \in Runs : b # a => auto'[b] = auto[b]
  /\ UNCHANGED <<chain, job, shown, release, opener, recover>>
  /\ faults'.meetings = faults.meetings /\ faults'.scenario = faults.scenario

LEMMA StartKeeps ==
  ASSUME Typed, QueueOK, NEW a \in Runs, AutoStart(a)
  PROVE  Typed' /\ AutoMoves(a) /\ doc' = doc /\ QueueOK'
<1>. USE DEF Typed
<1>0. /\ auto[a].pc = "idle" /\ auto[a] \in Execution /\ (~ lock.running \/ lock.overdue)
      /\ lock' = [running |-> TRUE, overdue |-> FALSE]
      /\ UNCHANGED <<chain, db, release, opener, recover, faults>>
  BY DEF AutoStart, AutoAt, AutosOK, Execution
<1>1. PICK e \in Execution : auto' = [auto EXCEPT ![a] = e] /\ e.pc \in {"conflict", "expire"}
  <2>1. CASE AutoGoto(a, "conflict")
    <3>. DEFINE x == [auto[a] EXCEPT !.pc = "conflict"]
    <3>1. auto' = [auto EXCEPT ![a] = x] /\ x \in Execution /\ x.pc = "conflict"
      BY <1>0, <2>1 DEF AutoGoto, Execution
    <3>. HIDE DEF x
    <3>. QED BY <3>1
  <2>2. ASSUME NEW d \in Docs, auto' = [auto EXCEPT ![a].pc = "expire", ![a].round = d]
        PROVE  \E x \in Execution : auto' = [auto EXCEPT ![a] = x] /\ x.pc \in {"conflict", "expire"}
    <3>. DEFINE x == [auto[a] EXCEPT !.pc = "expire", !.round = d]
    <3>1. auto' = [auto EXCEPT ![a] = x]
      BY <2>2
    <3>2. x \in Execution /\ x.pc = "expire"
      BY <1>0 DEF Execution
    <3>. HIDE DEF x
    <3>. QED BY <3>1, <3>2
  <2>. QED BY <2>1, <2>2 DEF AutoStart, In
<1>2. AutosOK' /\ auto'[a] = e /\ \A b \in Runs : b # a => auto'[b] = auto[b]
  BY <1>0, <1>1, AutoChanges
<1>3. AutoMoves(a) /\ doc' = doc
  BY <1>0, <1>2 DEF AutoMoves, db
<1>4. QueueOK'
  BY <1>0, <1>1, <1>2 DEF QueueOK, AutoAt, Met, In, Same, db
<1>. QED BY <1>0, <1>2, <1>3, <1>4 DEF ChainOK, DocsOK, ReleaseOK, OpenersOK, TriesOK, RestOK, chain, db

LEMMA ExpireKeeps ==
  ASSUME Typed, QueueOK, NEW a \in Runs, AutoExpire(a)
  PROVE  Typed' /\ AutoMoves(a) /\ DocsShrink /\ QueueOK'
<1>. USE DEF Typed
<1>0. /\ auto[a].pc = "expire" /\ lock' = lock
      /\ UNCHANGED <<chain, job, shown, release, opener, recover, faults>>
      /\ auto' = [auto EXCEPT ![a] = IdleOK("conflict")]
  BY DEF AutoExpire, AutoAt, IdleOK
<1>1. AutosOK' /\ auto'[a].pc = "conflict" /\ \A b \in Runs : b # a => auto'[b] = auto[b]
  BY <1>0, AutoChanges, IdleAutoOK DEF AutosOK
<1>2. doc' \in [Docs -> Document] /\ DocsShrink /\ QueueShrinks
  BY DEF AutoExpire, DocsOK, Document, RoundStatus, DocsShrink, QueueShrinks
<1>3. AutoMoves(a)
  BY <1>0, <1>1 DEF AutoMoves
<1>4. QueueOK'
  <2>1. In({"QUEUED"})' \subseteq In({"QUEUED"})
    BY <1>2 DEF QueueShrinks, In
  <2>. QED BY <1>0, <1>1, <2>1 DEF QueueOK, AutoAt, Met, Same
<1>. QED BY <1>0, <1>1, <1>2, <1>3, <1>4 DEF ChainOK, DocsOK, ReleaseOK, OpenersOK, TriesOK, RestOK, chain

\* The query finds a round, or the execution goes on when there is none.
LEMMA ConflictKeeps ==
  ASSUME Typed, QueueOK, NEW a \in Runs, AutoConflict(a)
  PROVE  Typed' /\ AutoMoves(a) /\ doc' = doc /\ QueueOK'
<1>. USE DEF Typed
<1>0. /\ auto[a].pc = "conflict" /\ auto[a] \in Execution
      /\ UNCHANGED <<chain, db, release, opener, recover, faults>>
  BY DEF AutoConflict, AutoAt, AutosOK, Execution
<1>1. CASE AutoEnd(a)
  <2>1. /\ AutosOK' /\ auto'[a].pc = "idle" /\ ~ lock'.overdue
        /\ \A b \in Runs : b # a => auto'[b] = auto[b]
    BY <1>1, AutoEnds
  <2>2. QueueOK'
    BY <1>0, <2>1 DEF QueueOK, AutoAt, Met, In, Same, db
  <2>. QED BY <1>0, <2>1, <2>2 DEF AutoMoves, ChainOK, DocsOK, ReleaseOK, OpenersOK, TriesOK, RestOK, chain, db
<1>2. CASE AutoGoto(a, "number") /\ lock' = lock /\ In({"PREDICTING", "QUEUED"}) = {}
  <2>. DEFINE e == [auto[a] EXCEPT !.pc = "number"]
  <2>1. auto' = [auto EXCEPT ![a] = e] /\ e \in Execution /\ e.pc = "number"
    BY <1>0, <1>2 DEF AutoGoto, Execution
  <2>. HIDE DEF e
  <2>2. AutosOK' /\ auto'[a] = e /\ \A b \in Runs : b # a => auto'[b] = auto[b]
    BY <1>2, <2>1, AutoChanges DEF AutosOK
  <2>3. In({"QUEUED"}) = {}
    BY <1>2 DEF In
  <2>4. QueueOK'
    BY <1>0, <1>2, <2>1, <2>2, <2>3 DEF QueueOK, AutoAt, Met, In, Same, db
  <2>. QED BY <1>0, <2>2, <2>4 DEF AutoMoves, ChainOK, DocsOK, ReleaseOK, OpenersOK, TriesOK, RestOK, chain, db
<1>. QED BY <1>1, <1>2 DEF AutoConflict

LEMMA NumberKeeps ==
  ASSUME Typed, QueueOK, NEW a \in Runs, AutoNumber(a)
  PROVE  Typed' /\ AutoMoves(a) /\ doc' = doc /\ QueueOK'
<1>. USE DEF Typed
<1>. DEFINE n == Cap(LatestNumber + 1)
            e == [auto[a] EXCEPT !.pc = "create", !.num = n]
<1>0. /\ auto[a].pc = "number" /\ auto[a] \in Execution
      /\ UNCHANGED <<chain, db, lock, release, opener, recover, faults>>
      /\ auto' = [auto EXCEPT ![a].pc = "create", ![a].num = n]
  BY DEF AutoNumber, AutoAt, AutosOK, Execution
<1>1. n \in Num
  <2>1. LatestNumber + 1 \in Nat
    BY LatestOK, BoundsOK DEF Num
  <2>. QED BY <2>1, CapOK
<1>2. auto' = [auto EXCEPT ![a] = e]
  BY <1>0
<1>3. e \in Execution /\ e.pc = "create"
  BY <1>0, <1>1 DEF Execution
<1>. HIDE DEF e
<1>4. AutosOK' /\ auto'[a] = e /\ \A b \in Runs : b # a => auto'[b] = auto[b]
  BY <1>0, <1>2, <1>3, AutoChanges DEF AutosOK
<1>5. QueueOK'
  BY ZenonT(60), <1>0, <1>3, <1>4 DEF QueueOK, AutoAt, Met, In, Same, db
<1>. QED BY <1>0, <1>4, <1>5 DEF AutoMoves, ChainOK, DocsOK, ReleaseOK, OpenersOK, TriesOK, RestOK, chain, db

\* The round is queued, and the lock released.
LEMMA CreateKeeps ==
  ASSUME Typed, QueueOK, NEW a \in Runs, AutoCreate(a)
  PROVE  Typed' /\ AutoMoves(a) /\ DocsShrink /\ QueueOK'
<1>. USE DEF Typed
<1>0. /\ auto[a].pc = "create" /\ auto[a].num \in Num /\ AutoEnd(a)
      /\ UNCHANGED <<chain, job, shown, release, opener, recover, faults>>
  BY DEF AutoCreate, AutoAt, AutosOK, Execution
<1>1. /\ AutosOK' /\ auto'[a].pc = "idle" /\ ~ lock'.overdue
      /\ \A b \in Runs : b # a => auto'[b] = auto[b]
  BY <1>0, AutoEnds
<1>2. \/ doc' = doc
      \/ \E d \in Docs : doc' = [doc EXCEPT ![d] = [status |-> "QUEUED", num |-> auto[a].num,
                                                    age |-> "fresh"]]
  BY DEF AutoCreate
<1>3. doc' \in [Docs -> Document] /\ DocsShrink
  BY <1>0, <1>2 DEF DocsOK, Document, RoundStatus, Ages, DocsShrink
<1>4. ~ Met => Same(In({"QUEUED"}))'
  BY <1>0, <1>2 DEF QueueOK, Same, In, DocsOK
<1>5. QueueOK'
  <2>. SUFFICES ASSUME ~ Met PROVE QueueOK'
    BY <1>0 DEF QueueOK, Met
  <2>1. \A b \in Runs : auto'[b].pc = "idle"
    BY <1>0, <1>1 DEF QueueOK, AutoAt
  <2>. QED BY <1>1, <1>4, <2>1 DEF QueueOK, AutoAt
<1>. QED BY <1>0, <1>1, <1>3, <1>5 DEF AutoMoves, ChainOK, DocsOK, ReleaseOK, OpenersOK, TriesOK, RestOK, chain

LEMMA AutoFailKeeps ==
  ASSUME Typed, QueueOK, NEW a \in Runs, AutoFails(a)
  PROVE  Typed' /\ AutoMoves(a) /\ doc' = doc /\ QueueOK'
<1>. USE DEF Typed
<1>0. /\ auto[a].pc = "create" /\ AutoEnd(a) /\ Fault
      /\ UNCHANGED <<chain, db, release, opener, recover>>
  BY DEF AutoFails, AutoAt
<1>1. /\ AutosOK' /\ auto'[a].pc = "idle" /\ ~ lock'.overdue
      /\ \A b \in Runs : b # a => auto'[b] = auto[b]
  BY <1>0, AutoEnds
<1>2. RestOK' /\ faults'.meetings = faults.meetings /\ faults'.scenario = faults.scenario
  BY <1>0, FaultOK DEF RestOK, Fault, db
<1>3. QueueOK'
  BY <1>0, <1>1, <1>2 DEF QueueOK, AutoAt, Met, In, Same, db
<1>. QED BY <1>0, <1>1, <1>2, <1>3 DEF AutoMoves, ChainOK, DocsOK, ReleaseOK, OpenersOK, TriesOK, chain, db

LEMMA AutoKeeps ==
  ASSUME ScheduleInv, NEW a \in Runs, AutoStart(a) \/ AutoStep(a) \/ AutoFails(a)
  PROVE  Kept /\ OpensNothing
<1>. USE DEF ScheduleInv
<1>1. Typed' /\ AutoMoves(a) /\ (doc' = doc \/ DocsShrink) /\ QueueOK'
  BY StartKeeps, ExpireKeeps, ConflictKeeps, NumberKeeps, CreateKeeps, AutoFailKeeps DEF AutoStep
<1>2. OpensNothing /\ Met' = Met
  BY <1>1, BoundsOK DEF AutoMoves, OpensNothing, Settles, DocsShrink, Met, chain, Typed, ChainOK
<1>3. BatchesOK' /\ (~ Met' => Same(release.todo \cup release.batch)')
  BY <1>1, <1>2 DEF AutoMoves, BatchesOK, SeriesOK, Same
<1>. QED BY <1>1, <1>2, <1>3, NothingOpened DEF Kept

\* A lock held beyond its time lets two openings meet.
LEMMA OverdueKeeps ==
  ASSUME ScheduleInv, Overdue
  PROVE  Kept /\ OpensNothing
<1>. USE DEF ScheduleInv
<1>0. UNCHANGED <<chain, db, auto, release, opener, recover>>
  BY DEF Overdue
<1>1. Met' /\ faults'.scenario = faults.scenario
  BY BoundsOK DEF Overdue, Meet, Met, Typed, RestOK
<1>2. AutosOK' /\ RestOK'
  BY <1>0, FaultOK DEF Overdue, Typed, AutosOK, RestOK, db
<1>3. Typed'
  BY <1>0, <1>2 DEF Typed, ChainOK, DocsOK, ReleaseOK, OpenersOK, TriesOK, chain, db
<1>4. OpensNothing
  BY <1>0, <1>1, BoundsOK DEF OpensNothing, Settles, DocsShrink, chain, db, Typed, ChainOK
<1>5. BatchesOK' /\ QueueOK'
  BY <1>0, <1>1 DEF BatchesOK, QueueOK
<1>. QED BY <1>1, <1>3, <1>4, <1>5, NothingOpened DEF Kept

-----------------------------------------------------------------------------
(* releaseQueuedRounds *)

LEMMA IdleReleaseOK ==
  /\ IdleRelease \in [pc : {"idle", "open", "jobs"}, todo : SUBSET Docs,
                      batch : SUBSET Docs, done : SUBSET Docs]
  /\ IdleRelease.pc = "idle" /\ IdleRelease.todo = {} /\ IdleRelease.batch = {}
  BY DEF IdleRelease

\* A group is released while no other is.
LEMMA GroupStarts ==
  ASSUME Typed, BatchesOK, release.pc # "open", NEW todo \in SUBSET Docs, NextGroup(todo)
  PROVE  /\ ReleaseOK' /\ OpenersOK' /\ BatchesOK' /\ Settles
         /\ (release.todo \cup release.batch)' \subseteq todo
<1>. USE DEF Typed
<1>0. \A d \in Docs : opener[d].pc = "idle"
  BY DEF BatchesOK
<1>1. CASE todo = {}
  <2>1. release' = IdleRelease /\ opener' = opener
    BY <1>1 DEF NextGroup
  <2>2. ReleaseOK' /\ OpenersOK'
    BY <2>1, IdleReleaseOK DEF ReleaseOK, OpenersOK, TriesOK
  <2>3. BatchesOK' /\ Settles /\ (release.todo \cup release.batch)' \subseteq todo
    BY <1>0, <2>1, IdleReleaseOK DEF BatchesOK, Settles
  <2>. QED BY <2>2, <2>3
<1>2. CASE todo # {}
  <2>. DEFINE e == [IdleOpener EXCEPT !.pc = "read"]
  <2>1. PICK group \in SUBSET todo :
          /\ release' = [pc |-> "open", todo |-> todo \ group, batch |-> group, done |-> {}]
          /\ opener' = [o \in DOMAIN opener |-> IF o \in group THEN e ELSE opener[o]]
    BY <1>2 DEF NextGroup
  <2>2. e \in Opener /\ e.pc = "read" /\ e.tries = 0
    BY IdleOpenerOK DEF OpenerPc
  <2>. HIDE DEF e
  <2>3. \A o \in Openers : opener'[o] = IF o \in group THEN e ELSE opener[o]
    BY <2>1 DEF OpenersOK
  <2>4. opener' \in [Openers -> Opener]
    BY <2>1, <2>2 DEF OpenersOK
  <2>5. OpenersOK'
    BY <2>2, <2>3, <2>4 DEF OpenersOK, TriesOK
  <2>6. ReleaseOK' /\ (release.todo \cup release.batch)' \subseteq todo
    BY <2>1 DEF ReleaseOK
  <2>7. BatchesOK' /\ Settles
    BY <1>0, <2>1, <2>2, <2>3 DEF BatchesOK, Settles, Openers
  <2>. QED BY <2>5, <2>6, <2>7
<1>. QED BY <1>1, <1>2

LEMMA ReleaseKeeps ==
  ASSUME ScheduleInv, ReleaseStep \/ ReleaseFails
  PROVE  Kept /\ OpensNothing
<1>. USE DEF ScheduleInv
<1>0. /\ UNCHANGED <<chain, shown, lock, auto, recover>>
      /\ faults'.meetings = faults.meetings /\ faults'.scenario = faults.scenario
      /\ Met' = Met /\ RestOK'
  <2>1. CASE ReleaseStep
    BY <2>1 DEF ReleaseStep, ReleaseStart, ReleaseSync, ReleaseNext, ReleaseJob, db, Met, Typed, RestOK
  <2>2. CASE ReleaseFails
    BY <2>2, FaultOK DEF ReleaseFails, Fault, db, Met, Typed, RestOK
  <2>. QED BY <2>1, <2>2
<1>1. /\ ReleaseOK' /\ OpenersOK' /\ BatchesOK' /\ Settles
      /\ ~ Met => Same(release.todo \cup release.batch)'
  <2>1. CASE ReleaseStart
    <3>. DEFINE todo == {d \in In({"QUEUED"}) : doc[d].age # "fresh"}
    <3>1. release.pc # "open" /\ NextGroup(todo) /\ todo \in SUBSET Docs
      BY <2>1 DEF ReleaseStart, In
    <3>2. ~ Met => Same(todo)
      BY DEF QueueOK, Same
    <3>. HIDE DEF todo
    <3>. QED BY <3>1, <3>2, GroupStarts DEF Same
  <2>2. CASE ReleaseNext
    <3>1. release.pc # "open" /\ NextGroup(release.todo) /\ release.todo \in SUBSET Docs
      BY <2>2 DEF ReleaseNext, Typed, ReleaseOK
    <3>. QED BY <3>1, GroupStarts DEF SeriesOK, Same
  <2>3. CASE ReleaseSync
    <3>1. /\ release'.pc = "jobs" /\ release'.batch = {} /\ release'.todo = release.todo
          /\ ReleaseOK'
      BY <2>3 DEF ReleaseSync, Typed, ReleaseOK
    <3>2. \A o \in Openers : opener'[o] = IF o \in release.batch THEN IdleOpener ELSE opener[o]
      BY <2>3 DEF ReleaseSync, Typed, OpenersOK
    <3>3. IdleOpener \in Opener /\ IdleOpener.pc = "idle" /\ IdleOpener.tries = 0
      BY BoundsOK DEF IdleOpener, Opener, OpenerPc, Num
    <3>4. opener' \in [Openers -> Opener]
      BY <2>3, <3>3 DEF ReleaseSync, Typed, OpenersOK
    <3>5. OpenersOK' /\ Settles
      BY <3>2, <3>3, <3>4 DEF OpenersOK, TriesOK, Settles, Typed
    <3>6. BatchesOK'
      BY <3>1, <3>2, <3>3 DEF BatchesOK, Openers
    <3>. QED BY <3>1, <3>5, <3>6 DEF SeriesOK, Same
  <2>4. ASSUME NEW d \in Docs, ReleaseJob(d)
        PROVE  /\ ReleaseOK' /\ OpenersOK' /\ BatchesOK' /\ Settles
               /\ ~ Met => Same(release.todo \cup release.batch)'
    <3>1. /\ release'.pc = release.pc /\ release'.batch = release.batch
          /\ release'.todo = release.todo /\ ReleaseOK' /\ opener' = opener
      BY <2>4 DEF ReleaseJob, Typed, ReleaseOK
    <3>. QED BY <3>1 DEF BatchesOK, Settles, Typed, OpenersOK, TriesOK, SeriesOK, Same
  <2>5. CASE ReleaseFails
    <3>1. release' = IdleRelease /\ release.pc = "jobs" /\ opener' = opener
      BY <2>5 DEF ReleaseFails
    <3>2. ReleaseOK' /\ OpenersOK' /\ Settles
      BY <3>1, IdleReleaseOK DEF ReleaseOK, Typed, OpenersOK, TriesOK, Settles
    <3>. QED BY <3>1, <3>2, IdleReleaseOK DEF BatchesOK, Same
  <2>. QED BY <2>1, <2>2, <2>3, <2>4, <2>5 DEF ReleaseStep
<1>2. DocsOK' /\ DocsShrink /\ QueueShrinks
  <2>1. CASE ReleaseSync
    BY <2>1 DEF ReleaseSync, Typed, DocsOK, Document, Ages, DocsShrink, QueueShrinks
  <2>2. ASSUME NEW d \in Docs, ReleaseJob(d)
        PROVE  DocsOK' /\ DocsShrink /\ QueueShrinks
    BY <2>2 DEF ReleaseJob, Typed, DocsOK, DocsShrink, QueueShrinks
  <2>3. CASE ReleaseStart \/ ReleaseNext \/ ReleaseFails
    BY <2>3 DEF ReleaseStart, ReleaseNext, ReleaseFails, db, Typed, DocsOK, DocsShrink, QueueShrinks
  <2>. QED BY <2>1, <2>2, <2>3 DEF ReleaseStep
<1>3. Typed'
  BY <1>0, <1>1, <1>2 DEF Typed, ChainOK, AutosOK, chain
<1>4. OpensNothing
  BY <1>0, <1>1, <1>2, BoundsOK DEF OpensNothing, chain, Typed, ChainOK
<1>5. QueueOK'
  BY <1>0, <1>2, QueueKept
<1>. QED BY <1>0, <1>1, <1>3, <1>4, <1>5, NothingOpened DEF Kept

-----------------------------------------------------------------------------
(* The admin's rounds, and crashes *)

\* What keeps the invariant once the admin has opened a round.
LEMMA AdminBeyond ==
  ASSUME ScheduleInv, Typed', Met', faults'.scenario = "admin", release' = release,
         \A d \in Docs : opener'[d] = opener[d]
  PROVE  Kept
  BY DEF ScheduleInv, Kept, BatchesOK, OpenedOK, NoAdmin, QueueOK, SeriesOK

LEMMA AdminKeeps ==
  ASSUME ScheduleInv, AdminOpens \/ AdminRecord \/ AdminDone
  PROVE  /\ Kept /\ (Met => Met') /\ Met'
         /\ Met => shown' = shown
         /\ ~ Met => UNCHANGED <<doc, shown>>
<1>. USE DEF ScheduleInv, Typed
<1>0. "admin" \in Openers /\ "admin" \notin Docs /\ opener["admin"] \in Opener
  BY SchedulingAssumption DEF Openers, OpenersOK
<1>1. CASE AdminOpens
  <2>1. /\ opener["admin"].pc = "idle" /\ OpenerGoto("admin", "state")
        /\ UNCHANGED <<chain, db, lock, auto, release, recover>>
    BY <1>1 DEF AdminOpens, OpenerAt
  <2>2. TriesFit([opener["admin"] EXCEPT !.pc = "state"])
    BY <1>0, <2>1 DEF OpenersOK, TriesOK, TriesFit, Opener
  <2>3. OpenersOK' /\ \A d \in Docs : opener'[d] = opener[d]
    <3>1. OpenersOK'
      BY <1>0, <2>1, <2>2, OpenerGotoOK DEF OpenerPc
    <3>. QED BY <1>0, <2>1, <3>1 DEF OpenerGoto, OpenersOK, Openers
  <2>4. RestOK' /\ Met' /\ faults'.scenario = "admin"
    BY <1>1, <2>1, FaultOK, BoundsOK DEF AdminOpens, Meet, Met, RestOK, db
  <2>5. Typed'
    BY <2>1, <2>3, <2>4 DEF ChainOK, DocsOK, AutosOK, ReleaseOK, chain, db
  <2>. QED BY <2>1, <2>3, <2>4, <2>5, AdminBeyond DEF db
<1>2. CASE AdminRecord \/ AdminDone
  <2>1. /\ opener["admin"].pc # "idle" /\ opener' = [opener EXCEPT !["admin"] = IdleOpener]
        /\ UNCHANGED <<chain, job, lock, auto, release, recover, faults>>
    BY <1>2 DEF AdminRecord, AdminDone, OpenerAt, db
  <2>2. Met /\ Met' /\ faults'.scenario = "admin"
    BY <2>1 DEF OpenedOK, OpenedNumbers, NoAdmin, Met
  <2>3. IdleOpener \in Opener /\ TriesFit(IdleOpener)
    BY BoundsOK DEF IdleOpener, Opener, OpenerPc, Num, TriesFit
  <2>4. OpenersOK' /\ \A d \in Docs : opener'[d] = opener[d]
    <3>1. OpenersOK'
      <4>. HIDE DEF IdleOpener
      <4>. QED BY <1>0, <2>1, <2>3, OpenerChanges
    <3>2. \A d \in Docs : opener'[d] = opener[d]
      BY <1>0, <2>1 DEF OpenersOK, Openers
    <3>. QED BY <3>1, <3>2
  <2>5. doc' \in [Docs -> Document] /\ shown' = shown
    <3>1. CASE AdminDone
      BY <3>1 DEF AdminDone, db, DocsOK
    <3>2. CASE AdminRecord
      <4>. DEFINE n == opener["admin"].num
      <4>1. PICK d \in Docs : doc' = [doc EXCEPT ![d] = Opened(@, n)]
        BY <3>2 DEF AdminRecord, Existing
      <4>2. shown' = shown
        BY <2>2, <3>2 DEF AdminRecord, Show
      <4>3. Opened(doc[d], n) \in Document
        BY ZenonT(60), <1>0 DEF Opened, Document, RoundStatus, Ages, DocsOK, Opener
      <4>. HIDE DEF n
      <4>. QED BY <4>1, <4>2, <4>3 DEF DocsOK
    <3>. QED BY <1>2, <3>1, <3>2
  <2>6. Typed'
    BY <2>1, <2>4, <2>5 DEF ChainOK, DocsOK, AutosOK, ReleaseOK, RestOK, chain
  <2>. QED BY <2>1, <2>2, <2>4, <2>5, <2>6, AdminBeyond
<1>. QED BY <1>1, <1>2

LEMMA CrashKeeps ==
  ASSUME ScheduleInv, Crash
  PROVE  Kept /\ OpensNothing
<1>. USE DEF ScheduleInv, Typed
<1>0. /\ Fault /\ UNCHANGED <<last, active, db>> /\ lock' = FreeLock /\ release' = IdleRelease
      /\ auto' = [a \in Runs |-> IdleAuto] /\ recover' = IdleRecover
      /\ opener' = [o \in Openers |-> IdleOpener]
  BY DEF Crash, OpenersOK
<1>1. limbo' \subseteq Num
  <2>1. \A o \in DOMAIN opener : opener[o].num \in Num
    BY DEF OpenersOK, Opener
  <2>. QED BY <2>1 DEF Crash, ChainOK
<1>2. /\ IdleOpener \in Opener /\ IdleOpener.pc = "idle" /\ IdleOpener.tries = 0
  BY BoundsOK DEF IdleOpener, Opener, OpenerPc, Num
<1>3. OpenersOK' /\ Settles
  BY <1>0, <1>2 DEF OpenersOK, TriesOK, Settles
<1>4. RestOK' /\ Met' = Met /\ faults'.scenario = faults.scenario
  BY <1>0, FaultOK DEF RestOK, Fault, Met, IdleRecover, db
<1>5. AutosOK' /\ ReleaseOK' /\ \A a \in Runs : auto'[a].pc = "idle"
  BY <1>0, IdleAutoOK, IdleReleaseOK DEF AutosOK, ReleaseOK, Execution
<1>6. Typed'
  BY <1>0, <1>1, <1>3, <1>4, <1>5 DEF ChainOK, DocsOK, db
<1>7. OpensNothing
  BY <1>0, <1>3, <1>4, BoundsOK DEF OpensNothing, DocsShrink, db, ChainOK
<1>8. BatchesOK' /\ Same(release.todo \cup release.batch)'
  BY <1>0, <1>2, IdleReleaseOK DEF BatchesOK, Openers, Same
<1>9. QueueOK'
  BY <1>0, <1>4, <1>5 DEF QueueOK, AutoAt, FreeLock, In, Same, db
<1>. QED BY <1>6, <1>7, <1>8, <1>9, NothingOpened DEF Kept

-----------------------------------------------------------------------------
(* A round is shown open *)

LEMMA RecordKeeps ==
  ASSUME ScheduleInv, NEW d \in Docs, OpenerRecord(d)
  PROVE  /\ Kept /\ Met' = Met
         /\ \/ UNCHANGED <<doc, shown>>
            \/ /\ Met => shown' = shown
               /\ ~ Met => /\ In({"PREDICTING"}) = {} /\ In({"PREDICTING"})' = {d}
                           /\ doc'[d].num \in 1..last /\ doc'[d].num > shown
                           /\ shown' = doc'[d].num
<1>. USE DEF ScheduleInv, Typed
<1>. DEFINE n == opener[d].num
            shows == d \in Existing /\ ~ Taken(n, Existing \ {d})
<1>0. /\ d \in Openers /\ opener[d].pc = "record" /\ opener[d] \in Opener /\ n \in Num
      /\ UNCHANGED <<chain, job, lock, auto, release, recover, faults>>
      /\ OpenerEnd(d, "ok") \/ OpenerEnd(d, "failed")
      /\ doc[d] \in Document
  BY DEF OpenerRecord, OpenerAt, OpenersOK, Opener, Openers, DocsOK
<1>1. IF shows THEN doc' = [doc EXCEPT ![d] = Opened(@, n)] /\ Show(n)
               ELSE UNCHANGED <<doc, shown>>
  BY DEF OpenerRecord
<1>2. OpenersOK' /\ opener'[d].pc \in {"ok", "failed"}
  BY <1>0, OpenerEndOK
<1>3. \A p \in Openers : p # d => opener'[p] = opener[p]
  BY <1>0 DEF OpenerEnd, OpenersOK
<1>4. Met' = Met /\ NoAdmin' = NoAdmin
  BY <1>0 DEF Met, NoAdmin
<1>5. shows => /\ doc'[d].num = n /\ doc'[d].status = "PREDICTING" /\ doc'[d] \in Document
               /\ \A c \in Docs : c # d => doc'[c] = doc[c]
               /\ doc' \in [Docs -> Document]
  <2>1. Opened(doc[d], n) \in Document /\ Opened(doc[d], n).num = n
        /\ Opened(doc[d], n).status = "PREDICTING"
    BY <1>0 DEF Opened, Document, RoundStatus, Ages
  <2>. QED BY <1>1, <2>1 DEF DocsOK
<1>. HIDE DEF shows, n
<1>6. DocsOK' /\ shown' \in Num
  BY <1>0, <1>1, <1>5 DEF DocsOK, RestOK, Show, Larger
<1>7. Typed'
  BY <1>0, <1>2, <1>6 DEF ChainOK, AutosOK, ReleaseOK, RestOK, chain
<1>8. BatchesOK'
  BY <1>0, <1>3 DEF BatchesOK, Openers
<1>9. QueueOK'
  <2>1. In({"QUEUED"})' \subseteq In({"QUEUED"})
    BY <1>1, <1>5 DEF In
  <2>. QED BY <1>0, <1>4, <2>1 DEF QueueOK, AutoAt, Same
<1>10. OpenedOK'
  <2>. SUFFICES ASSUME NoAdmin, OpenedNumbers PROVE OpenedNumbers'
    BY <1>4 DEF OpenedOK
  <2>1. opener'["admin"].pc = "idle" /\ n \in 1..last /\ last' = last
    BY <1>0, <1>3, SchedulingAssumption DEF OpenedNumbers, Openers, chain, n
  <2>2. \A c \in In({"PREDICTING"})' : doc'[c].num \in 1..last'
    BY <1>1, <1>5, <2>1 DEF OpenedNumbers, In
  <2>3. \A c \in Docs : opener'[c].pc = "record" => opener'[c].num \in 1..last'
    BY <1>2, <1>3, <2>1 DEF OpenedNumbers, Openers
  <2>4. \A c \in Docs : opener'[c].pc = "active" \/ IsOpening(opener'[c].pc) =>
                          doc'[c].status # "PREDICTING"
    BY <1>1, <1>2, <1>3, <1>5 DEF OpenedNumbers, Openers, IsOpening
  <2>. QED BY <2>1, <2>2, <2>3, <2>4 DEF OpenedNumbers
<1>11. ~ Met => /\ In({"PREDICTING"}) = {} /\ n \in 1..last /\ shown < n
                /\ \A c \in Docs : c # d => opener[c].pc = "idle"
  <2>1. ~ Met => In({"PREDICTING"}) = {} /\ n \in 1..last /\ shown < n
    BY <1>0 DEF SeriesOK, IsOpening, OpenedOK, OpenedNumbers, NoAdmin, n
  <2>2. ~ Met => \A c \in Docs : c # d => opener[c].pc = "idle"
    BY <1>0 DEF SeriesOK, BatchesOK, Same
  <2>. QED BY <2>1, <2>2
<1>12. shows /\ ~ Met => In({"PREDICTING"})' = {d} /\ shown' = n
  <2>1. shows /\ ~ Met => shown' = n
    BY <1>1, <1>11, BoundsOK DEF Show, Larger, RestOK, ChainOK, Num
  <2>2. shows /\ ~ Met => In({"PREDICTING"})' = {d}
    BY <1>5, <1>11 DEF In
  <2>. QED BY <2>1, <2>2
<1>13. SeriesOK'
  <2>. SUFFICES ASSUME ~ Met PROVE SeriesOK'
    BY <1>4 DEF SeriesOK
  <2>1. \A c \in Docs : ~ IsOpening(opener'[c].pc) /\ opener'[c].pc # "record"
    BY <1>2, <1>3, <1>11 DEF IsOpening, Openers
  <2>2. Same(release.todo \cup release.batch)'
    BY <1>0 DEF SeriesOK, Same
  <2>3. Same(In({"PREDICTING"}))'
    <3>1. CASE shows
      BY <1>12, <3>1 DEF Same
    <3>2. CASE ~ shows
      BY <1>1, <3>2 DEF SeriesOK, Same, In
    <3>. QED BY <3>1, <3>2
  <2>4. shown' <= last'
    <3>1. CASE shows
      BY <1>0, <1>11, <1>12, <3>1 DEF chain
    <3>2. CASE ~ shows
      BY <1>0, <1>1, <3>2 DEF SeriesOK, chain
    <3>. QED BY <3>1, <3>2
  <2>. QED BY <2>1, <2>2, <2>3, <2>4 DEF SeriesOK
<1>14. \/ UNCHANGED <<doc, shown>>
       \/ /\ Met => shown' = shown
          /\ ~ Met => /\ In({"PREDICTING"}) = {} /\ In({"PREDICTING"})' = {d}
                      /\ doc'[d].num \in 1..last /\ doc'[d].num > shown
                      /\ shown' = doc'[d].num
  BY <1>1, <1>5, <1>11, <1>12 DEF Show
<1>. QED BY <1>4, <1>7, <1>8, <1>9, <1>10, <1>13, <1>14 DEF Kept

-----------------------------------------------------------------------------
(* Every step keeps the invariant *)

\* No round is shown open that was not, or openings may meet.
Closes == /\ shown' = shown
          /\ Met => Met'
          /\ ~ Met' => DocsShrink

\* The round of a document is shown open, with a new number.
Shows(d) == /\ ~ Met' /\ In({"PREDICTING"}) = {} /\ In({"PREDICTING"})' = {d}
            /\ doc'[d].num \in 1..MaxLast /\ doc'[d].num > shown
            /\ shown' = doc'[d].num

LEMMA InvInit == Init => ScheduleInv
<1>. SUFFICES ASSUME Init PROVE ScheduleInv
  OBVIOUS
<1>. USE DEF Init
<1>1. /\ IdleOpener \in Opener /\ IdleOpener.pc = "idle" /\ IdleOpener.tries = 0
      /\ NoDoc \in Document /\ NoDoc.status = "none"
  BY BoundsOK DEF IdleOpener, Opener, OpenerPc, Num, NoDoc, Document, Ages
<1>2. \A o \in Openers : opener[o] = IdleOpener
  BY DEF Openers
<1>3. OpenersOK
  BY <1>1, <1>2 DEF OpenersOK, TriesOK, Openers
<1>4. AutosOK /\ \A a \in Runs : auto[a].pc = "idle"
  BY BoundsOK DEF AutosOK, IdleAuto, FreeLock, Num
<1>5. ReleaseOK /\ release.todo = {} /\ release.batch = {}
  BY IdleReleaseOK DEF ReleaseOK
<1>6. ChainOK /\ DocsOK /\ RestOK
  BY <1>1, BoundsOK DEF ChainOK, DocsOK, RestOK, IdleRecover, Num
<1>7. \A d \in Docs : doc[d].status = "none"
  BY <1>1
<1>8. In({"PREDICTING"}) = {} /\ In({"QUEUED"}) = {}
  BY <1>7 DEF In
<1>9. \A o \in Openers : opener[o].pc = "idle"
  BY <1>1, <1>2
<1>10. BatchesOK
  BY <1>5, <1>9 DEF BatchesOK, Openers
<1>11. OpenedOK
  BY <1>7, <1>8, <1>9 DEF OpenedOK, OpenedNumbers, Openers, IsOpening
<1>12. QueueOK
  BY <1>4, <1>8 DEF QueueOK, AutoAt, FreeLock, Same
<1>13. SeriesOK
  BY <1>5, <1>8, <1>9, BoundsOK DEF SeriesOK, Same, Openers, IsOpening
<1>. QED BY <1>3, <1>4, <1>5, <1>6, <1>10, <1>11, <1>12, <1>13 DEF ScheduleInv, Typed

\* A step of an opening, for a document or the admin.
LEMMA OpenerKeeps ==
  ASSUME ScheduleInv, NEW o \in Openers, OpenerStep(o) \/ OpenerFails(o)
  PROVE  Kept /\ (Closes \/ \E d \in Docs : Shows(d))
<1>1. CASE o \in Docs /\ OpenerRecord(o)
  <2>1. /\ Kept /\ Met' = Met
        /\ \/ UNCHANGED <<doc, shown>>
           \/ /\ Met => shown' = shown
              /\ ~ Met => /\ In({"PREDICTING"}) = {} /\ In({"PREDICTING"})' = {o}
                          /\ doc'[o].num \in 1..last /\ doc'[o].num > shown
                          /\ shown' = doc'[o].num
    BY <1>1, RecordKeeps
  <2>2. 1..last \subseteq 1..MaxLast
    BY BoundsOK DEF ScheduleInv, Typed, ChainOK
  <2>. QED BY <1>1, <2>1, <2>2 DEF Closes, Shows, DocsShrink
<1>2. CASE Typed' /\ Advances(o)
  <2>1. Kept
    BY <1>2, AdvancesKeeps DEF Kept
  <2>2. /\ shown' = shown /\ Met' = Met
        /\ ~ Met => \A d \in Docs : /\ doc'[d].status = doc[d].status
                                    /\ doc[d].status = "PREDICTING" => doc'[d].num = doc[d].num
    BY <1>2, AdvancesKeeps
  <2>. QED BY <2>1, <2>2 DEF Closes, DocsShrink
<1>3. \/ o \in Docs /\ OpenerRecord(o)
      \/ Typed' /\ Advances(o)
  <2>1. Typed
    BY DEF ScheduleInv
  <2>. QED BY <2>1, ReadAdvances, ActiveAdvances, StateAdvances, NumberAdvances, SendAdvances,
              FailsAdvances DEF OpenerStep
<1>. QED BY <1>1, <1>2, <1>3

LEMMA StepKeeps ==
  ASSUME ScheduleInv, [Next]_vars
  PROVE  Kept /\ (Closes \/ \E d \in Docs : Shows(d))
<1>1. ASSUME Kept, OpensNothing
      PROVE  Kept /\ Closes
  BY <1>1 DEF OpensNothing, Closes
<1>2. ASSUME NEW a \in Runs, AutoStart(a) \/ AutoStep(a) \/ AutoFails(a)
      PROVE  Kept /\ Closes
  BY <1>1, <1>2, AutoKeeps
<1>3. CASE Overdue
  BY <1>1, <1>3, OverdueKeeps
<1>4. CASE ReleaseStep \/ ReleaseFails
  BY <1>1, <1>4, ReleaseKeeps
<1>5. ASSUME NEW o \in Docs \cup {"admin"}, OpenerStep(o) \/ OpenerFails(o)
      PROVE  Kept /\ (Closes \/ \E d \in Docs : Shows(d))
  BY <1>5, OpenerKeeps DEF Openers
<1>6. CASE AdminOpens \/ AdminRecord \/ AdminDone
  <2>1. Kept /\ Met' /\ (Met => shown' = shown) /\ (~ Met => UNCHANGED <<doc, shown>>)
    BY <1>6, AdminKeeps
  <2>. QED BY <2>1 DEF Closes
<1>7. CASE OutsideStep
  BY <1>1, <1>7, OutsideKeeps
<1>8. CASE Crash
  BY <1>1, <1>8, CrashKeeps
<1>9. CASE UNCHANGED vars
  <2>1. UNCHANGED <<last, active, limbo, doc, job, shown, lock, auto, release, opener, recover, faults>>
    BY <1>9 DEF vars, chain, db
  <2>2. Typed' /\ BatchesOK' /\ QueueOK'
    BY <2>1 DEF ScheduleInv, Typed, ChainOK, DocsOK, AutosOK, ReleaseOK, OpenersOK, TriesOK, RestOK,
                BatchesOK, QueueOK, AutoAt, In, Same, Met
  <2>3. OpenedOK' /\ SeriesOK'
    BY <2>1 DEF ScheduleInv, OpenedOK, OpenedNumbers, NoAdmin, SeriesOK, In, Same, Met
  <2>. QED BY <2>1, <2>2, <2>3 DEF Kept, Closes, Met, DocsShrink
<1>. QED BY <1>2, <1>3, <1>4, <1>5, <1>6, <1>7, <1>8, <1>9 DEF Next, OutsideStep

LEMMA InvNext == ScheduleInv /\ [Next]_vars => ScheduleInv'
  BY StepKeeps DEF Kept, ScheduleInv

\* Until openings may meet there is one lock holder, one queued round and one
\* document released, and its opening finds no other round open; and until the
\* admin opens one, every document shown open has a number the chain counted.
THEOREM ScheduleInvariant == Spec => []ScheduleInv
  BY InvInit, InvNext, PTL DEF Spec

\* The type invariant: numbers, ages and attempts keep to their bounds,
\* openRound's attempts to its retry limit.
THEOREM ScheduleTypes == Spec => []TypeOK
<1>1. ScheduleInv => TypeOK
  BY TypedTypes DEF ScheduleInv
<1>. QED BY <1>1, ScheduleInvariant, PTL

\* releaseQueuedRound and openRound: a round that users see open is open on the
\* chain under its number, whatever attempts that took and whoever else wrote
\* the document meanwhile.
THEOREM OpenTheorem == Spec => []OpenIsOpened
<1>1. ScheduleInv => OpenIsOpened
  <2>. SUFFICES ASSUME ScheduleInv, faults.scenario # "admin", NEW d \in In({"PREDICTING"})
                PROVE  doc[d].num <= last /\ doc[d].num # 0
    BY DEF OpenIsOpened
  <2>1. doc[d].num \in 1..last
    BY DEF ScheduleInv, OpenedOK, NoAdmin, OpenedNumbers
  <2>. QED BY <2>1, BoundsOK DEF ScheduleInv, Typed, ChainOK
<1>. QED BY <1>1, ScheduleInvariant, PTL

-----------------------------------------------------------------------------
(* The rounds that users see open are a series *)

LEMMA OneElement ==
  ASSUME NEW d
  PROVE  ~ (Cardinality({d}) > 1) /\ (CHOOSE x \in {d} : TRUE) = d
  BY FS_Singleton

LEMMA CurrentOpen ==
  ASSUME NEW d, ~ Met, In({"PREDICTING"}) = {d}
  PROVE  Current = doc[d].num
  BY OneElement DEF Current

LEMMA CurrentOpenNext ==
  ASSUME NEW d, ~ Met', In({"PREDICTING"})' = {d}
  PROVE  Current' = doc'[d].num
  BY OneElement DEF Current

LEMMA SeriesStep ==
  ASSUME ScheduleInv, Closes
  PROVE  Series!Close \/ UNCHANGED <<Current, shown>>
<1>1. CASE Met' \/ In({"PREDICTING"})' = {}
  <2>1. Current' = 0 /\ shown' = shown
    BY <1>1 DEF Current, Closes
  <2>. QED BY <2>1 DEF Series!Close
<1>2. CASE ~ Met' /\ In({"PREDICTING"})' # {}
  <2>1. PICK d : d \in In({"PREDICTING"})'
    BY <1>2
  <2>2. /\ ~ Met /\ DocsShrink /\ shown' = shown
    BY <1>2 DEF Closes
  <2>3. /\ In({"PREDICTING"})' \subseteq In({"PREDICTING"}) /\ doc'[d].num = doc[d].num
    BY <2>1, <2>2 DEF In, DocsShrink
  <2>4. In({"PREDICTING"}) = {d} /\ In({"PREDICTING"})' = {d}
    BY <2>1, <2>2, <2>3 DEF ScheduleInv, SeriesOK, Same
  <2>. QED BY <1>2, <2>2, <2>3, <2>4, CurrentOpen, CurrentOpenNext
<1>. QED BY <1>1, <1>2

LEMMA SeriesOpen ==
  ASSUME NEW d \in Docs, Shows(d)
  PROVE  \E n \in 1..MaxLast : Series!Open(n)
<1>1. Current' = doc'[d].num /\ Current = 0
  <2>1. Current = 0
    BY DEF Shows, Current
  <2>. QED BY <2>1, CurrentOpenNext DEF Shows
<1>. QED BY <1>1 DEF Shows, Series!Open

\* queueRound, releaseQueuedRound and openRound implement RoundSeries: one
\* round open at a time, and never a number that was open before.
THEOREM SeriesTheorem == Spec => ImplementsRoundSeries
<1>1. Init => Series!Init
  BY DEF Init, Series!Init, Current, In, NoDoc
<1>2. ScheduleInv /\ [Next]_vars => [Series!Next]_(Series!vars)
  <2>. SUFFICES ASSUME ScheduleInv, [Next]_vars PROVE Series!Next \/ UNCHANGED <<Current, shown>>
    BY DEF Series!vars
  <2>. QED BY StepKeeps, SeriesStep, SeriesOpen DEF Series!Next
<1>. QED BY <1>1, <1>2, ScheduleInvariant, PTL DEF Spec, Series!Spec, ImplementsRoundSeries

=============================================================================
