# Tokku: TLA+ models and proofs

Tokku is a betting game on Solana. Rounds of a market open, take bets, lock,
get an outcome from randomness and an attested generator, and pay. The money is
held by an on-chain program; a server drives the rounds with jobs and keeps a
database for its users; a round's account may be delegated to an ephemeral
rollup (ER) and written back.

This directory models that system in TLA+, checks the models with TLC and proves
theorems about them with TLAPS. Paths below are relative to `src/`; *lib.rs* is
`contracts/anchor/programs/tokku-engine/src/lib.rs`.

1. [Inventory](#1-inventory)
2. [Plan](#2-plan)
3. [The modules and the code](#3-the-modules-and-the-code)
4. [The runs](#4-the-runs)
5. [Bounds](#5-bounds)
6. [Fairness](#6-fairness)
7. [Proofs](#7-proofs)
8. [Where the documents and the code disagree](#8-where-the-documents-and-the-code-disagree)
9. [What is not modelled, and why](#9-what-is-not-modelled-and-why)

## 1. Inventory

| Component | State | Operations | What makes it correct |
|---|---|---|---|
| On-chain program: rounds and bets (lib.rs) | market, round and bet accounts, the vault | one per instruction: open, schedule lock, lock, place, settle and refund a bet, commit and reveal an outcome, settle the round, delegate, commit, undelegate | a bet is paid once and at the odds it was placed at; no bet after the lock; a settled round has no open bet; a write-back from the rollup undoes nothing |
| On-chain program: odds and outcomes | none (pure) | `compute_odds_bps`, `evaluate_winner`, `determine_entropy_winner` | agreement with the server's, the page's and the TEE's copies of the same rules; odds that are the chances less the edge |
| On-chain program: streaks, community entries, jackpot | their accounts, and the same vault | claims and contributions | a reward is claimed once; the vault pays what it holds |
| Rounds service, lifecycle worker, controller (`features/rounds`, `jobs/workers/round-lifecycle.worker.ts`) | Round documents, the lifecycle queue | lock, prepare the outcome, delegate, commit, reveal, publish, undelegate | betting is closed before an outcome exists; one attestation per round; what is committed is revealed; every round ends |
| Settlement worker (`jobs/workers/bet-settlement.worker.ts`) | Bet documents, leaderboard, the settlement job | undelegate, settle or refund every pending bet, record, close the round | the database says what the chain did; nothing is counted twice; no bet falls between settlement and refund |
| Bets service (`features/bets`) | Bet documents; in Redis a lock and an answer per signature, a list and a count per round | build a bet, check, encode and decode its selection, confirm it, refund a round | a document says what the chain holds, is made once per signature, is counted once |
| Schedulers (`jobs/schedulers`) | in-memory locks, queued rounds | queue, release, recover, expire, clean up | one open round per market; no round is forgotten |
| Chain client (`solana/tokku-program-service.ts`, `utils/transaction-confirmation.ts`) | none | sends transactions to the base chain, the rollup or the router, and waits | an answer means what the caller takes it for |
| TEE engine and its clients (`contracts/tee-engine`, `solana/tee-service.ts`, `solana/local-tee.ts`) | key and authentication caches | generate and sign an outcome, with fallbacks | the outcome is the rule's; one outcome per round |
| Community service (`features/community`) | CommunitySeed documents; in Redis a hash and a count per round | join a round, list who joined | a player joins once and is counted once |
| Web client: the page of a round (`round-detail-page.tsx`, `round-utils.ts`) | an option, a selection, a submission under way | offer options with odds, let them be changed, build, sign, confirm | a winner receives what the page offered; "Bet confirmed" means that there is a bet |
| Streaks, attestations services | their documents | read, change, write back | no update is lost |
| Authentication, users, markets, analytics, other pages, scripts | single writes, display | | |

How they interact. The server never moves money itself: it sends instructions
and learns what became of them by polling, with a timeout; a transaction it gave
up may still land. Jobs (BullMQ, in Redis) are attempted three times with
backoff, and again if their worker dies. The lifecycle worker runs one job at a
time; the lock endpoint and the schedulers run the same service functions
concurrently with it. Services share MongoDB documents that they read, keep over
awaits, and write without looking at what they have become. Users talk to the
chain directly and to the server afterwards: a bet is on the chain before it is
in the database. They may also send the chain a bet of their own making: `place_bet`
prices a selection by its market and `evaluate_winner` judges it by its kind, and
neither asks what the server's `validateSelection` asks.

What is hard here, and what the properties are for:

- *Two places for one account.* A delegated round is written on the rollup; a
  commit in flight carries an older copy; an undelegation hands the account back.
- *Money and counters.* Settlement, refunds and rewards pay from one vault, which
  may hold too little for all; `settle_round` trusts a counter.
- *Four copies of the rules.* Page, server, chain and engine each have theirs, in
  other number formats; an instruction cuts numbers to 8 and 16 bits.
- *Unknown outcomes of calls.* A chain call without an answer may have executed,
  may execute later or never. The router's answer is not looked at for errors.
- *Steps that fail or crash between a transaction and its record.*
- *Interleavings.* Worker against admin endpoints and schedulers, two executions
  of one job after a stall, confirmations against the lock and the settlement.
- *Retries.* Every step of a job may be repeated with part of its effects done.
- *Liveness.* Attempts run out; only some states are recovered.

`PROJECT.json` lists the components with their status and every hazard with its
line and the properties that cover it.

## 2. Plan

In order of importance. Stages 1 to 6 exist.

1. **TokkuEngine**, the program, with the abstract specifications **BetBook**
   (the wagers) and **RoundAccount** (one round account), both implemented by it,
   and proofs: types, the inductive invariant, safety, both refinements. *Done.*
2. **BetSettlement**, over BetBook: the settlement worker, the refund endpoint,
   late confirmations, crashes, stalls. *Done, safety proved.*
3. **RoundLifecycle**, over RoundAccount: the rounds service with the lifecycle
   worker, the lock endpoint, recovery, expiry. *Done, safety proved.*
4. **RoundScheduling**, with the abstract **RoundSeries**: the rounds of a market
   from the queue to the lock. *Done, safety and refinement proved.*
5. **ChainClient**, with the abstract **ChainCall**: what an answer of the client
   means, which the other modules take for granted. *Done, safety and refinement
   proved.*
6. **BetRules** and **BetPlacing**: a bet from the option on the page to the payout
   and the record; a bet from the button to the document. *Done, safety proved.*
7. Left to model: streaks once something updates them, the caches of the TEE client,
   sessions.

## 3. The modules and the code

`PROJECT.json` maps every definition to the lines it models.

| Module | What it is |
|---|---|
| `TokkuEngine` | the on-chain program: one action per instruction |
| `BetBook` | abstract: slips are taken while a book is open, and closed once |
| `RoundAccount` | abstract: one round account, in one place at a time |
| `BetSettlement` | the settlement of one revealed round; instantiates `BetBook` |
| `RoundLifecycle` | the life of one round; instantiates `RoundAccount` |
| `RoundSeries` | abstract: the numbers of a market's open rounds, one at a time |
| `RoundScheduling` | the schedulers and the opening of rounds; implements `RoundSeries` |
| `ChainCall` | abstract: what a caller may conclude from an answer |
| `ChainClient` | the methods of `TokkuProgramService`; implements `ChainCall` |
| `BetRules` | odds, selections, outcomes and payouts as four programs have them |
| `BetPlacing` | pages, wallets, the endpoints that record bets; community rounds |
| `TokkuEngine_proofs` | theorems about TokkuEngine, its two refinements among them |
| `RoundLifecycle_proofs`, `RoundOutcome_proofs` | theorems about RoundLifecycle: up to the lock, and after it |
| `BetSettlement_proofs`, `RoundScheduling_proofs`, `ChainClient_proofs`, `BetPlacing_proofs`, `BetRules_proofs` | theorems about the module they name |
| `MC...` | constants and symmetry for TLC |

**TokkuEngine.** `market`, `base[r]`, `bet[r][u]` and `vault` are the accounts;
`er[r]` is the rollup's copy while `delegated[r]`, and `inflight[r]` a commit on
its way back. A `require!` is a guard, an instruction that fails changes nothing.
Instructions that also touch a bet, the vault or the market need the base account
(`OnBase`: Anchor's owner check); those that write the round alone run wherever
it is writable (`Writable`, `Live`, `WriteLive`: `load_round` and `save_round`),
which is not the rollup once an undelegation is scheduled. `FinalizeCommit` is
the validator's write-back. Data is abstract: a commitment is the outcome it
binds, odds are a table, `PayReward` stands for every reward paid from the vault.
`unsettled_bets` saturates at `MaxU32`, `checked_mul` fails above `MaxU64`. One
clock serves both chains.

**BetSettlement.** `w[i]` is an execution of the job: its `pc` names the next
await, `todo` the bets it read, `cur` the one being recorded. `book` and `slip`
are the chain (BetBook), `owner` where the round account is, `betDb`, `roundDb`,
`undelegatedDb` and `board` the database. A transaction executes, is rejected in
simulation (a program error, which sends the round to the refunds), or is given up
(`limbo`), to land later or never. `job` has attempts, stalls and a holder: an
execution that lost the job after a stall goes on but no longer ends it. `admin`
is the refund endpoint, whose refunds run concurrently (`Promise.all`).

**RoundLifecycle.** `acct` and `home` are the account (RoundAccount), `oracle` a
pending VRF request, `doc` the Round document (`attestation`, `delegated` for
`delegateTxHash`, `undelegated` for `undelegateTxHash`), `jobs` the lock job, the
reveal job and the reveal job without an id that the fallback adds. `x[p]` is
what process `p` executes and the values it read: `worker`, `admin` (the lock
endpoint) or `expirer` (`autoOpenRounds` on a locked round). The service's
functions are the steps in their order; where the code reads the document again,
so does the model (`ReadCommit`, `ReadReveal`), and where it writes a status
without looking, so does the model (`RecordLock`, `MarkExpired`, `RecordReveal`,
`RecordExpiry`). The two ways out of `lockRound` are kept apart by `path`: only
the first execution delegates the round; a retry commits on the base chain. The
settlement job appears only as what it does to the round. `InvalidState` from
`lock_round` counts as locked, as in the code; a commit signed by another key is
`InvalidAttestation` and leads to delegation. The server never calls
`schedule_lock`, so `lock_round` has no time to wait for; the wait for
`MIN_LOCK_DURATION` before a commit is `CommitAfterLockWindow` of TokkuEngine and
taken as passed. The undelegate endpoint is `expirer`'s `undelegateRound` without
its check; the lifecycle queue's `undelegate-round` job is never added.

Which faults and other callers a behaviour of RoundLifecycle may have is `faults`, chosen
at the start from `Budgets`; the properties that need the worker to be alone say so.
What the server reads of an account is `RoundState`, the decoding of
`round-reader.ts`.

**RoundScheduling.** `doc[d]` is a Round document with an age instead of times
(fresh, due, stale), `job[d]` its lock job, `last` and `active` the market account,
`limbo` the numbers of openings that were given up. `auto[a]` is an execution of
`autoOpenRounds`: there may be two, because `SchedulerLock` is released by force
when it is held for 120 s, and then the first holder's release frees the lock of the
second. `release` is `releaseQueuedRounds`, which opens a batch and afterwards writes
its times and adds its lock jobs; `opener[o]` is `releaseQueuedRound` and `openRound`
with its attempts, for a document or the open endpoint; `recover` is the part of
`recoverStalledRounds` that fails queued rounds by the ids it read before. What
follows a lock is one status, "CLOSED". The abstract RoundSeries says what users see:
one open round, then none, then one of a greater number. `shown` records the
greatest number they saw.

**ChainClient.** A method of the client is data: what it waits for first, the legs it
tries (base chain, rollup or router, the commitment it waits for, the errors after
which the next leg is tried) and what it does at the end. `base`, `er` and `final`
are the round's account on the base chain, on the rollup, and as finalized. A
transaction of a leg is sent, executed, failed or lost, whatever its sender makes of
it; the router's transactions are taken for done when they are accepted. The
abstract ChainCall says what may be concluded: "final", "done" or only "sent". The
other server modules use these conclusions: a transaction that is answered has
executed, one that is given up may still land, and the router's answer says nothing.

**BetRules.** The state is one bet on its way: the option on the page, the selection
the server is sent, the Bet account with the edge it was priced at, the Bet document,
the outcome, and the two places the edge of the house is kept. A selection comes from
the page (`Choose`, `Adjust`), from another client of the server, whose schema only asks
for an object (`Request`), or from a wallet that sends the instruction itself
(`PlaceBetItself`), with any kind and fields in any market. `place_bet` is the
instruction, the same for all three. `buildRoundOptions`, `validateSelection`,
`encodeSelection`, `decodeSelection`, `calculateOdds`, `checkBetWon`,
`compute_odds_bps`, `evaluate_winner` and `buildOutcomeForMarket` keep their names and
rules, market by market; `placeBetData` is the masks with which the client of the program
writes a selection into the instruction, and `WidthFits` the range whose width
overflows the program's 16 bits (built with overflow checks). Odds are integers in
hundredths. The server and the page compute them in floating point; for every edge from
0 to 10000 and every ratio of chances that occurs, the result is the integer division of
the model. A payout is two computations: the chain's rounds stake times odds down to a
unit (`Payout`), the record's is the product as it is (`Settle`). An outcome is drawn
from all the engine may produce, so its hash inputs are left out.

**BetPlacing.** `page[g]` is `handleBet` on one page, from building the transaction
over the wallet's two calls (the second with the server's blockhash, so with another
signature) to the confirmation. `txs` are the transactions wallets sent; each
executes or fails once, at any time or never: as the bet account exists at most once
per player and the missing token accounts are created by the transaction, the second
of two bets of a player, or of two first bets of a market, fails. `requests` are the
executions of `confirmBet` and of joining a community round: lock, look-up, status,
poll, document, answer, list, count, each a step. The lock's 30 s are an action that
may happen at any time. `reader` is a call of `getCachedCommunityRound` between its
read of the documents and its write of the hash. The page's preparation of accounts
for a delegated round is left out: rounds are delegated when they are locked, when no
bet is built any more.

**How they fit.** TokkuEngine implements BetBook (`ImplementsBetBook`) and, for
every round, RoundAccount (`ImplementsRoundAccount`): both are checked by TLC and
proved. The server's modules therefore use the small specifications for the chain,
and what they show holds over the program with its copies, counter and clock.
RoundScheduling ends where RoundLifecycle begins, at a predicting round that may or
may not have its lock job; BetPlacing ends where BetSettlement begins, at PENDING
documents, some of which are late; BetRules is the data of both.

## 4. The runs

| Run | States | What it shows |
|---|---|---|
| `engine_rollup` | 293,442 | A round is delegated, committed and undelegated at any moment: the counter stays exact on every copy, the copies stay in order, the base account never goes back, a commitment waits for the lock window; the copies together are one RoundAccount. |
| `engine_bets` | 337,536 | Two bettors, funding, rewards and a changing edge: the vault never overdraws, the books balance, a settled round holds no open bet, every bet precedes the lock; BetBook is implemented, so a closed bet never changes and every bet is paid at its own odds. |
| `settlement_races` | 2,207,116 | Two overlapping executions, an admin's refunds, a late confirmation, one fault of each kind: the database never contradicts the chain, nothing is counted twice, a record is lost only to a fault. |
| `settlement_ends` | 56,801 | Under fairness every pending bet is closed on the chain and the job ends, with one transaction unanswered, one refund request and a vault that cannot pay everybody: unless the vault is then short of the stake itself, or the unanswered call was the bet's refund. |
| `lifecycle_worker` | 2,763,722 | One lifecycle with one fault of each kind, or with the lock endpoint and an expiry among the worker's steps: betting closes before an outcome exists; with the worker alone the attestation is final, what is committed is revealed, what is shown is on the chain, only a revealed round is settled, a round that is over stays over (up to a crash). |
| `lifecycle_live` | 3,850 | Under fairness, a bet recorded in time reaches the settlement job and every round ends, with two calls unanswered. |
| `lifecycle_paid_doc` | violation | A bet confirmed just after the documents were counted is left in a FAILED round (section 8). |
| `scheduling` | 493,620 | Two executions of `autoOpenRounds`, the release, the recovery and the deletions, with a fault, or a scheduler lock released by force, or a call of the open endpoint: a round shown open is open on the chain under its number; while openings cannot meet, the rounds users see are a RoundSeries. |
| `chain` | 754,060 | Any two of the client's shapes of calls at once, with and without a router, on a round at any stage and on either chain: an answer promises what ChainCall says, an undelegation that is reported is complete, every call ends. |
| `rules` | 4,476,000 | Every option of every market, kept or changed by hand, what other clients ask the server for and what wallets send the chain, at two stakes and two edges that may change on the way, against every outcome: a selection survives the instruction's masks, the record agrees with the chain to less than a unit, a winner receives what the page offered, no bet of a kind its market prices is worth more than its chances less the edge; with the exceptions the properties name. |
| `placing` | 2,632,356 | Two players, one with two pages, wallets that throw, repeated confirmations, expiring locks, lost answers, a crash, a round that closes meanwhile: a document says what the chain holds, a confirmed page has one, nothing is counted twice. |
| `placing_proof_doc` | violation | A document may carry the signature of a transaction that failed (section 8). |

`CHECK_DEADLOCK FALSE` is in every configuration: clock, rounds, attempts, calls
and faults are bounded, and a settled round with its jobs done has nothing left
to do.

What the runs also taught, by the conditions the properties need. With the lock
endpoint called while the worker runs, `AttestationIsFinal`, `RevealedIsOnChain` and
`CommitmentHonoured` all fail (two executions attest twice, and on the rollup nothing
compares the reveal with the commitment). With `autoOpenRounds` expiring a round whose
bet is being confirmed, a settlement may be queued for an account without an outcome.
After a crash behind the queueing of the settlement, the repeated reveal takes a
SETTLED document back to REVEALED. With the open endpoint called while a round is
released, `OpenIsOpened` fails: the endpoint writes its opening over the document that
has the number.

Every property of every passing run has a mutant in `PROJECT.json`: a change of
one mapped definition that a plausible mistake in the code would make, under
which the property fails. The mutated forms stand next to the definitions they
mutate.

## 5. Bounds

- *Engine.* One or two users and one round: rounds share only the market's counter
  `last_round`, its edge and the vault, and the theorems cover any number. The
  clock goes to 2 with `MIN_LOCK_DURATION` 1 and `MAX_PREDICTING_DURATION` 2: enough
  for a bet before, at and after the scheduled lock and for a commit too early.
  `MaxU32` 2 is at least the number of users, as in reality.
- *Settlement.* A winner and a loser, one of them confirmed late, a vault that can
  pay one but not both (so that refunds follow a settlement); two executions, three
  attempts as in `defaultJobOptions`, one stall, one refund request, one fault of
  each kind. The liveness run has three bets and no stall, and a vault of 30 where the
  winner's 18 and two stakes of 10 need 38: without any fault the winner may be paid,
  one loser refunded by the admin, and the chain then refuses to settle or to refund the
  other. One transaction is unanswered, because two can use up the attempts: the claim
  does not hold of them.
- *Lifecycle.* One round, one bet, two results that may be attested with or without
  the trusted key, three attempts. `lifecycle_worker`: one fault of each kind, or one
  lock call and one expiry (`MCBudgets`). `lifecycle_live`: two calls without an
  answer, which three attempts survive.
- *Scheduling.* One market, two documents (the one that is open or ending and the one
  that is queued behind it; identities are used again after a deletion), two
  executions of `autoOpenRounds`, two of the eight attempts of an opening, two rounds
  on the chain, one fault or one meeting. Markets share nothing but the timers.
- *Chain.* Two callers, since what a call can meet is another call's transaction that
  lands late; of the three to five repetitions of a leg two (`Polls`), a third adds
  another transaction of the same kind; one method of each shape.
- *Rules.* All ten markets; edges of 2 % and of 60 %, at which odds fall below one;
  three and four partitions; typed numbers at, inside and outside every bound, and one
  that the masks take back into its bounds (`TypedNumbers`); of a wallet's selections
  every kind with fields at the ends of their range (`WalletSelections`); a stake that the
  odds divide and one that they do not; scores that tie and that differ; one change of
  the edge. Outcomes are not bounded.
- *Placing.* Two players of whom one has two pages: enough for two bets of one player
  and for two first bets of a market. Two wagers, so that a record can hold the wrong
  one. `Troubles` is one of: two bets and a fault; one bet confirmed three times and a
  fault; three joins, a read of the cache and a fault.
- The budgets of each module (`Budgets`, `MaxTimeouts`, `MaxStoreErrors`, `MaxCrashes`,
  `MaxStalls`, `MaxRefunds`, `MaxFaults`, `MaxMeetings`, `MaxChanges`) say in each configuration how
  many faults or calls a run covers.

## 6. Fairness

Only what the server's runtime gives: a worker takes waiting jobs and its awaits
return or time out (`WF` of the worker's steps), an accepted request runs to its
end, the rollup's validator finishes an undelegation, the oracle answers a
request, transactions land or expire, `recoverStalledRounds` is a repeated timer.
Of the chain client, `WF` of a call's own steps: a fetch of an RPC node returns or
fails, and the client's loops count; nothing is assumed of what the chains do with its
transactions. Scheduling and placing claim no liveness.
No fairness is assumed of users, admins, faults or crashes. The liveness runs
leave out the faults after which the code gives up: the undelegation or
delegation without an answer and the failed write after it (sections 8 and 4
show what happens then).

## 7. Proofs

Every theorem holds for every value of the constants that satisfies the assumptions
named in the modules. Of TokkuEngine: bounds, amounts and odds are numbers; `Pending`
and `None` are no outcomes; `Users` is finite and no larger than `MaxU32`, which is
what keeps the saturating counter exact. Of the others: markers such as `None` are
none of the values they stand beside, budgets are natural numbers, a page has one
player, an execution at least one attempt. `ChainClient` is proved for any subset of
`ClientMethods`, the methods as the code has them, and any positive number of polls.
`BetRules` is proved for any of the ten markets, any partition into 1 to 20 ranges, any
edge of the house from 0 to 10000 (the program's own bound), any typed integers, any
selection of bytes and 16-bit numbers a wallet may send, any positive stake and any
entropy scores. `MAX_STREAK_TARGET` is assumed to be a 16-bit number: the server's
configuration accepts any, and a greater one would let the masks cut a target.

| Theorem | Establishes |
|---|---|
| `TypeCorrect` | `Spec => []TypeOK` of TokkuEngine |
| `EngineInvariant` | `Spec => []EngineInv`, the inductive invariant, most of whose conjuncts the runs check too |
| `CounterTheorem`, `SettledTheorem`, `BetsPrecedeLockTheorem`, `RollupTheorem` | the safety invariants in it |
| `WindowTheorem` | `CommitAfterLockWindow`, from `WindowInvariant` |
| `BooksTheorem` | `BooksBalance`: where the money is, for any number of bets and rounds |
| `BaseTheorem`, `BetFinalTheorem` | `BaseNeverRollsBack`; `BetIsFinal`, which TLC sees as part of BetBook |
| `Refinement` | TokkuEngine implements BetBook |
| `RoundRefinement` | every round of TokkuEngine implements RoundAccount |
| `SettlementInvariant`, `SettlementTypes` | `SettlementInv` and `TypeOK` of BetSettlement |
| `MatchesTheorem`, `CountedTheorem`, `LosesTheorem` | `DbMatchesChain`, `CountedOnce`, `OnlyFaultsLoseRecords` |
| `LockedInvariant`, `LockedTheorem` | `LockedInv` and `LockedOnChain` of RoundLifecycle, for any budget of faults, calls and crashes |
| `ShapeInvariant`, `LifecycleTypes` | `TypeOK` of RoundLifecycle, and what each step holds in memory |
| `RevealInvariant`, `SettleTheorem` | `SettleOnlyRevealed` |
| `AttestInvariant`, `FinalTheorem` | `AttestationIsFinal` |
| `OutcomeInvariant`, `RevealedTheorem`, `CommitmentTheorem` | `RevealedIsOnChain`, `CommitmentHonoured` |
| `EndingInvariant`, `TerminalTheorem` | `TerminalStays` |
| `ScheduleInvariant`, `ScheduleTypes`, `OpenTheorem` | `TypeOK` and `OpenIsOpened` of RoundScheduling |
| `SeriesTheorem` | RoundScheduling implements RoundSeries |
| `ClientInvariant`, `ClientTypes`, `BackTheorem` | `TypeOK` and `BackOnBase` of ChainClient |
| `CallTheorem` | ChainClient implements ChainCall |
| `PlacingInvariant`, `RecordsTheorem`, `ConfirmedTheorem`, `CountedTheorem` | `RecordsAreBets`, `ConfirmedIsRecorded`, `CountedOnce` of BetPlacing |
| `TypeCorrect`, `RecordsMatch`, `ShownIsPaid` | `TypeOK`, `RecordsAgree`, `PaidAsShown` of BetRules |
| `SelectionSurvives` | `RecordedAsAsked` of BetRules: no number the server lets through is cut by the masks |
| `PriceIsFair` | `FairPrice` of BetRules: no selection a wallet can send is worth more than its price, but for those of another kind; a server's is worth no less, counted |

All are arranged alike: a module's types first, then one lemma per action (or per
kind of action) for each part of the inductive invariant, then the theorems, which
project it. What the invariants add to the properties is this.

*EngineInv.* The counter alone is not inductive: a commit in flight overwrites the
base account, so the counter of the copy in flight must be right too, and it stays
right only because bets cannot move while the base account is delegated. `EngineInv`
therefore speaks of every copy that is or may become the base account (`CopiesOf`):
each counts the open bets exactly, knows its lock, and the copies are ordered
(`CopiesInOrder`). `TokkuEngine_proofs` has one lemma for all writes wherever they
land (`WriteLiveStep`, from `Fits` and `Ahead`), one for writes of a base account
(`BaseWriteStep`), and one each for placing and closing a bet (where the finite set
theorems count), delegating, committing and finalizing.

*CommitAfterLockWindow.* `WindowInv` says it of all three copies, read or not, and
that a copy with a commitment is past the lock: `lock_round`, the only writer of
`locked_at`, can then not run again. That the copies are in order is not needed.

*BooksBalance.* The sums are folds over all bets. `LeastNatural` and `LeastSubset`
(from the well-foundedness of the naturals) replace induction: the set of subsets for
which a claim fails would have a smallest member. With them `SumsExist` and
`SumUnfolds` justify the recursion in the fold, and `SumChanges` says that a sum
changes by what one of its terms does. The books need to know of a bet that one not
placed holds no stake and one not closed has paid nothing (`Unpaid`): a payout is
written over a zero, which is where paying twice would show.

*BetBook.* A book is the live copy's status, a slip the bet account without its
clock. Placing and closing need the invariant: the live copy of an undelegated
round is the base account, and `settle_round` closes a book only when the counter
is zero, which by `CounterExact` means that no slip is open.

*RoundAccount.* The account is the live copy, its home follows from `delegated`
and `inflight`. The return of an account needs that the undelegating commit
carries the rollup's present copy (`CopiesInOrder`); settling needs an extra
invariant, that a copy with a reveal time has an outcome (`RevealedHasOutcome`),
because `settle_round` accepts either.

*BetSettlement.* The chain closes a slip once, so whoever closed it is the only one to
record and count it, until it has (`OneHolder`, `WorkerRecords`, `AdminRecords`): the
document is still PENDING and the leaderboard untouched. A late confirmation writes a
document PENDING without looking; it has the bet to itself because executions and
refunds take up only bets they read as PENDING (`ConfirmsUnseen`). The invariant is
one formula per bet, and most steps are shown to leave all bets but one alone.

*LockedOnChain.* The property is not inductive: the document is written steps
after the account was locked. `LockedInv` says what may have happened while the
account is still Predicting: the document is as `openRound` left it, no settlement
is queued, and no process has passed the lock step or holds an attestation. The
proof rests on one fact about the chain (`NeverReopened`): no transaction, callback
or undelegation takes an account back to Predicting. So a step that ends with a
predicting account began with one, and `LockedInv` leaves it few actions.

*The outcome of a round* (`RoundOutcome_proofs`) is proved in layers, each of which
may use those before it. `ShapeInv`: types, and that a process about to use an
attestation holds one, and that the worker's job is active. `RevealInv`: as long as
nothing expired, an account without an outcome has nobody past the reveal, no
settlement queued, and no undelegation on the way. `AttestInv`: while the worker is
alone, it attests only where the document has no attestation, which is why no retry
attests again. `OutcomeInv`: everything that carries an outcome (a process's memory,
a transaction in limbo, commitment, account, document) carries the one of the
document's attestation. This is what makes up for the rollup, whose reveals compare
nothing. `EndingInv`: without crashes one reveal job at most is at work and the lock
job is over before it, so nobody is left to write a status over an ended round.

*RoundScheduling.* As long as openings cannot meet, the scheduler's lock has one
holder, so one round is queued, so one document is in the release's batch, and its
opening finds no other round open: `QueueOK` and `SeriesOK` chain these. A number comes
from the chain's counter and is shown only after the chain accepted it
(`OpenedNumbers`). For RoundSeries each step is classified by what users see: it shows
a round with a new number (`Shows`), or none that was not shown before (`Closes`).

*ChainClient.* The copies are layers (`LayersOK`): what is finalized is on the base
chain, and what the rollup did is written back before the account returns. A call's
answer is earned earlier than it is given (`Earned`): from the confirmation on, what
`Promise` says is true, and it stays true because operations are only ever added,
however late other transactions land. `BackOnBase` reads the finalized owner; that it
is still the owner needs that nobody delegates (`OwnerOK`).

*BetPlacing.* A bet account never changes once it exists, so what a confirmation read
of it is still so when it writes (`RequestsKnow`); a page waits for a signature of its
own (`PagesKnow`); a document has one maker, who counts it once, so the counters never
exceed what is listed less what is still to be counted (`BetsCounted`, `SeedsCounted`).

*BetRules.* The rules are constant operators, so the invariant (`RulesInv`) is only a
record of who computed what: the option is one `buildRoundOptions` made at the edge it
notes (`OptionKept`); the selection is one the market can be asked for
(`SelectionKept`); the account holds what `compute_odds_bps` says of its selection, and,
if the server built it, what `placeBetData` and `encodeSelection` make of a selection
`validateSelection` let through (`AccountKept`); the record is what `decodeSelection`
and `calculateOdds` make of the account, the verdicts what `evaluate_winner` and
`checkBetWon` say of the outcome. The substance is in the lemmas about these operators.
Behind the odds of all programs stands one ratio; that the odds fit 16 bits follows from
the ratio being at least one in 256. That the masks change nothing is shown from
what `validateSelection` lets through, market by market, so decoding undoes encoding; and
the verdicts agree because of it, and only because the server lets through no digit
above 9 and no remainder above 2: the chain reduces them, the worker does not. The
recorded payout is the product the chain rounds, whence the unit.

*FairPrice* counts. The outcomes of a market are put in one-to-one relation with numbers
in a row, and so are those a selection wins on. Of a wallet's selection this gives
an upper bound, for every kind and all fields: a range that reaches outside 1 to 100 or
is upside down wins on no more values than its width, a field the engine never draws on none. Of a server's selection the count is exact. For the
patterns it counts the values from 0 to 999 that `isPrime`, `isFibonacci`,
`isPerfectSquare`, the last digit, `isPalindrome` and parity leave to each other in the
engine's order: five of the seven are listed in tables that are shown to be
complete, free of repetitions and correct, the even numbers are counted as 500 less the 63
that were taken before, the last pattern is the rest. The numbers are those of
`PatternCounts`, the table three programs carry; the one exception is 0, which the chain
does not pay. What is left is arithmetic: a quotient by a product, multiplied back, is
less than one factor too low.

*Only model-checked* is what is out of the prover's reach, liveness under fairness and
`ENABLED`: `PendingBetsClose`, `SettlementEnds`, `BetReachesSettlement`, `RoundEnds` and
`CallEnds`. Every other property of every passing run is a theorem.

## 8. Where the documents and the code disagree

Shown by runs:

- `lifecycle_paid_doc`: README.md:18 says "Winners are paid automatically (or refunded
  if something fails)". `lockRound` counts documents; a bet on the chain whose
  confirmation passed its check but has not written its document is not counted, the
  round is FAILED, and no job looks at the bet again. The admin's refund endpoint
  still can.
- `placing_proof_doc`: README.md:64 lists "Bet transaction (proof you placed the bet)"
  among what can be verified. A confirmation names a signature and a bet account, and
  only the account is looked at. A player who bets twice on a round, on two pages or
  again on one, has one bet on the chain and two documents, both with the content of
  that bet; the second carries the signature of the transaction that failed.

Met while translating; the models say so where it matters:

- lib.rs:60 says of the VRF "callback will set outcome" and lib.rs:87 "sets the
  outcome based on randomness". The callback stores the randomness; the outcome is set
  later by a reveal.
- README.md:18 again: if the undelegation executes but its answer does not arrive,
  nothing is recorded; every later attempt undelegates an account that has left, which
  is not an on-chain error for the worker's classifier, so neither settlement nor
  refunds are tried, and after three attempts the job is over.
- The page offers JACKPOT options that `validateSelection` refuses, and a streak of 7
  where the server allows 5. A STREAK_METER round has no outcome, so its bets are never
  won; its odds are 2^target on the page and two bins on the chain.
- SHAPE_COLOR: 255 (any) in a field is taken by the record for a value, so a bet that
  won on the chain may be recorded as lost (`Differs`). PATTERN_OF_DAY: the value 0
  matches its pattern in the record and not on the chain, so a Fibonacci bet wins on
  one value fewer than its odds count. ENTROPY_BATTLE: a tie goes to the first side in the
  engine and to nobody on the chain.
- The chain prices a bet by its market and judges it by the selection's kind, and asks
  of neither that they fit: a wallet's selection of another kind in EVEN_ODD, LAST_DIGIT,
  MODULO_THREE or JACKPOT wins on other values than the price was made for
  (`Mispriced`). The server builds none. FairPrice says of all other selections, whatever
  their numbers, that they are worth at most their price.
- `validateSelection` looks at a PICK_RANGE selection only if its type is "range" or
  "single". Any other type with a value is encoded as a single number, unchecked, and its
  value cut to 16 bits (`Unchecked`). `schemas.ts` has a schema that would refuse it; no
  route uses it.
- The worker records stake times odds as it is, the chain pays it rounded down to a unit:
  33 units at 1.96 are paid as 64 and recorded as 64.68.
- Odds are at least 1.00 on the page and in the record; the chain pays less when the
  edge is high. The tolerance of a COMMUNITY_SEED selection is priced by the page and
  not encoded.
- After an option's inputs are changed, the page goes on showing the option's odds.
- README.md:87 lets players' bytes decide a community round; `prepareOutcome` passes
  none, so the final byte is 0: a bet on 0 wins for certain, and `FairPrice` speaks only
  of the markets whose outcomes are equally likely (`Uniform`). `finalizeCommunityRound` throws before it writes.

## 9. What is not modelled, and why

- Formatting, encoding of accounts and instructions beyond the fields of a selection,
  logging, HTTP wiring, the pages that only display, scripts: no property is about
  them.
- Cryptography: a signature verifies or not. Attestations are queries and checks of
  signatures; sessions and users are single writes.
- Permission groups and the pattern configuration: single writes that nothing else
  in the program reads. `matches_pattern` is called by nothing.
- The program's own streaks, community entries and jackpot beyond their transfers: the
  server calls none of them. Its streak documents are created and never updated:
  `updateStreakProgress` has no caller.
- `auto-lock-rounds.ts`: nothing imports it. The block of the settlement worker
  after `settleRound` that undelegates again: it cannot run, `undelegateTxHash` being
  recorded before. The page's preparation for delegated rounds: no bet is built for
  one.
- Statistics: leaderboards beyond the settlement's own, probabilities, analytics.
  They read and change nothing.
- Two rounds at once on the server after their lock: the lifecycle and settlement of
  rounds share no state but the vault and the queue's order.
- Numbers typed or sent are whole: fractions, which `validateSelection` lets through
  where it only compares, are dropped by the masks of the instruction.
- In BetPlacing a confirmation names the bet account of its own player, as the page's
  does. The endpoint takes account and signature from the client and compares neither
  with the caller; what BetPlacing shows holds for confirmations pages make.
- In RoundScheduling the recovery's look at a stalled round's job and its new job are one
  step; in RoundLifecycle the transaction hash of a commitment, which is only
  displayed, is written with the step that commits.
- In RoundLifecycle, a job stalling while the server lives (the lock endpoint gives
  the same overlap), the `undelegate-round` job, and a second reveal job without an
  id at the same time as the first.
- The caches of the TEE client (keys, authentication tokens): what they can do to a
  round, another key or another answer, is in RoundLifecycle.
