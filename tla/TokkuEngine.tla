---------------------------- MODULE TokkuEngine ----------------------------
(***************************************************************************)
(* The on-chain program contracts/anchor/programs/tokku-engine: one        *)
(* market, its rounds, the bets of its users and the vault that holds the  *)
(* stakes.  One action per instruction; an instruction that returns an     *)
(* error changes nothing, so its require! conditions are the guards.       *)
(*                                                                         *)
(* A round account lives on the base chain, or is delegated to an          *)
(* ephemeral rollup (ER).  While it is delegated the base account is       *)
(* owned by the delegation program: instructions sent to the base chain    *)
(* can no longer write it, and the rollup works on a copy that reaches the *)
(* base account only when a commit the program scheduled is finalized.     *)
(*                                                                         *)
(* Data is abstracted to what the properties tell apart: a commitment is   *)
(* the outcome it binds, an account key is its index, an attested          *)
(* signature is one that verifies.                                         *)
(***************************************************************************)
EXTENDS Integers, FiniteSets, FiniteSetsExt

CONSTANTS
  Users,           \* wallets that bet
  MaxRounds,       \* bound on the rounds of the market
  MaxTime,         \* bound on the chain clock
  MaxVault,        \* bound on the vault balance external transfers reach
  Stakes,          \* stakes a user may choose (u64, > 0)
  Amounts,         \* amounts of the transfers that are not bets
  Selections,      \* what a user may bet on
  Outcomes,        \* outcomes a reveal may carry
  CommunityOutcomes, \* outcomes finalize_community_round computes
  WinsOn,          \* WinsOn[s]: the outcomes for which selection s wins
  Edges,           \* values of house_edge_bps
  OddsBps,         \* OddsBps[e][s]: compute_odds_bps of s under edge e
  Randomness,      \* values a VRF callback may deliver
  MinLockDuration, \* MIN_LOCK_DURATION
  MaxPredicting,   \* MAX_PREDICTING_DURATION
  MaxU32,          \* largest value of the u32 counter unsettled_bets
  MaxU64,          \* largest value of a u64 product
  Pending,         \* OutcomeType::Pending
  None             \* Option::None, and the all-zero hash

RoundIds == 1 .. MaxRounds

ASSUME BoundsAssumption ==
  /\ MaxRounds \in Nat
  /\ MaxTime \in Nat
  /\ MaxVault \in Nat
  /\ MinLockDuration \in Nat
  /\ MaxPredicting \in Nat
  /\ MaxU32 \in Nat
  /\ MaxU64 \in Nat

ASSUME AmountsAssumption ==
  /\ Stakes \subseteq Nat
  /\ Amounts \subseteq Nat

ASSUME OddsAssumption ==
  /\ WinsOn \in [Selections -> SUBSET (Outcomes \cup CommunityOutcomes)]
  /\ OddsBps \in [Edges -> [Selections -> Nat]]

ASSUME OutcomesAssumption ==
  /\ Pending \notin Outcomes \cup CommunityOutcomes
  /\ None \notin Outcomes \cup Randomness

\* One bet account per user and round: the counter of a round can count them.
ASSUME UsersAssumption ==
  /\ IsFiniteSet(Users)
  /\ Cardinality(Users) <= MaxU32

VARIABLES
  market,    \* the market account
  base,      \* base[r]: the round account as the base chain stores it
  er,        \* er[r]: the copy the rollup works on, while r is delegated
  delegated, \* delegated[r]: the delegation program owns the base account
  inflight,  \* inflight[r]: a commit the rollup scheduled, not yet finalized
  bet,       \* bet[r][u]: the bet account of u for round r
  vault,     \* balance of the market's vault token account
  external,  \* ghost: net amount moved into the vault by anything but bets
  clock      \* Clock::get().unix_timestamp

rounds == <<base, er, delegated, inflight>>
vars == <<market, base, er, delegated, inflight, bet, vault, external, clock>>

-----------------------------------------------------------------------------
(* The accounts *)

Market == [is_active : BOOLEAN, last_round : 0 .. MaxRounds,
           house_edge_bps : Edges]

RoundStatus == {"Absent", "Predicting", "Locked", "Settled"}

Round == [status : RoundStatus,
          inputs_hash : Randomness \cup {None},
          outcome : Outcomes \cup CommunityOutcomes \cup {Pending},
          unsettled_bets : Nat,
          opened_at : Nat,
          lock_scheduled_at : Nat,
          locked_at : Nat,
          commitment_hash : Outcomes \cup {None},
          revealed_at : Nat]

AbsentRound == [status |-> "Absent", inputs_hash |-> None,
                outcome |-> Pending, unsettled_bets |-> 0, opened_at |-> 0,
                lock_scheduled_at |-> 0, locked_at |-> 0,
                commitment_hash |-> None, revealed_at |-> 0]

\* A bet account.  exists is FALSE until place_bet initialises it.
Bet == [exists : BOOLEAN, stake : Nat, selection : Selections \cup {None},
        odds_bps : Nat, settled : BOOLEAN, won : BOOLEAN, payout : Nat,
        placed_at : Nat]

NoBet == [exists |-> FALSE, stake |-> 0, selection |-> None, odds_bps |-> 0,
          settled |-> FALSE, won |-> FALSE, payout |-> 0, placed_at |-> 0]

\* Scheduled commits: the copy to write back, and whether to undelegate.
Commit == [copy : Round, undelegate : BOOLEAN]
NoCommit == [copy |-> AbsentRound, undelegate |-> FALSE]

Open(b) == b.exists /\ ~b.settled
OpenBets(r) == {u \in Users : Open(bet[r][u])}

SaturatingAdd(n) == IF n < MaxU32 THEN n + 1 ELSE MaxU32
SaturatingSub(n) == IF n > 0 THEN n - 1 ELSE 0

HasRevealed(rd) == rd.revealed_at > 0 \/ rd.outcome # Pending

-----------------------------------------------------------------------------
(* The market *)

\* initialize_market; the vault of the market exists and is empty.
Init ==
  /\ \E e \in Edges : market = [is_active |-> TRUE, last_round |-> 0,
                              house_edge_bps |-> e]
  /\ base = [r \in RoundIds |-> AbsentRound]
  /\ er = [r \in RoundIds |-> AbsentRound]
  /\ delegated = [r \in RoundIds |-> FALSE]
  /\ inflight = [r \in RoundIds |-> NoCommit]
  /\ bet = [r \in RoundIds |-> [u \in Users |-> NoBet]]
  /\ vault = 0
  /\ external = 0
  /\ clock = 1

ToggleMarket(active) ==
  /\ market' = [market EXCEPT !.is_active = active]
  /\ UNCHANGED <<rounds, bet, vault, external, clock>>

SetHouseEdge(e) ==
  /\ market' = [market EXCEPT !.house_edge_bps = e]
  /\ UNCHANGED <<rounds, bet, vault, external, clock>>

\* Seconds pass on the chain.
Tick ==
  /\ clock < MaxTime
  /\ clock' = clock + 1
  /\ UNCHANGED <<market, rounds, bet, vault, external>>

-----------------------------------------------------------------------------
(* Instructions that need the round account on the base chain: they also    *)
(* write the bet, the vault or the market, which are never delegated.       *)

\* Mutated form: the owner of the base account is not looked at.
OnBaseOrDelegated(r) == base[r].status # "Absent"

\* Anchor's owner check and the runtime's write check on a base account.
OnBase(r) == base[r].status # "Absent" /\ ~delegated[r]

OpenRound ==
  LET r == market.last_round + 1 IN
  /\ market.is_active
  /\ market.last_round < MaxRounds
  /\ base[r].status = "Absent"
  /\ market' = [market EXCEPT !.last_round = r]
  /\ base' = [base EXCEPT ![r] = [AbsentRound EXCEPT !.status = "Predicting",
                                                     !.opened_at = clock]]
  /\ UNCHANGED <<er, delegated, inflight, bet, vault, external, clock>>

TakeStake(u, r, s, stake) ==
  /\ stake > 0
  /\ vault' = vault + stake
  /\ bet' = [bet EXCEPT ![r][u] =
       [exists |-> TRUE, stake |-> stake, selection |-> s,
        odds_bps |-> OddsBps[market.house_edge_bps][s], settled |-> FALSE,
        won |-> FALSE, payout |-> 0, placed_at |-> clock]]
  /\ base' = [base EXCEPT ![r].unsettled_bets = SaturatingAdd(@)]
  /\ UNCHANGED <<market, er, delegated, inflight, external, clock>>

\* Mutated form: still accepts a bet in the second the lock is scheduled for.
PlaceBetUntilLock(u, r, s, stake) ==
  /\ OnBase(r)
  /\ base[r].status = "Predicting"
  /\ base[r].lock_scheduled_at > 0 => clock <= base[r].lock_scheduled_at
  /\ ~bet[r][u].exists
  /\ TakeStake(u, r, s, stake)

\* place_bet; the bet account is created with init, so it must not exist.
PlaceBet(u, r, s, stake) ==
  /\ OnBase(r)
  /\ base[r].status = "Predicting"
  /\ base[r].lock_scheduled_at > 0 => clock < base[r].lock_scheduled_at
  /\ ~bet[r][u].exists
  /\ TakeStake(u, r, s, stake)

\* Mutated form: pays without looking at the vault.
CloseBetUnfunded(u, r, won, payout) ==
  /\ vault' = vault - payout
  /\ bet' = [bet EXCEPT ![r][u].settled = TRUE, ![r][u].won = won,
                        ![r][u].payout = payout]
  /\ base' = [base EXCEPT ![r].unsettled_bets = SaturatingSub(@)]
  /\ UNCHANGED <<market, er, delegated, inflight, external, clock>>

\* The transfer, the bet's final state and the counter are one instruction.
CloseBet(u, r, won, payout) ==
  /\ vault >= payout
  /\ vault' = vault - payout
  /\ bet' = [bet EXCEPT ![r][u].settled = TRUE, ![r][u].won = won,
                        ![r][u].payout = payout]
  /\ base' = [base EXCEPT ![r].unsettled_bets = SaturatingSub(@)]
  /\ UNCHANGED <<market, er, delegated, inflight, external, clock>>

Winnings(b) == (b.stake * b.odds_bps) \div 100

\* Mutated form: the odds are computed when the bet is settled.
SettleBetAtCurrentOdds(u, r) ==
  LET b == bet[r][u]
      odds == OddsBps[market.house_edge_bps][b.selection] IN
  /\ OnBase(r)
  /\ base[r].status = "Locked"
  /\ HasRevealed(base[r])
  /\ Open(b)
  /\ \/ /\ base[r].outcome \in WinsOn[b.selection]
        /\ CloseBet(u, r, TRUE, (b.stake * odds) \div 100)
     \/ /\ base[r].outcome \notin WinsOn[b.selection]
        /\ CloseBet(u, r, FALSE, 0)

\* evaluate_winner decides; checked_mul fails a payout that overflows.
SettleBet(u, r) ==
  LET b == bet[r][u] IN
  /\ OnBase(r)
  /\ base[r].status = "Locked"
  /\ HasRevealed(base[r])
  /\ Open(b)
  /\ \/ /\ base[r].outcome \in WinsOn[b.selection]
        /\ b.stake * b.odds_bps <= MaxU64
        /\ CloseBet(u, r, TRUE, Winnings(b))
     \/ /\ base[r].outcome \notin WinsOn[b.selection]
        /\ CloseBet(u, r, FALSE, 0)

\* Mutated form: the refund is paid but not written to the bet account.
RefundBetUnrecorded(u, r) ==
  /\ OnBase(r)
  /\ base[r].status = "Locked"
  /\ Open(bet[r][u])
  /\ vault >= bet[r][u].stake
  /\ vault' = vault - bet[r][u].stake
  /\ bet' = [bet EXCEPT ![r][u].settled = TRUE]
  /\ base' = [base EXCEPT ![r].unsettled_bets = SaturatingSub(@)]
  /\ UNCHANGED <<market, er, delegated, inflight, external, clock>>

RefundBet(u, r) ==
  /\ OnBase(r)
  /\ base[r].status = "Locked"
  /\ Open(bet[r][u])
  /\ CloseBet(u, r, FALSE, bet[r][u].stake)

-----------------------------------------------------------------------------
(* Instructions that write the round account alone: they run wherever it    *)
(* is writable, on the base chain or, while it is delegated, on the rollup. *)

\* Mutated form: the rollup goes on writing a copy that is leaving it.
WritableWhileLeaving(r) == base[r].status # "Absent"

\* A copy whose undelegation is scheduled is read-only on the rollup.
Writable(r) ==
  /\ base[r].status # "Absent"
  /\ ~inflight[r].undelegate

Live(r) == IF delegated[r] THEN er[r] ELSE base[r]

WriteLive(r, rd) ==
  /\ IF delegated[r]
       THEN er' = [er EXCEPT ![r] = rd] /\ UNCHANGED base
       ELSE base' = [base EXCEPT ![r] = rd] /\ UNCHANGED er
  /\ UNCHANGED <<market, delegated, inflight, bet, vault, external, clock>>

ScheduleLock(r, at) ==
  /\ Writable(r)
  /\ Live(r).status = "Predicting"
  /\ at > clock
  /\ at <= Live(r).opened_at + MaxPredicting
  /\ WriteLive(r, [Live(r) EXCEPT !.lock_scheduled_at = at])

\* Mutated form: locks the base account of a delegated round.
LockRoundWhileDelegated(r) ==
  /\ base[r].status = "Predicting"
  /\ base[r].lock_scheduled_at > 0 => clock >= base[r].lock_scheduled_at
  /\ base' = [base EXCEPT ![r].status = "Locked", ![r].locked_at = clock]
  /\ UNCHANGED <<market, er, delegated, inflight, bet, vault, external, clock>>

LockRound(r) ==
  /\ Writable(r)
  /\ Live(r).status = "Predicting"
  /\ Live(r).lock_scheduled_at > 0 => clock >= Live(r).lock_scheduled_at
  /\ WriteLive(r, [Live(r) EXCEPT !.status = "Locked", !.locked_at = clock])

\* Mutated form: the counter is not consulted.
SettleRoundEarly(r) ==
  /\ Writable(r)
  /\ Live(r).status = "Locked"
  /\ HasRevealed(Live(r))
  /\ WriteLive(r, [Live(r) EXCEPT !.status = "Settled"])

SettleRound(r) ==
  /\ Writable(r)
  /\ Live(r).status = "Locked"
  /\ HasRevealed(Live(r))
  /\ Live(r).unsettled_bets = 0
  /\ WriteLive(r, [Live(r) EXCEPT !.status = "Settled"])

VrfCallback(r, h) ==
  /\ Writable(r)
  /\ Live(r).status = "Locked"
  /\ WriteLive(r, [Live(r) EXCEPT !.inputs_hash = h])

\* Mutated form: MIN_LOCK_DURATION is not waited for.
CommitOutcomeHashAtOnce(r, o) ==
  /\ Writable(r)
  /\ Live(r).status = "Locked"
  /\ WriteLive(r, [Live(r) EXCEPT !.commitment_hash = o])

CommitOutcomeHash(r, o) ==
  /\ Writable(r)
  /\ Live(r).status = "Locked"
  /\ clock >= Live(r).locked_at + MinLockDuration
  /\ WriteLive(r, [Live(r) EXCEPT !.commitment_hash = o])

\* Mutated form: the commitment is required but not opened.
RevealOutcomeUnopened(r, o, h) ==
  /\ Writable(r)
  /\ Live(r).status = "Locked"
  /\ Live(r).commitment_hash # None
  /\ WriteLive(r, [Live(r) EXCEPT !.inputs_hash = h, !.outcome = o,
                                  !.revealed_at = clock])

\* reveal_outcome_numeric / shape / pattern / entropy / community: the
\* commitment opens to the outcome revealed.
RevealOutcome(r, o, h) ==
  /\ Writable(r)
  /\ Live(r).status = "Locked"
  /\ Live(r).commitment_hash # None
  /\ Live(r).commitment_hash = o
  /\ WriteLive(r, [Live(r) EXCEPT !.inputs_hash = h, !.outcome = o,
                                  !.revealed_at = clock])

\* er_reveal_outcome_*: no commitment is consulted.
ErRevealOutcome(r, o) ==
  /\ Writable(r)
  /\ Live(r).status = "Locked"
  /\ WriteLive(r, [Live(r) EXCEPT !.outcome = o, !.revealed_at = clock])

\* finalize_community_round: no condition on the round.
FinalizeCommunityRound(r, o) ==
  /\ Writable(r)
  /\ WriteLive(r, [Live(r) EXCEPT !.outcome = o])

-----------------------------------------------------------------------------
(* Delegation to the rollup and back *)

DelegateRound(r) ==
  /\ OnBase(r)
  /\ delegated' = [delegated EXCEPT ![r] = TRUE]
  /\ er' = [er EXCEPT ![r] = base[r]]
  /\ UNCHANGED <<market, base, inflight, bet, vault, external, clock>>

\* commit_round and commit_and_undelegate_round run on the rollup and only
\* schedule the write-back; one commit of a round is in flight at a time.
CommitRound(r, undelegate) ==
  /\ delegated[r]
  /\ inflight[r] = NoCommit
  /\ inflight' = [inflight EXCEPT
                    ![r] = [copy |-> er[r], undelegate |-> undelegate]]
  /\ UNCHANGED <<market, base, er, delegated, bet, vault, external, clock>>

\* The validator finalizes the commit on the base chain; for an undelegation
\* the delegation program calls undelegate, and the program owns it again.
FinalizeCommit(r) ==
  LET c == inflight[r] IN
  /\ c # NoCommit
  /\ base' = [base EXCEPT ![r] = c.copy]
  /\ inflight' = [inflight EXCEPT ![r] = NoCommit]
  /\ IF c.undelegate
       THEN /\ delegated' = [delegated EXCEPT ![r] = FALSE]
            /\ er' = [er EXCEPT ![r] = AbsentRound]
       ELSE UNCHANGED <<delegated, er>>
  /\ UNCHANGED <<market, bet, vault, external, clock>>

-----------------------------------------------------------------------------
(* Transfers that are not bets but use the same vault *)

\* fund_vault and contribute_to_jackpot.
FundVault(a) ==
  /\ a > 0
  /\ vault + a <= MaxVault
  /\ vault' = vault + a
  /\ external' = external + a
  /\ UNCHANGED <<market, rounds, bet, clock>>

\* claim_streak_reward, settle_community_entry and claim_jackpot pay from the
\* vault the bets are paid from.
PayReward(a) ==
  /\ vault >= a
  /\ vault' = vault - a
  /\ external' = external - a
  /\ UNCHANGED <<market, rounds, bet, clock>>

-----------------------------------------------------------------------------
MarketStep ==
  \/ \E a \in BOOLEAN : ToggleMarket(a)
  \/ \E e \in Edges : SetHouseEdge(e)
  \/ OpenRound
  \/ Tick
  \/ \E a \in Amounts : FundVault(a) \/ PayReward(a)

RoundStep(r) ==
  \/ \E at \in 1 .. MaxTime : ScheduleLock(r, at)
  \/ LockRound(r)
  \/ SettleRound(r)
  \/ \E h \in Randomness : VrfCallback(r, h)
  \/ \E o \in Outcomes : CommitOutcomeHash(r, o) \/ ErRevealOutcome(r, o)
  \/ \E o \in Outcomes, h \in Randomness : RevealOutcome(r, o, h)
  \/ \E o \in CommunityOutcomes : FinalizeCommunityRound(r, o)
  \/ DelegateRound(r)
  \/ \E und \in BOOLEAN : CommitRound(r, und)
  \/ FinalizeCommit(r)

BetStep(u, r) ==
  \/ \E s \in Selections, stake \in Stakes : PlaceBet(u, r, s, stake)
  \/ SettleBet(u, r)
  \/ RefundBet(u, r)

Next ==
  \/ MarketStep
  \/ \E r \in RoundIds : RoundStep(r)
  \/ \E u \in Users, r \in RoundIds : BetStep(u, r)

Spec == Init /\ [][Next]_vars

-----------------------------------------------------------------------------
(* Properties *)

\* Every account has its type; in particular the vault never pays more than
\* it holds and no counter goes below zero.
TypeOK ==
  /\ market \in Market
  /\ base \in [RoundIds -> Round]
  /\ er \in [RoundIds -> Round]
  /\ delegated \in [RoundIds -> BOOLEAN]
  /\ inflight \in [RoundIds -> Commit]
  /\ bet \in [RoundIds -> [Users -> Bet]]
  /\ vault \in Nat
  /\ external \in Int
  /\ clock \in Nat

\* Every copy of a round that is, or may become, its base account.
CopiesOf(r) ==
  {base[r], Live(r)} \cup
    (IF inflight[r] = NoCommit THEN {} ELSE {inflight[r].copy})

\* On every copy of a round, unsettled_bets is exactly the number of its open
\* bets: place_bet, settle_bet and refund_bet keep it so across delegations,
\* write-backs and the saturating u32 arithmetic.
CounterExact ==
  \A r \in RoundIds : \A c \in CopiesOf(r) :
    c.unsettled_bets = Cardinality(OpenBets(r))

\* settle_round looks only at the counter of the copy it runs on, yet once a
\* copy of a round is Settled no bet of the round is open: nobody's stake is
\* left in a closed round, where neither settle_bet nor refund_bet would run
\* again.
SettledRoundHasNoOpenBet ==
  \A r \in RoundIds : \A c \in CopiesOf(r) :
    c.status = "Settled" => OpenBets(r) = {}

StakesTaken == [p \in RoundIds \X Users |-> bet[p[1]][p[2]].stake]
PayoutsRecorded == [p \in RoundIds \X Users |-> bet[p[1]][p[2]].payout]

\* The books balance: the vault holds the external transfers, plus every
\* stake ever taken, minus every payout recorded in a bet account.  A bet
\* paid twice, or paid without being recorded, would break it.
BooksBalance ==
  vault = external + SumFunction(StakesTaken) - SumFunction(PayoutsRecorded)

Rank == [Absent |-> 0, Predicting |-> 1, Locked |-> 2, Settled |-> 3]

\* Copy c of a round has gone at least as far as copy d.
Ahead(c, d) ==
  /\ Rank[d.status] <= Rank[c.status]
  /\ HasRevealed(d) => HasRevealed(c)

\* The copies of a delegated round never diverge: the rollup's copy is ahead
\* of a commit in flight and that commit is ahead of the base account, so a
\* write-back never loses a lock, a reveal or a settlement; and once an
\* undelegation is in flight the rollup's copy no longer moves, so nothing
\* done on the rollup is lost when the base account replaces it.
CopiesInOrder ==
  \A r \in RoundIds :
    /\ delegated[r] => base[r].status # "Absent" /\ Ahead(er[r], base[r])
    /\ inflight[r] # NoCommit =>
         /\ delegated[r]
         /\ Ahead(er[r], inflight[r].copy)
         /\ Ahead(inflight[r].copy, base[r])
    /\ inflight[r].undelegate => inflight[r].copy = er[r]

\* On every copy of a round, each bet was placed strictly before the lock the
\* round was scheduled for and not after the moment it was locked, however
\* often the lock is rescheduled and wherever it was set.
BetsPrecedeLock ==
  \A r \in RoundIds : \A c \in CopiesOf(r), u \in Users : bet[r][u].exists =>
    /\ c.lock_scheduled_at > 0 => bet[r][u].placed_at < c.lock_scheduled_at
    /\ c.status \in {"Locked", "Settled"} => bet[r][u].placed_at <= c.locked_at

\* A bet account exists only for a round that was opened, is never settled
\* before it exists, and was placed in the past of the chain clock.
BetsBelongToRounds ==
  \A r \in RoundIds, u \in Users :
    /\ bet[r][u].settled => bet[r][u].exists
    /\ bet[r][u].exists => /\ base[r].status # "Absent"
                           /\ bet[r][u].placed_at <= clock

\* An account that was never opened holds nothing.
AbsentIsBlank ==
  \A r \in RoundIds : base[r].status = "Absent" => base[r] = AbsentRound

\* The inductive invariant behind the theorems: every copy of a round counts
\* its open bets exactly and knows its lock, and the copies are in order.
EngineInv ==
  /\ TypeOK
  /\ CopiesInOrder
  /\ CounterExact
  /\ SettledRoundHasNoOpenBet
  /\ BetsPrecedeLock
  /\ BetsBelongToRounds
  /\ AbsentIsBlank

\* A commitment never appears before MIN_LOCK_DURATION has passed since the
\* lock, on either copy.
CommitAfterLockWindow ==
  \A r \in RoundIds : Live(r).commitment_hash # None =>
    clock >= Live(r).locked_at + MinLockDuration

\* A bet account never disappears, its terms are fixed when it is placed, and
\* once settled or refunded it never changes again: no second payout.
BetIsFinal ==
  [][\A r \in RoundIds, u \in Users :
       LET b == bet[r][u]
           c == bet'[r][u] IN
       /\ b.settled => c = b
       /\ b.exists => /\ c.exists /\ c.stake = b.stake
                      /\ c.selection = b.selection
                      /\ c.odds_bps = b.odds_bps]_bet

\* The base account, which settlement and every reader go by, never goes back:
\* although the copy a commit writes was taken earlier, its status never moves
\* backwards and a revealed outcome never becomes unrevealed.
BaseNeverRollsBack ==
  [][\A r \in RoundIds : Ahead(base'[r], base[r])]_base

-----------------------------------------------------------------------------
(* The program implements BetBook *)

SlipOf(b) ==
  [state |-> IF ~b.exists THEN "none" ELSE IF b.settled THEN "closed" ELSE "open",
   stake |-> b.stake, odds |-> b.odds_bps, paid |-> b.payout]

OddsOffered == {OddsBps[e][s] : e \in Edges, s \in Selections}

BookOf == [r \in RoundIds |-> Live(r).status]
SlipsOf == [r \in RoundIds |-> [u \in Users |-> SlipOf(bet[r][u])]]

Book == INSTANCE BetBook WITH
  book <- BookOf, slip <- SlipsOf, OddsValues <- OddsOffered

\* Every step of the program is a step of the book of wagers or leaves it
\* unchanged.
ImplementsBetBook == Book!Spec

-----------------------------------------------------------------------------
(* Each round account implements RoundAccount *)

AccountView(rd) ==
  [status |-> rd.status, inputs |-> rd.inputs_hash,
   commitment |-> rd.commitment_hash, outcome |-> rd.outcome]

AccountOf(r) == AccountView(Live(r))

HomeOf(r) ==
  IF ~delegated[r] THEN "program"
  ELSE IF inflight[r].undelegate THEN "leaving" ELSE "rollup"

RoundOf(r) == INSTANCE RoundAccount WITH acct <- AccountOf(r), home <- HomeOf(r)

\* The base account, the rollup's copy and the commits between them behave as
\* one account that is in one place at a time: delegation and undelegation
\* move it unchanged, and a commit of an older copy is not seen at all.
ImplementsRoundAccount ==
  /\ \A r \in RoundIds : RoundOf(r)!Init
  /\ [][\A r \in RoundIds : [RoundOf(r)!Next]_(RoundOf(r)!vars)]_vars

=============================================================================
