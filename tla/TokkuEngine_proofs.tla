------------------------ MODULE TokkuEngine_proofs -------------------------
(***************************************************************************)
(* Theorems about TokkuEngine, for every set of users, number of rounds,   *)
(* odds table and clock.                                                   *)
(***************************************************************************)
EXTENDS TokkuEngine, FiniteSetTheorems, TLAPS

USE DEF RoundIds

-----------------------------------------------------------------------------
(* Type correctness *)

\* The u32 arithmetic of unsettled_bets stays in the naturals.
LEMMA SaturatingType ==
  ASSUME NEW n \in Nat
  PROVE  SaturatingAdd(n) \in Nat /\ SaturatingSub(n) \in Nat
  BY BoundsAssumption DEF SaturatingAdd, SaturatingSub

\* The payout settle_bet computes is a natural number.
LEMMA WinningsType ==
  ASSUME NEW b \in Bet
  PROVE  Winnings(b) \in Nat
<1>1. b.stake \in Nat /\ b.odds_bps \in Nat
  BY DEF Bet
<1>2. b.stake * b.odds_bps \in Nat
  BY <1>1
<1>3. \A n \in Nat : n \div 100 \in Nat
  OBVIOUS
<1> QED
  BY <1>2, <1>3 DEF Winnings

\* The account before open_round has the type of a round.
LEMMA AbsentRoundType == AbsentRound \in Round
  BY DEF AbsentRound, Round, RoundStatus

\* Writing a well-typed record to the live copy keeps both copies well typed.
LEMMA WriteLiveType ==
  ASSUME NEW r \in RoundIds, NEW rd \in Round, TypeOK, WriteLive(r, rd)
  PROVE  TypeOK'
  BY DEF TypeOK, WriteLive

\* The copy an instruction works on, base or rollup, is a round.
LEMMA LiveType ==
  ASSUME NEW r \in RoundIds, TypeOK
  PROVE  Live(r) \in Round
  BY DEF TypeOK, Live

\* initialize_market leaves every account well typed.
LEMMA TypeInit == Init => TypeOK
<1> SUFFICES ASSUME Init PROVE TypeOK
  OBVIOUS
<1>1. market \in Market
  BY BoundsAssumption DEF Init, Market
<1>2. NoBet \in Bet /\ NoCommit \in Commit
  BY AbsentRoundType DEF NoBet, Bet, NoCommit, Commit
<1> QED
  BY <1>1, <1>2, AbsentRoundType DEF Init, TypeOK

\* The market instructions, the vault transfers and the clock keep the types.
LEMMA TypeMarketStep == TypeOK /\ MarketStep => TypeOK'
<1> SUFFICES ASSUME TypeOK, MarketStep PROVE TypeOK'
  OBVIOUS
<1>1. ASSUME NEW a \in BOOLEAN, ToggleMarket(a) PROVE TypeOK'
  BY <1>1 DEF TypeOK, ToggleMarket, Market, rounds
<1>2. ASSUME NEW e \in Edges, SetHouseEdge(e) PROVE TypeOK'
  BY <1>2 DEF TypeOK, SetHouseEdge, Market, rounds
<1>3. ASSUME OpenRound PROVE TypeOK'
  <2>1. market.last_round + 1 \in 0 .. MaxRounds
    BY <1>3, BoundsAssumption DEF OpenRound, TypeOK, Market
  <2>2. market' \in Market
    BY <1>3, <2>1 DEF OpenRound, TypeOK, Market
  <2>3. [AbsentRound EXCEPT !.status = "Predicting", !.opened_at = clock] \in Round
    BY DEF AbsentRound, Round, RoundStatus, TypeOK
  <2> QED
    BY <1>3, <2>2, <2>3 DEF OpenRound, TypeOK
<1>4. ASSUME Tick PROVE TypeOK'
  BY <1>4 DEF TypeOK, Tick, rounds
<1>5. ASSUME NEW a \in Amounts, FundVault(a) PROVE TypeOK'
  BY <1>5, AmountsAssumption DEF TypeOK, FundVault, rounds
<1>6. ASSUME NEW a \in Amounts, PayReward(a) PROVE TypeOK'
  BY <1>6, AmountsAssumption DEF TypeOK, PayReward, rounds
<1> QED
  BY <1>1, <1>2, <1>3, <1>4, <1>5, <1>6 DEF MarketStep

\* The round instructions, on either chain, keep the types.
LEMMA TypeRoundStep ==
  ASSUME NEW r \in RoundIds, TypeOK, RoundStep(r)
  PROVE  TypeOK'
<1> USE DEF Round, RoundStatus
<1>0. Live(r) \in Round /\ base[r] \in Round /\ clock \in Nat
  BY LiveType DEF TypeOK
<1>1. ASSUME NEW at \in 1 .. MaxTime, ScheduleLock(r, at) PROVE TypeOK'
  <2>1. [Live(r) EXCEPT !.lock_scheduled_at = at] \in Round
    BY <1>0
  <2> QED
    BY <1>1, <2>1, WriteLiveType DEF ScheduleLock
<1>2. ASSUME LockRound(r) PROVE TypeOK'
  <2>1. [Live(r) EXCEPT !.status = "Locked", !.locked_at = clock] \in Round
    BY <1>0
  <2> QED
    BY <1>2, <2>1, WriteLiveType DEF LockRound
<1>3. ASSUME SettleRound(r) PROVE TypeOK'
  <2>1. [Live(r) EXCEPT !.status = "Settled"] \in Round
    BY <1>0
  <2> QED
    BY <1>3, <2>1, WriteLiveType DEF SettleRound
<1>4. ASSUME NEW h \in Randomness, VrfCallback(r, h) PROVE TypeOK'
  <2>1. [Live(r) EXCEPT !.inputs_hash = h] \in Round
    BY <1>0
  <2> QED
    BY <1>4, <2>1, WriteLiveType DEF VrfCallback
<1>5. ASSUME NEW o \in Outcomes, CommitOutcomeHash(r, o) PROVE TypeOK'
  <2>1. [Live(r) EXCEPT !.commitment_hash = o] \in Round
    BY <1>0
  <2> QED
    BY <1>5, <2>1, WriteLiveType DEF CommitOutcomeHash
<1>6. ASSUME NEW o \in Outcomes, ErRevealOutcome(r, o) PROVE TypeOK'
  <2>1. [Live(r) EXCEPT !.outcome = o, !.revealed_at = clock] \in Round
    BY <1>0 DEF TypeOK
  <2> QED
    BY <1>6, <2>1, WriteLiveType DEF ErRevealOutcome
<1>7. ASSUME NEW o \in Outcomes, NEW h \in Randomness, RevealOutcome(r, o, h)
      PROVE TypeOK'
  <2>1. [Live(r) EXCEPT !.inputs_hash = h, !.outcome = o,
                        !.revealed_at = clock] \in Round
    BY <1>0 DEF TypeOK
  <2> QED
    BY <1>7, <2>1, WriteLiveType DEF RevealOutcome
<1>8. ASSUME NEW o \in CommunityOutcomes, FinalizeCommunityRound(r, o)
      PROVE TypeOK'
  <2>1. [Live(r) EXCEPT !.outcome = o] \in Round
    BY <1>0
  <2> QED
    BY <1>8, <2>1, WriteLiveType DEF FinalizeCommunityRound
<1>9. ASSUME DelegateRound(r) PROVE TypeOK'
  BY <1>9 DEF TypeOK, DelegateRound
<1>10. ASSUME NEW und \in BOOLEAN, CommitRound(r, und) PROVE TypeOK'
  BY <1>10 DEF TypeOK, CommitRound, Commit
<1>11. ASSUME FinalizeCommit(r) PROVE TypeOK'
  <2>1. inflight[r].copy \in Round /\ NoCommit \in Commit
    BY AbsentRoundType DEF TypeOK, Commit, NoCommit
  <2>2. CASE inflight[r].undelegate
    <3>1. /\ base' = [base EXCEPT ![r] = inflight[r].copy]
          /\ inflight' = [inflight EXCEPT ![r] = NoCommit]
          /\ delegated' = [delegated EXCEPT ![r] = FALSE]
          /\ er' = [er EXCEPT ![r] = AbsentRound]
          /\ UNCHANGED <<market, bet, vault, external, clock>>
      BY <1>11, <2>2 DEF FinalizeCommit
    <3>2. /\ base' \in [RoundIds -> Round] /\ er' \in [RoundIds -> Round]
          /\ inflight' \in [RoundIds -> Commit]
          /\ delegated' \in [RoundIds -> BOOLEAN]
      <4> HIDE DEF Round
      <4> QED
        BY <3>1, <2>1, AbsentRoundType DEF TypeOK
    <3> QED
      BY <3>1, <3>2 DEF TypeOK
  <2>3. CASE ~inflight[r].undelegate
    BY <1>11, <2>1, <2>3 DEF TypeOK, FinalizeCommit
  <2> QED
    BY <2>2, <2>3
<1> QED
  BY RoundStep(r), <1>1, <1>2, <1>3, <1>4, <1>5, <1>6, <1>7, <1>8, <1>9,
     <1>10, <1>11 DEF RoundStep

\* Closing a bet keeps the types: the vault is checked before it pays.
LEMMA CloseBetType ==
  ASSUME NEW u \in Users, NEW r \in RoundIds, NEW won \in BOOLEAN,
         NEW payout \in Nat, TypeOK, CloseBet(u, r, won, payout)
  PROVE  TypeOK'
<1>1. vault' \in Nat
  BY DEF CloseBet, TypeOK
<1>2. bet' \in [RoundIds -> [Users -> Bet]]
  <2>1. bet[r][u] \in Bet
    BY DEF TypeOK
  <2>2. [bet[r][u] EXCEPT !.settled = TRUE, !.won = won, !.payout = payout] \in Bet
    BY <2>1 DEF Bet
  <2>3. bet' = [bet EXCEPT ![r] = [bet[r] EXCEPT ![u] =
          [bet[r][u] EXCEPT !.settled = TRUE, !.won = won, !.payout = payout]]]
    BY DEF CloseBet, TypeOK, Bet
  <2> QED
    BY <2>2, <2>3 DEF TypeOK
<1>3. base' \in [RoundIds -> Round]
  <2>1. base[r] \in Round
    BY DEF TypeOK
  <2>2. [base[r] EXCEPT !.unsettled_bets = SaturatingSub(@)] \in Round
    BY <2>1, SaturatingType DEF Round
  <2> QED
    BY <2>2 DEF CloseBet, TypeOK
<1> QED
  BY <1>1, <1>2, <1>3 DEF CloseBet, TypeOK

\* settle_bet and refund_bet close an open bet of a locked round with one of
\* the three payouts the book of wagers allows.
LEMMA ClosingStep ==
  ASSUME NEW u \in Users, NEW r \in RoundIds, TypeOK,
         SettleBet(u, r) \/ RefundBet(u, r)
  PROVE  /\ OnBase(r) /\ base[r].status = "Locked" /\ Open(bet[r][u])
         /\ \E won \in BOOLEAN, payout \in Nat :
              /\ CloseBet(u, r, won, payout)
              /\ payout \in {0, bet[r][u].stake, Winnings(bet[r][u])}
<1>1. bet[r][u].stake \in Nat /\ Winnings(bet[r][u]) \in Nat
  BY WinningsType DEF TypeOK, Bet
<1>2. CASE RefundBet(u, r)
  <2>1. CloseBet(u, r, FALSE, bet[r][u].stake)
    BY <1>2 DEF RefundBet
  <2> QED
    BY <1>1, <1>2, <2>1 DEF RefundBet
<1>3. CASE SettleBet(u, r) /\ base[r].outcome \in WinsOn[bet[r][u].selection]
  <2>1. CloseBet(u, r, TRUE, Winnings(bet[r][u]))
    BY <1>3 DEF SettleBet
  <2> QED
    BY <1>1, <1>3, <2>1 DEF SettleBet
<1>4. CASE SettleBet(u, r) /\ base[r].outcome \notin WinsOn[bet[r][u].selection]
  <2>1. CloseBet(u, r, FALSE, 0)
    BY <1>4 DEF SettleBet
  <2> QED
    BY <1>1, <1>4, <2>1 DEF SettleBet
<1> QED
  BY <1>2, <1>3, <1>4

\* place_bet, settle_bet and refund_bet keep the types.
LEMMA TypeBetStep ==
  ASSUME NEW u \in Users, NEW r \in RoundIds, TypeOK, BetStep(u, r)
  PROVE  TypeOK'
<1>1. ASSUME NEW s \in Selections, NEW stake \in Stakes, PlaceBet(u, r, s, stake)
      PROVE  TypeOK'
  <2>1. vault' \in Nat
    BY <1>1, AmountsAssumption DEF PlaceBet, TakeStake, TypeOK
  <2>2. bet' \in [RoundIds -> [Users -> Bet]]
    <3>1. OddsBps[market.house_edge_bps][s] \in Nat
      BY OddsAssumption DEF TypeOK, Market
    <3> QED
      BY <1>1, <3>1, AmountsAssumption DEF PlaceBet, TakeStake, TypeOK, Bet
  <2>3. base' \in [RoundIds -> Round]
    <3>1. base[r] \in Round
      BY DEF TypeOK
    <3>2. [base[r] EXCEPT !.unsettled_bets = SaturatingAdd(@)] \in Round
      BY <3>1, SaturatingType DEF Round
    <3> QED
      BY <1>1, <3>2 DEF PlaceBet, TakeStake, TypeOK
  <2> QED
    BY <1>1, <2>1, <2>2, <2>3 DEF PlaceBet, TakeStake, TypeOK
<1>2. ASSUME SettleBet(u, r) \/ RefundBet(u, r) PROVE TypeOK'
  <2>1. PICK won \in BOOLEAN, payout \in Nat : CloseBet(u, r, won, payout)
    BY <1>2, ClosingStep
  <2> QED
    BY <2>1, CloseBetType
<1> QED
  BY BetStep(u, r), <1>1, <1>2 DEF BetStep

\* Every step keeps the types.
LEMMA TypeNext == TypeOK /\ [Next]_vars => TypeOK'
<1>1. TypeOK /\ UNCHANGED vars => TypeOK'
  BY DEF TypeOK, vars
<1> QED
  BY <1>1, TypeMarketStep, TypeRoundStep, TypeBetStep DEF Next

\* Every reachable state of the program is well typed; the vault never goes
\* below zero and no counter does.
THEOREM TypeCorrect == Spec => []TypeOK
  BY TypeInit, TypeNext, PTL DEF Spec

-----------------------------------------------------------------------------
(* The inductive invariant *)

\* Copy c of a round fits its bets bs: it counts the open ones, is not Settled
\* over an open one, and no bet comes after the lock it knows.
Fits(c, bs) ==
  /\ c.unsettled_bets = Cardinality({u \in Users : Open(bs[u])})
  /\ c.status = "Settled" => {u \in Users : Open(bs[u])} = {}
  /\ \A u \in Users : bs[u].exists =>
       /\ c.lock_scheduled_at > 0 => bs[u].placed_at < c.lock_scheduled_at
       /\ c.status \in {"Locked", "Settled"} => bs[u].placed_at <= c.locked_at

CopiesFit ==
  \A r \in RoundIds :
    /\ Fits(base[r], bet[r])
    /\ delegated[r] => Fits(er[r], bet[r])
    /\ inflight[r] # NoCommit => Fits(inflight[r].copy, bet[r])

\* The invariant, copy by copy.
CopyInv == CopiesInOrder /\ CopiesFit /\ BetsBelongToRounds /\ AbsentIsBlank

\* The three properties of the copies say that every copy fits the bets.
LEMMA EngineInvSplit == EngineInv <=> TypeOK /\ CopyInv
<1>1. CopiesFit <=> \A r \in RoundIds : \A c \in CopiesOf(r) : Fits(c, bet[r])
  BY DEF CopiesFit, CopiesOf, Live
<1>2. (\A r \in RoundIds : \A c \in CopiesOf(r) : Fits(c, bet[r]))
        <=> CounterExact /\ SettledRoundHasNoOpenBet /\ BetsPrecedeLock
  BY DEF Fits, OpenBets, CounterExact, SettledRoundHasNoOpenBet, BetsPrecedeLock
<1> QED
  BY <1>1, <1>2 DEF EngineInv, CopyInv

\* A copy is ahead of itself.
LEMMA AheadReflexive ==
  ASSUME NEW c \in Round
  PROVE  Ahead(c, c)
  BY DEF Ahead, Rank, Round, RoundStatus

\* Being ahead is transitive, and what is ahead of an open round is opened.
LEMMA AheadTransitive ==
  ASSUME NEW c \in Round, NEW d \in Round, NEW e \in Round,
         Ahead(c, d), Ahead(d, e)
  PROVE  /\ Ahead(c, e)
         /\ e.status # "Absent" => c.status # "Absent"
<1>1. \A x \in RoundStatus : Rank[x] \in Nat /\ (x # "Absent" <=> Rank[x] > 0)
  BY DEF RoundStatus, Rank
<1>2. c.status \in RoundStatus /\ d.status \in RoundStatus
      /\ e.status \in RoundStatus
  BY DEF Round
<1>3. Rank[e.status] <= Rank[c.status]
  BY <1>1, <1>2 DEF Ahead
<1> QED
  BY <1>1, <1>2, <1>3 DEF Ahead

\* The open bets of a round are at most one per user, so the u32 counter never
\* saturates while there is a user who has not bet.
LEMMA OpenBetsBounded ==
  ASSUME NEW r \in RoundIds
  PROVE  /\ IsFiniteSet(OpenBets(r))
         /\ Cardinality(OpenBets(r)) \in Nat
         /\ \A u \in Users \ OpenBets(r) : Cardinality(OpenBets(r)) < MaxU32
<1>1. OpenBets(r) \in SUBSET Users
  BY DEF OpenBets
<1>2. IsFiniteSet(OpenBets(r)) /\ Cardinality(OpenBets(r)) \in Nat
  BY <1>1, UsersAssumption, FS_Subset, FS_CardinalityType
<1>3. ASSUME NEW u \in Users \ OpenBets(r)
      PROVE  Cardinality(OpenBets(r)) < MaxU32
  <2>1. OpenBets(r) \cup {u} \in SUBSET Users
    BY <1>1
  <2>2. Cardinality(OpenBets(r) \cup {u}) = Cardinality(OpenBets(r)) + 1
    BY <1>2, <1>3, FS_AddElement
  <2>3. Cardinality(OpenBets(r) \cup {u}) <= Cardinality(Users)
    BY <2>1, UsersAssumption, FS_Subset
  <2>4. Cardinality(Users) \in Nat
    BY UsersAssumption, FS_CardinalityType
  <2> QED
    BY <1>2, <2>2, <2>3, <2>4, UsersAssumption, BoundsAssumption
<1> QED
  BY <1>2, <1>3

\* No commit of a round that is not delegated is in flight.
LEMMA NotDelegated ==
  ASSUME CopiesInOrder, NEW q \in RoundIds, ~delegated[q]
  PROVE  inflight[q] = NoCommit /\ ~inflight[q].undelegate
<1>1. inflight[q] = NoCommit
  BY DEF CopiesInOrder
<1>2. ~NoCommit.undelegate
  BY DEF NoCommit
<1> QED
  BY <1>1, <1>2

\* Writing the base account of a round that is not delegated leaves the copies
\* and the commits in flight of all other rounds as they are.
LEMMA BaseWriteStep ==
  ASSUME TypeOK, CopiesInOrder, CopiesFit, NEW q \in RoundIds, NEW rd,
         ~delegated[q], base' = [base EXCEPT ![q] = rd],
         UNCHANGED <<er, delegated, inflight>>,
         \A r \in RoundIds : r # q => bet'[r] = bet[r],
         Fits(rd, bet'[q])
  PROVE  CopiesInOrder' /\ CopiesFit'
<1>1. inflight[q] = NoCommit /\ ~inflight[q].undelegate
  BY NotDelegated
<1>2. base'[q] = rd /\ \A r \in RoundIds : r # q => base'[r] = base[r]
  BY DEF TypeOK
<1> HIDE DEF Fits, Ahead, NoCommit
<1>3. CopiesInOrder'
  BY <1>1, <1>2 DEF CopiesInOrder
<1>4. CopiesFit'
  BY <1>1, <1>2 DEF CopiesFit
<1> QED
  BY <1>3, <1>4

\* A step that touches no bet keeps the bets in rounds that exist.
LEMMA BelongStep ==
  ASSUME TypeOK, TypeOK', BetsBelongToRounds, bet' = bet, clock' >= clock,
         \A r \in RoundIds : base[r].status # "Absent" => base'[r].status # "Absent"
  PROVE  BetsBelongToRounds'
<1>1. \A r \in RoundIds, u \in Users : bet[r][u].placed_at \in Nat
  BY DEF TypeOK, Bet
<1> QED
  BY <1>1 DEF BetsBelongToRounds, TypeOK

\* The copy an instruction writes exists and fits the bets.
LEMMA LiveFits ==
  ASSUME TypeOK, CopyInv, NEW q \in RoundIds, Writable(q)
  PROVE  /\ Live(q) \in Round /\ Live(q).status # "Absent"
         /\ Fits(Live(q), bet[q])
<1>1. er[q] \in Round /\ base[q] \in Round
  BY DEF TypeOK
<1>2. Live(q).status # "Absent"
  BY <1>1, AheadReflexive, AheadTransitive
     DEF Live, Writable, CopyInv, CopiesInOrder
<1>3. Fits(Live(q), bet[q])
  <2> HIDE DEF Fits
  <2> QED
    BY DEF Live, CopyInv, CopiesFit
<1> QED
  BY <1>2, <1>3, LiveType

\* What an instruction that writes the round account alone may write.
Advance(q, rd) ==
  /\ rd \in Round
  /\ rd.status # "Absent"
  /\ Fits(rd, bet[q])
  /\ Ahead(rd, Live(q))

\* Writing an advance of the live copy, on either chain, keeps the invariant.
LEMMA WriteLiveStep ==
  ASSUME TypeOK, TypeOK', CopyInv, NEW q \in RoundIds, NEW rd,
         Writable(q), Advance(q, rd), WriteLive(q, rd)
  PROVE  CopyInv'
<1> USE DEF Advance
<1>0. /\ CopiesInOrder /\ CopiesFit /\ BetsBelongToRounds /\ AbsentIsBlank
      /\ bet' = bet /\ clock' = clock /\ UNCHANGED <<delegated, inflight>>
      /\ base[q].status # "Absent" /\ ~inflight[q].undelegate
      /\ base[q] \in Round /\ er[q] \in Round /\ inflight[q].copy \in Round
  BY DEF CopyInv, WriteLive, Writable, TypeOK, Commit
<1>1. CASE delegated[q]
  <2>1. base' = base /\ er' = [er EXCEPT ![q] = rd] /\ Live(q) = er[q]
    BY <1>1 DEF WriteLive, Live
  <2>2. er'[q] = rd /\ \A r \in RoundIds : r # q => er'[r] = er[r]
    BY <2>1 DEF TypeOK
  <2>3. Ahead(rd, base[q])
    BY <1>0, <1>1, <2>1, AheadTransitive DEF CopiesInOrder
  <2>4. inflight[q] # NoCommit => Ahead(rd, inflight[q].copy)
    BY <1>0, <2>1, AheadTransitive DEF CopiesInOrder
  <2> HIDE DEF Fits, Ahead, NoCommit
  <2>5. CopiesInOrder'
    BY <1>0, <2>1, <2>2, <2>3, <2>4 DEF CopiesInOrder
  <2>6. CopiesFit'
    BY <1>0, <2>1, <2>2 DEF CopiesFit
  <2>7. BetsBelongToRounds' /\ AbsentIsBlank'
    BY <1>0, <2>1 DEF BetsBelongToRounds, AbsentIsBlank
  <2> QED
    BY <2>5, <2>6, <2>7 DEF CopyInv
<1>2. CASE ~delegated[q]
  <2>1. er' = er /\ base' = [base EXCEPT ![q] = rd]
    BY <1>2 DEF WriteLive
  <2>2. CopiesInOrder' /\ CopiesFit'
    BY <1>0, <1>2, <2>1, BaseWriteStep
  <2>3. base'[q] = rd /\ \A r \in RoundIds : r # q => base'[r] = base[r]
    BY <2>1 DEF TypeOK
  <2>4. BetsBelongToRounds'
    BY <1>0, <2>3 DEF BetsBelongToRounds
  <2>5. AbsentIsBlank'
    BY <1>0, <2>3 DEF AbsentIsBlank
  <2> QED
    BY <2>2, <2>4, <2>5 DEF CopyInv
<1> QED
  BY <1>1, <1>2

\* A write of the outcome fields alone, that unreveals nothing, is an advance.
LEMMA OutcomeAdvance ==
  ASSUME TypeOK, CopyInv, NEW q \in RoundIds, Writable(q), NEW rd \in Round,
         rd.status = Live(q).status,
         rd.unsettled_bets = Live(q).unsettled_bets,
         rd.lock_scheduled_at = Live(q).lock_scheduled_at,
         rd.locked_at = Live(q).locked_at,
         HasRevealed(Live(q)) => HasRevealed(rd)
  PROVE  Advance(q, rd)
<1>1. /\ Live(q) \in Round /\ Live(q).status # "Absent"
      /\ Fits(Live(q), bet[q])
  BY LiveFits
<1>2. Fits(rd, bet[q])
  BY <1>1 DEF Fits
<1>3. Ahead(rd, Live(q))
  BY <1>1, AheadReflexive DEF Ahead
<1> QED
  BY <1>1, <1>2, <1>3 DEF Advance

\* schedule_lock sets a lock in the future, after every bet already placed.
LEMMA ScheduleLockAdvance ==
  ASSUME TypeOK, CopyInv, NEW q \in RoundIds, NEW at \in 1 .. MaxTime,
         ScheduleLock(q, at)
  PROVE  Advance(q, [Live(q) EXCEPT !.lock_scheduled_at = at])
<1> DEFINE rd == [Live(q) EXCEPT !.lock_scheduled_at = at]
<1>1. /\ Live(q) \in Round /\ Fits(Live(q), bet[q])
      /\ Live(q).status = "Predicting" /\ at > clock
  BY LiveFits DEF ScheduleLock
<1>2. /\ rd \in Round /\ rd.status = "Predicting"
      /\ rd.unsettled_bets = Live(q).unsettled_bets
      /\ rd.lock_scheduled_at = at
      /\ HasRevealed(rd) <=> HasRevealed(Live(q))
  BY <1>1, BoundsAssumption DEF Round, HasRevealed
<1>3. \A u \in Users : bet[q][u].exists => bet[q][u].placed_at < at
  BY <1>1, BoundsAssumption DEF CopyInv, BetsBelongToRounds, TypeOK, Bet
<1> HIDE DEF rd
<1>4. Fits(rd, bet[q])
  BY <1>1, <1>2, <1>3 DEF Fits
<1>5. Ahead(rd, Live(q))
  BY <1>1, <1>2 DEF Ahead, Rank
<1> QED
  BY <1>2, <1>4, <1>5 DEF Advance, rd

\* lock_round stamps the clock, which no bet already placed exceeds.
LEMMA LockRoundAdvance ==
  ASSUME TypeOK, CopyInv, NEW q \in RoundIds, LockRound(q)
  PROVE  Advance(q, [Live(q) EXCEPT !.status = "Locked", !.locked_at = clock])
<1> DEFINE rd == [Live(q) EXCEPT !.status = "Locked", !.locked_at = clock]
<1>1. /\ Live(q) \in Round /\ Fits(Live(q), bet[q])
      /\ Live(q).status = "Predicting" /\ clock \in Nat
  BY LiveFits DEF LockRound, TypeOK
<1>2. /\ rd \in Round /\ rd.status = "Locked" /\ rd.locked_at = clock
      /\ rd.unsettled_bets = Live(q).unsettled_bets
      /\ rd.lock_scheduled_at = Live(q).lock_scheduled_at
      /\ HasRevealed(rd) <=> HasRevealed(Live(q))
  BY <1>1 DEF Round, RoundStatus, HasRevealed
<1>3. \A u \in Users : bet[q][u].exists => bet[q][u].placed_at <= clock
  BY DEF CopyInv, BetsBelongToRounds
<1> HIDE DEF rd
<1>4. Fits(rd, bet[q])
  BY <1>1, <1>2, <1>3 DEF Fits
<1>5. Ahead(rd, Live(q))
  BY <1>1, <1>2 DEF Ahead, Rank
<1> QED
  BY <1>2, <1>4, <1>5 DEF Advance, rd

\* settle_round finds the counter at zero, and the counter is exact.
LEMMA SettleRoundAdvance ==
  ASSUME TypeOK, CopyInv, NEW q \in RoundIds, SettleRound(q)
  PROVE  /\ Advance(q, [Live(q) EXCEPT !.status = "Settled"])
         /\ OpenBets(q) = {}
<1> DEFINE rd == [Live(q) EXCEPT !.status = "Settled"]
<1>1. /\ Live(q) \in Round /\ Fits(Live(q), bet[q])
      /\ Live(q).status = "Locked" /\ Live(q).unsettled_bets = 0
  BY LiveFits DEF SettleRound
<1>2. /\ rd \in Round /\ rd.status = "Settled"
      /\ rd.locked_at = Live(q).locked_at
      /\ rd.unsettled_bets = Live(q).unsettled_bets
      /\ rd.lock_scheduled_at = Live(q).lock_scheduled_at
      /\ HasRevealed(rd) <=> HasRevealed(Live(q))
  BY <1>1 DEF Round, RoundStatus, HasRevealed
<1>3. OpenBets(q) = {}
  <2>1. Cardinality(OpenBets(q)) = 0
    BY <1>1 DEF Fits, OpenBets
  <2> QED
    BY <2>1, OpenBetsBounded, FS_EmptySet
<1> HIDE DEF rd
<1>4. Fits(rd, bet[q])
  BY <1>1, <1>2, <1>3 DEF Fits, OpenBets
<1>5. Ahead(rd, Live(q))
  BY <1>1, <1>2 DEF Ahead, Rank
<1> QED
  BY <1>2, <1>3, <1>4, <1>5 DEF Advance, rd

\* An instruction that writes the outcome fields of the round account.
OutcomeWrite(q) ==
  \/ \E h \in Randomness : VrfCallback(q, h)
  \/ \E o \in Outcomes : CommitOutcomeHash(q, o) \/ ErRevealOutcome(q, o)
  \/ \E o \in Outcomes, h \in Randomness : RevealOutcome(q, o, h)
  \/ \E o \in CommunityOutcomes : FinalizeCommunityRound(q, o)

\* An instruction that writes the round account alone.
RoundWrite(q) ==
  \/ \E at \in 1 .. MaxTime : ScheduleLock(q, at)
  \/ LockRound(q)
  \/ SettleRound(q)
  \/ OutcomeWrite(q)

\* vrf_callback, commit_outcome_hash, the reveals and finalize_community_round
\* advance the live copy and keep its status.
LEMMA OutcomeWriteAdvances ==
  ASSUME TypeOK, CopyInv, NEW q \in RoundIds, OutcomeWrite(q)
  PROVE  /\ Writable(q)
         /\ \E rd : /\ Advance(q, rd) /\ WriteLive(q, rd)
                    /\ rd.status = Live(q).status
<1>0. /\ Writable(q) /\ Live(q) \in Round /\ clock \in Nat
  BY LiveType DEF TypeOK, OutcomeWrite, VrfCallback, CommitOutcomeHash,
     ErRevealOutcome, RevealOutcome, FinalizeCommunityRound
<1>1. ASSUME NEW h \in Randomness, VrfCallback(q, h)
      PROVE  \E rd : /\ Advance(q, rd) /\ WriteLive(q, rd)
                     /\ rd.status = Live(q).status
  <2> DEFINE rd == [Live(q) EXCEPT !.inputs_hash = h]
  <2>1. /\ rd \in Round /\ rd.status = Live(q).status
        /\ rd.unsettled_bets = Live(q).unsettled_bets
        /\ rd.lock_scheduled_at = Live(q).lock_scheduled_at
        /\ rd.locked_at = Live(q).locked_at
        /\ HasRevealed(Live(q)) => HasRevealed(rd)
    BY <1>0 DEF Round, HasRevealed
  <2>2. WriteLive(q, rd)
    BY <1>1 DEF VrfCallback
  <2> HIDE DEF rd
  <2> QED
    BY <1>0, <2>1, <2>2, OutcomeAdvance
<1>2. ASSUME NEW o \in Outcomes, CommitOutcomeHash(q, o)
      PROVE  \E rd : /\ Advance(q, rd) /\ WriteLive(q, rd)
                     /\ rd.status = Live(q).status
  <2> DEFINE rd == [Live(q) EXCEPT !.commitment_hash = o]
  <2>1. /\ rd \in Round /\ rd.status = Live(q).status
        /\ rd.unsettled_bets = Live(q).unsettled_bets
        /\ rd.lock_scheduled_at = Live(q).lock_scheduled_at
        /\ rd.locked_at = Live(q).locked_at
        /\ HasRevealed(Live(q)) => HasRevealed(rd)
    BY <1>0 DEF Round, HasRevealed
  <2>2. WriteLive(q, rd)
    BY <1>2 DEF CommitOutcomeHash
  <2> HIDE DEF rd
  <2> QED
    BY <1>0, <2>1, <2>2, OutcomeAdvance
<1>3. ASSUME NEW o \in Outcomes, ErRevealOutcome(q, o)
      PROVE  \E rd : /\ Advance(q, rd) /\ WriteLive(q, rd)
                     /\ rd.status = Live(q).status
  <2> DEFINE rd == [Live(q) EXCEPT !.outcome = o, !.revealed_at = clock]
  <2>1. /\ rd \in Round /\ rd.status = Live(q).status
        /\ rd.unsettled_bets = Live(q).unsettled_bets
        /\ rd.lock_scheduled_at = Live(q).lock_scheduled_at
        /\ rd.locked_at = Live(q).locked_at
        /\ HasRevealed(Live(q)) => HasRevealed(rd)
    BY <1>0, OutcomesAssumption DEF Round, HasRevealed
  <2>2. WriteLive(q, rd)
    BY <1>3 DEF ErRevealOutcome
  <2> HIDE DEF rd
  <2> QED
    BY <1>0, <2>1, <2>2, OutcomeAdvance
<1>4. ASSUME NEW o \in Outcomes, NEW h \in Randomness, RevealOutcome(q, o, h)
      PROVE  \E rd : /\ Advance(q, rd) /\ WriteLive(q, rd)
                     /\ rd.status = Live(q).status
  <2> DEFINE rd == [Live(q) EXCEPT !.inputs_hash = h, !.outcome = o,
                                   !.revealed_at = clock]
  <2>1. /\ rd \in Round /\ rd.status = Live(q).status
        /\ rd.unsettled_bets = Live(q).unsettled_bets
        /\ rd.lock_scheduled_at = Live(q).lock_scheduled_at
        /\ rd.locked_at = Live(q).locked_at
        /\ HasRevealed(Live(q)) => HasRevealed(rd)
    BY <1>0, OutcomesAssumption DEF Round, HasRevealed
  <2>2. WriteLive(q, rd)
    BY <1>4 DEF RevealOutcome
  <2> HIDE DEF rd
  <2> QED
    BY <1>0, <2>1, <2>2, OutcomeAdvance
<1>5. ASSUME NEW o \in CommunityOutcomes, FinalizeCommunityRound(q, o)
      PROVE  \E rd : /\ Advance(q, rd) /\ WriteLive(q, rd)
                     /\ rd.status = Live(q).status
  <2> DEFINE rd == [Live(q) EXCEPT !.outcome = o]
  <2>1. /\ rd \in Round /\ rd.status = Live(q).status
        /\ rd.unsettled_bets = Live(q).unsettled_bets
        /\ rd.lock_scheduled_at = Live(q).lock_scheduled_at
        /\ rd.locked_at = Live(q).locked_at
        /\ HasRevealed(Live(q)) => HasRevealed(rd)
    BY <1>0, OutcomesAssumption DEF Round, HasRevealed
  <2>2. WriteLive(q, rd)
    BY <1>5 DEF FinalizeCommunityRound
  <2> HIDE DEF rd
  <2> QED
    BY <1>0, <2>1, <2>2, OutcomeAdvance
<1> QED
  BY OutcomeWrite(q), <1>0, <1>1, <1>2, <1>3, <1>4, <1>5 DEF OutcomeWrite

\* Every instruction on the round account alone advances the live copy.
LEMMA RoundWriteAdvances ==
  ASSUME TypeOK, CopyInv, NEW q \in RoundIds, RoundWrite(q)
  PROVE  Writable(q) /\ \E rd : Advance(q, rd) /\ WriteLive(q, rd)
<1>1. ASSUME NEW at \in 1 .. MaxTime, ScheduleLock(q, at)
      PROVE  Writable(q) /\ \E rd : Advance(q, rd) /\ WriteLive(q, rd)
  BY <1>1, ScheduleLockAdvance DEF ScheduleLock
<1>2. CASE LockRound(q)
  BY <1>2, LockRoundAdvance DEF LockRound
<1>3. CASE SettleRound(q)
  BY <1>3, SettleRoundAdvance DEF SettleRound
<1>4. CASE OutcomeWrite(q)
  BY <1>4, OutcomeWriteAdvances
<1> QED
  BY RoundWrite(q), <1>1, <1>2, <1>3, <1>4 DEF RoundWrite

\* open_round starts a round with no bet and an empty counter.
LEMMA OpenRoundStep ==
  ASSUME TypeOK, CopyInv, OpenRound
  PROVE  CopyInv'
<1> DEFINE q == market.last_round + 1
           rd == [AbsentRound EXCEPT !.status = "Predicting", !.opened_at = clock]
<1>1. q \in RoundIds /\ base[q].status = "Absent"
  BY BoundsAssumption DEF OpenRound, TypeOK, Market
<1>2. /\ base' = [base EXCEPT ![q] = rd]
      /\ UNCHANGED <<er, delegated, inflight, bet, clock>>
  BY DEF OpenRound
<1>3. /\ rd.status = "Predicting" /\ rd.unsettled_bets = 0
      /\ rd.lock_scheduled_at = 0
  BY DEF AbsentRound
<1> HIDE DEF q, rd
<1>4. ~delegated[q]
  BY <1>1 DEF CopyInv, CopiesInOrder
<1>5. \A u \in Users : ~bet[q][u].exists
  BY <1>1 DEF CopyInv, BetsBelongToRounds
<1>6. {u \in Users : Open(bet[q][u])} = {}
  BY <1>5 DEF Open
<1>7. Fits(rd, bet[q])
  BY <1>3, <1>5, <1>6, FS_EmptySet DEF Fits
<1>8. CopiesInOrder' /\ CopiesFit'
  BY <1>1, <1>2, <1>4, <1>7, BaseWriteStep DEF CopyInv
<1>9. base'[q] = rd /\ \A r \in RoundIds : r # q => base'[r] = base[r]
  BY <1>1, <1>2 DEF TypeOK
<1>10. BetsBelongToRounds' /\ AbsentIsBlank'
  BY <1>2, <1>3, <1>9 DEF CopyInv, BetsBelongToRounds, AbsentIsBlank
<1> QED
  BY <1>8, <1>10 DEF CopyInv

\* place_bet adds one open bet and counts it, before the scheduled lock.
LEMMA PlaceBetStep ==
  ASSUME TypeOK, CopyInv, NEW q \in RoundIds, NEW v \in Users,
         NEW s \in Selections, NEW stake \in Stakes, PlaceBet(v, q, s, stake)
  PROVE  CopyInv'
<1> DEFINE b == [exists |-> TRUE, stake |-> stake, selection |-> s,
                 odds_bps |-> OddsBps[market.house_edge_bps][s],
                 settled |-> FALSE, won |-> FALSE, payout |-> 0,
                 placed_at |-> clock]
           rd == [base[q] EXCEPT !.unsettled_bets = SaturatingAdd(@)]
<1>0. base[q] \in Round /\ Fits(base[q], bet[q]) /\ clock \in Nat
  BY DEF TypeOK, CopyInv, CopiesFit
<1>1. /\ ~delegated[q] /\ base[q].status = "Predicting"
      /\ base[q].lock_scheduled_at > 0 => clock < base[q].lock_scheduled_at
      /\ ~bet[q][v].exists
      /\ bet' = [bet EXCEPT ![q][v] = b]
      /\ base' = [base EXCEPT ![q].unsettled_bets = SaturatingAdd(@)]
      /\ UNCHANGED <<er, delegated, inflight, clock>>
  BY DEF PlaceBet, TakeStake, OnBase
<1>2. base' = [base EXCEPT ![q] = rd]
  BY <1>0, <1>1 DEF TypeOK
<1>3. /\ rd.status = "Predicting"
      /\ rd.lock_scheduled_at = base[q].lock_scheduled_at
      /\ rd.unsettled_bets = SaturatingAdd(base[q].unsettled_bets)
  BY <1>0, <1>1 DEF Round
<1>4. /\ \A r \in RoundIds : r # q => bet'[r] = bet[r]
      /\ \A u \in Users : u # v => bet'[q][u] = bet[q][u]
      /\ bet'[q][v] = b
  BY <1>1 DEF TypeOK
<1>5. Open(b) /\ b.exists /\ ~b.settled /\ b.placed_at = clock
  BY DEF Open
<1> HIDE DEF b, rd
<1> DEFINE old == {u \in Users : Open(bet[q][u])}
           new == {u \in Users : Open(bet'[q][u])}
<1>6. v \notin old /\ new = old \cup {v}
  BY <1>1, <1>4, <1>5 DEF Open
<1>7. rd.unsettled_bets = Cardinality(new)
  <2>0. old = OpenBets(q)
    BY DEF OpenBets
  <2> HIDE DEF old, new
  <2>1. Cardinality(new) = Cardinality(old) + 1
    BY <1>6, <2>0, OpenBetsBounded, FS_AddElement
  <2>2. base[q].unsettled_bets = Cardinality(old)
    BY <1>0 DEF Fits, old
  <2>3. Cardinality(old) < MaxU32
    BY <1>6, <2>0, OpenBetsBounded
  <2> QED
    BY <1>3, <2>1, <2>2, <2>3 DEF SaturatingAdd
<1>8. Fits(rd, bet'[q])
  <2>1. \A u \in Users : bet'[q][u].exists =>
          (rd.lock_scheduled_at > 0
             => bet'[q][u].placed_at < rd.lock_scheduled_at)
    BY <1>0, <1>1, <1>3, <1>4, <1>5 DEF Fits
  <2> QED
    BY <1>3, <1>7, <2>1 DEF Fits
<1>9. CopiesInOrder' /\ CopiesFit'
  BY <1>1, <1>2, <1>4, <1>8, BaseWriteStep DEF CopyInv
<1>10. base'[q] = rd /\ \A r \in RoundIds : r # q => base'[r] = base[r]
  BY <1>2 DEF TypeOK
<1>11. BetsBelongToRounds'
  BY <1>1, <1>3, <1>4, <1>5, <1>10 DEF CopyInv, BetsBelongToRounds, TypeOK
<1>12. AbsentIsBlank'
  BY <1>3, <1>10 DEF CopyInv, AbsentIsBlank
<1> QED
  BY <1>9, <1>11, <1>12 DEF CopyInv

\* settle_bet and refund_bet remove one open bet and count it off.
LEMMA CloseBetStep ==
  ASSUME TypeOK, CopyInv, NEW q \in RoundIds,
         NEW v \in Users, NEW won \in BOOLEAN, NEW payout \in Nat,
         OnBase(q), base[q].status = "Locked", Open(bet[q][v]),
         CloseBet(v, q, won, payout)
  PROVE  CopyInv'
<1> DEFINE rd == [base[q] EXCEPT !.unsettled_bets = SaturatingSub(@)]
<1>0. /\ base[q] \in Round /\ bet[q][v] \in Bet
      /\ Fits(base[q], bet[q])
  BY DEF TypeOK, CopyInv, CopiesFit
<1>1. /\ ~delegated[q]
      /\ bet' = [bet EXCEPT ![q][v].settled = TRUE, ![q][v].won = won,
                            ![q][v].payout = payout]
      /\ base' = [base EXCEPT ![q].unsettled_bets = SaturatingSub(@)]
      /\ UNCHANGED <<er, delegated, inflight, clock>>
  BY DEF CloseBet, OnBase
<1>2. base' = [base EXCEPT ![q] = rd]
  BY <1>0, <1>1 DEF TypeOK
<1>3. /\ rd.status = "Locked"
      /\ rd.locked_at = base[q].locked_at
      /\ rd.lock_scheduled_at = base[q].lock_scheduled_at
      /\ rd.unsettled_bets = SaturatingSub(base[q].unsettled_bets)
  BY <1>0 DEF Round
<1>4. /\ \A r \in RoundIds : r # q => bet'[r] = bet[r]
      /\ \A u \in Users : u # v => bet'[q][u] = bet[q][u]
      /\ bet'[q][v].exists /\ bet'[q][v].settled
      /\ bet'[q][v].placed_at = bet[q][v].placed_at
  BY <1>0, <1>1 DEF TypeOK, Bet, Open
<1>5. bet[q][v].exists /\ ~bet[q][v].settled
  BY DEF Open
<1> HIDE DEF rd
<1> DEFINE old == {u \in Users : Open(bet[q][u])}
           new == {u \in Users : Open(bet'[q][u])}
<1>6. v \in old /\ new = old \ {v}
  BY <1>4, <1>5 DEF Open
<1>7. rd.unsettled_bets = Cardinality(new)
  <2>0. old = OpenBets(q)
    BY DEF OpenBets
  <2> HIDE DEF old, new
  <2>1. Cardinality(new) = Cardinality(old) - 1
    BY <1>6, <2>0, OpenBetsBounded, FS_RemoveElement
  <2>2. base[q].unsettled_bets = Cardinality(old)
    BY <1>0 DEF Fits, old
  <2>3. Cardinality(old) \in Nat /\ Cardinality(old) # 0
    BY <1>6, <2>0, OpenBetsBounded, FS_EmptySet
  <2> QED
    BY <1>3, <2>1, <2>2, <2>3 DEF SaturatingSub
<1>8. Fits(rd, bet'[q])
  <2>1. \A u \in Users : bet'[q][u].exists =>
          bet[q][u].exists /\ bet'[q][u].placed_at = bet[q][u].placed_at
    BY <1>4, <1>5
  <2> QED
    BY <1>0, <1>3, <1>7, <2>1, base[q].status = "Locked" DEF Fits
<1>9. CopiesInOrder' /\ CopiesFit'
  BY <1>1, <1>2, <1>4, <1>8, BaseWriteStep DEF CopyInv
<1>10. base'[q] = rd /\ \A r \in RoundIds : r # q => base'[r] = base[r]
  BY <1>2 DEF TypeOK
<1>11. BetsBelongToRounds'
  <2>1. clock' = clock /\ BetsBelongToRounds
    BY <1>1 DEF CopyInv
  <2>2. \A r \in RoundIds, u \in Users :
          /\ bet'[r][u].settled => bet'[r][u].exists
          /\ bet'[r][u].exists => bet[r][u].exists
          /\ bet'[r][u].placed_at = bet[r][u].placed_at
          /\ base'[r].status = base[r].status
    BY <1>3, <1>4, <1>5, <1>10, <2>1, base[q].status = "Locked"
       DEF BetsBelongToRounds
  <2> QED
    BY <2>1, <2>2 DEF BetsBelongToRounds
<1>12. AbsentIsBlank'
  BY <1>3, <1>10 DEF CopyInv, AbsentIsBlank
<1> QED
  BY <1>9, <1>11, <1>12 DEF CopyInv

\* delegate_round copies the base account, which fits and is not behind.
LEMMA DelegateStep ==
  ASSUME TypeOK, CopyInv, NEW q \in RoundIds, DelegateRound(q)
  PROVE  CopyInv'
<1>1. /\ base[q].status # "Absent" /\ ~delegated[q] /\ base[q] \in Round
      /\ delegated' = [delegated EXCEPT ![q] = TRUE]
      /\ er' = [er EXCEPT ![q] = base[q]]
      /\ UNCHANGED <<base, inflight, bet, clock>>
  BY DEF DelegateRound, OnBase, TypeOK
<1>2. inflight[q] = NoCommit /\ ~inflight[q].undelegate
  BY <1>1, NotDelegated DEF CopyInv
<1>3. /\ er'[q] = base[q] /\ delegated'[q]
      /\ \A r \in RoundIds : r # q => er'[r] = er[r]
                                   /\ delegated'[r] = delegated[r]
  BY <1>1 DEF TypeOK
<1>4. Ahead(base[q], base[q])
  BY <1>1, AheadReflexive
<1> HIDE DEF Fits, Ahead, NoCommit
<1>5. CopiesInOrder'
  BY <1>1, <1>2, <1>3, <1>4 DEF CopyInv, CopiesInOrder
<1>6. CopiesFit'
  BY <1>1, <1>3 DEF CopyInv, CopiesFit
<1>7. BetsBelongToRounds' /\ AbsentIsBlank'
  BY <1>1 DEF CopyInv, BetsBelongToRounds, AbsentIsBlank
<1> QED
  BY <1>5, <1>6, <1>7 DEF CopyInv

\* commit_round and commit_and_undelegate_round take the rollup's copy as it is.
LEMMA CommitStep ==
  ASSUME TypeOK, CopyInv, NEW q \in RoundIds, NEW und \in BOOLEAN,
         CommitRound(q, und)
  PROVE  CopyInv'
<1>1. /\ delegated[q] /\ er[q] \in Round
      /\ inflight' = [inflight EXCEPT ![q] = [copy |-> er[q], undelegate |-> und]]
      /\ UNCHANGED <<base, er, delegated, bet, clock>>
  BY DEF CommitRound, TypeOK
<1>2. /\ inflight'[q].copy = er[q]
      /\ \A r \in RoundIds : r # q => inflight'[r] = inflight[r]
  BY <1>1 DEF TypeOK
<1>3. Ahead(er[q], er[q])
  BY <1>1, AheadReflexive
<1> HIDE DEF Fits, Ahead, NoCommit
<1>4. CopiesInOrder'
  BY <1>1, <1>2, <1>3 DEF CopyInv, CopiesInOrder
<1>5. CopiesFit'
  BY <1>1, <1>2 DEF CopyInv, CopiesFit
<1>6. BetsBelongToRounds' /\ AbsentIsBlank'
  BY <1>1 DEF CopyInv, BetsBelongToRounds, AbsentIsBlank
<1> QED
  BY <1>4, <1>5, <1>6 DEF CopyInv

\* A finalized commit writes a copy that fits and is ahead of the base account.
LEMMA FinalizeStep ==
  ASSUME TypeOK, CopyInv, NEW q \in RoundIds, FinalizeCommit(q)
  PROVE  CopyInv' /\ Ahead(base'[q], base[q])
<1> DEFINE c == inflight[q].copy
<1>1. /\ delegated[q] /\ base[q].status # "Absent"
      /\ Ahead(er[q], c) /\ Ahead(c, base[q]) /\ Fits(c, bet[q])
      /\ inflight[q].undelegate => c = er[q]
      /\ base[q] \in Round /\ c \in Round
  BY DEF FinalizeCommit, CopyInv, CopiesInOrder, CopiesFit, TypeOK, Commit
<1>2. c.status # "Absent"
  BY <1>1, AheadReflexive, AheadTransitive
<1>3. /\ base' = [base EXCEPT ![q] = c]
      /\ inflight' = [inflight EXCEPT ![q] = NoCommit]
      /\ \A r \in RoundIds : r # q => delegated'[r] = delegated[r]
                                   /\ er'[r] = er[r]
      /\ delegated'[q] => er'[q] = er[q]
      /\ bet' = bet /\ clock' = clock
  BY DEF FinalizeCommit, TypeOK
<1>4. /\ base'[q] = c /\ inflight'[q] = NoCommit
      /\ \A r \in RoundIds : r # q => base'[r] = base[r]
                                   /\ inflight'[r] = inflight[r]
  BY <1>3 DEF TypeOK
<1>5. ~NoCommit.undelegate
  BY DEF NoCommit
<1> HIDE DEF Fits, Ahead, NoCommit, c
<1>6. CopiesInOrder'
  BY <1>1, <1>2, <1>3, <1>4, <1>5 DEF CopyInv, CopiesInOrder
<1>7. CopiesFit'
  BY <1>1, <1>3, <1>4 DEF CopyInv, CopiesFit
<1>8. BetsBelongToRounds' /\ AbsentIsBlank'
  BY <1>2, <1>3, <1>4 DEF CopyInv, BetsBelongToRounds, AbsentIsBlank
<1> QED
  BY <1>1, <1>4, <1>6, <1>7, <1>8 DEF CopyInv

\* A step that touches no round and no bet.
LEMMA QuietStep ==
  ASSUME TypeOK, TypeOK', CopyInv, clock' >= clock,
         UNCHANGED <<base, er, delegated, inflight, bet>>
  PROVE  CopyInv'
<1> HIDE DEF Fits, Ahead, NoCommit
<1>1. CopiesInOrder' /\ CopiesFit' /\ AbsentIsBlank'
  BY DEF CopyInv, CopiesInOrder, CopiesFit, AbsentIsBlank
<1>2. BetsBelongToRounds'
  BY BelongStep DEF CopyInv
<1> QED
  BY <1>1, <1>2 DEF CopyInv

\* The market instructions preserve the inductive invariant.
LEMMA InvMarketStep ==
  ASSUME TypeOK, TypeOK', CopyInv, MarketStep
  PROVE  CopyInv'
<1>1. CASE OpenRound
  BY <1>1, OpenRoundStep
<1>2. CASE ~OpenRound
  <2>1. UNCHANGED <<base, er, delegated, inflight, bet>> /\ clock' >= clock
    BY <1>2 DEF MarketStep, ToggleMarket, SetHouseEdge, Tick, FundVault,
                PayReward, rounds, TypeOK
  <2> QED
    BY <2>1, QuietStep
<1> QED
  BY <1>1, <1>2

\* The round instructions preserve the inductive invariant.
LEMMA InvRoundStep ==
  ASSUME TypeOK, TypeOK', CopyInv, NEW q \in RoundIds, RoundStep(q)
  PROVE  CopyInv'
<1>1. CASE RoundWrite(q)
  BY <1>1, RoundWriteAdvances, WriteLiveStep
<1>2. CASE DelegateRound(q)
  BY <1>2, DelegateStep
<1>3. ASSUME NEW und \in BOOLEAN, CommitRound(q, und) PROVE CopyInv'
  BY <1>3, CommitStep
<1>4. CASE FinalizeCommit(q)
  BY <1>4, FinalizeStep
<1> QED
  BY RoundStep(q), <1>1, <1>2, <1>3, <1>4
     DEF RoundStep, RoundWrite, OutcomeWrite

\* The bet instructions preserve the inductive invariant.
LEMMA InvBetStep ==
  ASSUME TypeOK, CopyInv, NEW v \in Users, NEW q \in RoundIds, BetStep(v, q)
  PROVE  CopyInv'
<1>1. ASSUME NEW s \in Selections, NEW stake \in Stakes, PlaceBet(v, q, s, stake)
      PROVE  CopyInv'
  BY <1>1, PlaceBetStep
<1>2. CASE SettleBet(v, q) \/ RefundBet(v, q)
  <2>1. OnBase(q) /\ base[q].status = "Locked" /\ Open(bet[q][v])
    BY <1>2, ClosingStep
  <2>2. PICK won \in BOOLEAN, payout \in Nat : CloseBet(v, q, won, payout)
    BY <1>2, ClosingStep
  <2> QED
    BY <2>1, <2>2, CloseBetStep
<1> QED
  BY BetStep(v, q), <1>1, <1>2 DEF BetStep

\* The inductive invariant holds before the first round.
LEMMA EngineInvInit == Init => EngineInv
<1> SUFFICES ASSUME Init PROVE EngineInv
  OBVIOUS
<1>1. TypeOK
  BY TypeInit
<1>2. \A r \in RoundIds : {u \in Users : Open(bet[r][u])} = {}
  BY DEF Init, Open, NoBet
<1>3. \A r \in RoundIds : Fits(AbsentRound, bet[r])
  BY <1>2, FS_EmptySet DEF Init, Fits, AbsentRound, NoBet
<1>4. CopiesFit
  BY <1>3 DEF Init, CopiesFit
<1>5. CopiesInOrder
  BY DEF Init, CopiesInOrder, NoCommit
<1>6. BetsBelongToRounds /\ AbsentIsBlank
  BY DEF Init, BetsBelongToRounds, AbsentIsBlank, NoBet
<1> QED
  BY <1>1, <1>4, <1>5, <1>6, EngineInvSplit DEF CopyInv

\* The inductive invariant is inductive.
LEMMA EngineInvNext == EngineInv /\ [Next]_vars => EngineInv'
<1> SUFFICES ASSUME EngineInv, [Next]_vars PROVE EngineInv'
  OBVIOUS
<1>1. TypeOK /\ TypeOK' /\ CopyInv
  BY TypeNext, EngineInvSplit DEF EngineInv
<1>2. CopyInv'
  <2>1. CASE UNCHANGED vars
    BY <1>1, <2>1, QuietStep DEF vars, TypeOK
  <2>2. CASE MarketStep
    BY <1>1, <2>2, InvMarketStep
  <2>3. ASSUME NEW r \in RoundIds, RoundStep(r) PROVE CopyInv'
    BY <1>1, <2>3, InvRoundStep
  <2>4. ASSUME NEW u \in Users, NEW r \in RoundIds, BetStep(u, r) PROVE CopyInv'
    BY <1>1, <2>4, InvBetStep
  <2> QED
    BY <2>1, <2>2, <2>3, <2>4 DEF Next
<1> QED
  BY <1>1, <1>2, EngineInvSplit, PTL

\* The invariant holds in every reachable state, for every number of users,
\* rounds and every odds table.
THEOREM EngineInvariant == Spec => []EngineInv
  BY EngineInvInit, EngineInvNext, PTL DEF Spec

-----------------------------------------------------------------------------
(* What the invariant gives *)

\* unsettled_bets is exact on the base chain and on the rollup.
THEOREM CounterTheorem == Spec => []CounterExact
<1>1. EngineInv => CounterExact
  BY DEF EngineInv
<1> QED
  BY <1>1, EngineInvariant, PTL

\* No bet is open in a settled round.
THEOREM SettledTheorem == Spec => []SettledRoundHasNoOpenBet
<1>1. EngineInv => SettledRoundHasNoOpenBet
  BY DEF EngineInv
<1> QED
  BY <1>1, EngineInvariant, PTL

\* Every bet was placed before its round's lock.
THEOREM BetsPrecedeLockTheorem == Spec => []BetsPrecedeLock
<1>1. EngineInv => BetsPrecedeLock
  BY DEF EngineInv
<1> QED
  BY <1>1, EngineInvariant, PTL

\* The rollup's copy, the commits in flight and the base account are in order.
THEOREM RollupTheorem == Spec => []CopiesInOrder
<1>1. EngineInv => CopiesInOrder
  BY DEF EngineInv
<1> QED
  BY <1>1, EngineInvariant, PTL

\* What a step does to the base account of a round is an advance of it.
LEMMA BaseStepAhead ==
  ASSUME EngineInv, [Next]_vars, NEW p \in RoundIds, base'[p] # base[p]
  PROVE  Ahead(base'[p], base[p])
<1>1. TypeOK /\ CopyInv /\ base[p] \in Round
  BY EngineInvSplit DEF TypeOK
<1>2. CASE MarketStep
  <2>1. OpenRound
    BY <1>2 DEF MarketStep, ToggleMarket, SetHouseEdge, Tick, FundVault,
                PayReward, rounds
  <2>2. p = market.last_round + 1
    BY <2>1 DEF OpenRound
  <2>3. /\ base[p] = AbsentRound
        /\ base'[p] = [AbsentRound EXCEPT !.status = "Predicting",
                                          !.opened_at = clock]
    BY <1>1, <2>1, <2>2 DEF OpenRound, CopyInv, AbsentIsBlank, TypeOK
  <2> QED
    BY <2>3 DEF Ahead, Rank, AbsentRound, HasRevealed
<1>3. ASSUME NEW q \in RoundIds, RoundWrite(q) PROVE Ahead(base'[p], base[p])
  <2>1. PICK rd : Advance(q, rd) /\ WriteLive(q, rd)
    BY <1>1, <1>3, RoundWriteAdvances
  <2>2. ~delegated[q] /\ p = q /\ base'[p] = rd
    BY <1>1, <2>1 DEF WriteLive, TypeOK
  <2> QED
    BY <2>1, <2>2 DEF Advance, Live
<1>4. ASSUME NEW q \in RoundIds, FinalizeCommit(q) PROVE Ahead(base'[p], base[p])
  <2>1. p = q
    BY <1>1, <1>4 DEF FinalizeCommit, TypeOK
  <2> QED
    BY <1>1, <1>4, <2>1, FinalizeStep
<1>5. ASSUME NEW u \in Users, NEW q \in RoundIds, BetStep(u, q)
      PROVE  Ahead(base'[p], base[p])
  <2>1. \/ base' = [base EXCEPT ![q].unsettled_bets = SaturatingAdd(@)]
        \/ base' = [base EXCEPT ![q].unsettled_bets = SaturatingSub(@)]
    <3>1. CASE SettleBet(u, q) \/ RefundBet(u, q)
      BY <1>1, <3>1, ClosingStep DEF CloseBet
    <3> QED
      BY <1>5, <3>1 DEF BetStep, PlaceBet, TakeStake
  <2>2. PICK n : base' = [base EXCEPT ![q].unsettled_bets = n]
    BY <2>1
  <2>3. p = q /\ base'[p] = [base[p] EXCEPT !.unsettled_bets = n]
    BY <1>1, <2>2 DEF TypeOK
  <2>4. /\ base'[p].status = base[p].status
        /\ base'[p].outcome = base[p].outcome
        /\ base'[p].revealed_at = base[p].revealed_at
    BY <1>1, <2>3 DEF Round
  <2> QED
    BY <1>1, <2>4, AheadReflexive DEF Ahead, HasRevealed
<1> QED
  BY <1>2, <1>3, <1>4, <1>5 DEF Next, vars, RoundStep, RoundWrite, OutcomeWrite,
     DelegateRound, CommitRound

\* The base account of a round never goes back, whatever is written to it from
\* the rollup and when.
THEOREM BaseTheorem == Spec => BaseNeverRollsBack
<1>1. EngineInv /\ [Next]_vars => [\A r \in RoundIds : Ahead(base'[r], base[r])]_base
  <2> SUFFICES ASSUME EngineInv, [Next]_vars, NEW r \in RoundIds
               PROVE  Ahead(base'[r], base[r])
    OBVIOUS
  <2>1. base[r] \in Round
    BY DEF EngineInv, TypeOK
  <2>2. CASE base'[r] = base[r]
    <3> HIDE DEF Ahead
    <3> QED
      BY <2>1, <2>2, AheadReflexive
  <2>3. CASE base'[r] # base[r]
    BY <2>3, BaseStepAhead
  <2> QED
    BY <2>2, <2>3
<1> QED
  BY <1>1, EngineInvariant, PTL DEF Spec, BaseNeverRollsBack

-----------------------------------------------------------------------------
(* A commitment waits for the lock window *)

\* A copy with a commitment is past the lock, and was locked long enough ago:
\* lock_round, which sets locked_at, no longer runs on it.
Waited(c) ==
  c.commitment_hash # None =>
    /\ c.status \in {"Locked", "Settled"}
    /\ clock >= c.locked_at + MinLockDuration

\* Also of the copies nobody reads at the moment: they may come to be read.
WindowInv ==
  \A r \in RoundIds : Waited(base[r]) /\ Waited(er[r]) /\ Waited(inflight[r].copy)

\* The blank account has no commitment, so it has waited for nothing.
LEMMA AbsentWaited == Waited(AbsentRound)
  BY DEF Waited, AbsentRound

\* What an instruction writes to the round account alone has waited if the copy
\* it was made from has.
LEMMA WriteWaited ==
  ASSUME TypeOK, NEW q \in RoundIds, RoundWrite(q), Waited(Live(q))
  PROVE  \E rd : Waited(rd) /\ WriteLive(q, rd)
<1>1. Live(q) \in Round
  BY LiveType
<1>2. ASSUME NEW at \in 1 .. MaxTime, ScheduleLock(q, at)
      PROVE  \E rd : Waited(rd) /\ WriteLive(q, rd)
  <2>1. Waited([Live(q) EXCEPT !.lock_scheduled_at = at])
    BY <1>1 DEF Waited, Round
  <2> QED
    BY <1>2, <2>1 DEF ScheduleLock
<1>3. CASE LockRound(q)
  <2>1. Live(q).commitment_hash = None
    BY <1>3 DEF LockRound, Waited
  <2>2. Waited([Live(q) EXCEPT !.status = "Locked", !.locked_at = clock])
    BY <1>1, <2>1 DEF Waited, Round
  <2> QED
    BY <1>3, <2>2 DEF LockRound
<1>4. CASE SettleRound(q)
  <2>1. Waited([Live(q) EXCEPT !.status = "Settled"])
    BY <1>1 DEF Waited, Round
  <2> QED
    BY <1>4, <2>1 DEF SettleRound
<1>5. ASSUME NEW h \in Randomness, VrfCallback(q, h)
      PROVE  \E rd : Waited(rd) /\ WriteLive(q, rd)
  <2>1. Waited([Live(q) EXCEPT !.inputs_hash = h])
    BY <1>1 DEF Waited, Round
  <2> QED
    BY <1>5, <2>1 DEF VrfCallback
<1>6. ASSUME NEW o \in Outcomes, CommitOutcomeHash(q, o)
      PROVE  \E rd : Waited(rd) /\ WriteLive(q, rd)
  <2>1. Waited([Live(q) EXCEPT !.commitment_hash = o])
    BY <1>1, <1>6 DEF Waited, Round, CommitOutcomeHash
  <2> QED
    BY <1>6, <2>1 DEF CommitOutcomeHash
<1>7. ASSUME NEW o \in Outcomes, ErRevealOutcome(q, o)
      PROVE  \E rd : Waited(rd) /\ WriteLive(q, rd)
  <2>1. Waited([Live(q) EXCEPT !.outcome = o, !.revealed_at = clock])
    BY <1>1 DEF Waited, Round
  <2> QED
    BY <1>7, <2>1 DEF ErRevealOutcome
<1>8. ASSUME NEW o \in Outcomes, NEW h \in Randomness, RevealOutcome(q, o, h)
      PROVE  \E rd : Waited(rd) /\ WriteLive(q, rd)
  <2>1. Waited([Live(q) EXCEPT !.inputs_hash = h, !.outcome = o,
                               !.revealed_at = clock])
    BY <1>1 DEF Waited, Round
  <2> QED
    BY <1>8, <2>1 DEF RevealOutcome
<1>9. ASSUME NEW o \in CommunityOutcomes, FinalizeCommunityRound(q, o)
      PROVE  \E rd : Waited(rd) /\ WriteLive(q, rd)
  <2>1. Waited([Live(q) EXCEPT !.outcome = o])
    BY <1>1 DEF Waited, Round
  <2> QED
    BY <1>9, <2>1 DEF FinalizeCommunityRound
<1> QED
  BY RoundWrite(q), <1>2, <1>3, <1>4, <1>5, <1>6, <1>7, <1>8, <1>9
  DEF RoundWrite, OutcomeWrite

\* The market instructions open a blank account and only move the clock on.
LEMMA WindowMarketStep ==
  ASSUME TypeOK, WindowInv, MarketStep
  PROVE  WindowInv'
<1> SUFFICES ASSUME NEW r \in RoundIds
             PROVE  (Waited(base[r]) /\ Waited(er[r]) /\ Waited(inflight[r].copy))'
  BY DEF WindowInv
<1>1. /\ base[r] \in Round /\ er[r] \in Round /\ inflight[r].copy \in Round
      /\ clock \in Nat
  BY DEF TypeOK, Commit
<1>2. CASE OpenRound
  <2>1. /\ er' = er /\ inflight' = inflight /\ clock' = clock
        /\ base'[r] = base[r] \/ base'[r].commitment_hash = None
    BY <1>2 DEF OpenRound, TypeOK, AbsentRound
  <2> QED
    BY <2>1 DEF WindowInv, Waited
<1>3. CASE ~OpenRound
  <2>1. /\ base' = base /\ er' = er /\ inflight' = inflight
        /\ clock' = clock \/ clock' = clock + 1
    BY <1>3 DEF MarketStep, ToggleMarket, SetHouseEdge, Tick, FundVault,
                PayReward, rounds
  <2>2. \A c \in Round : Waited(c) => Waited(c)'
    <3> SUFFICES ASSUME NEW c \in Round, c.commitment_hash # None,
                        clock >= c.locked_at + MinLockDuration
                 PROVE  clock' >= c.locked_at + MinLockDuration
      BY DEF Waited
    <3>1. c.locked_at \in Nat
      BY DEF Round
    <3> QED
      BY <1>1, <2>1, <3>1, BoundsAssumption
  <2> QED
    BY <1>1, <2>1, <2>2 DEF WindowInv, Waited
<1> QED
  BY <1>2, <1>3

\* A round's instructions write a copy that has waited, or move one that has.
LEMMA WindowRoundStep ==
  ASSUME TypeOK, WindowInv, NEW q \in RoundIds, RoundStep(q)
  PROVE  WindowInv'
<1> SUFFICES ASSUME NEW r \in RoundIds
             PROVE  (Waited(base[r]) /\ Waited(er[r]) /\ Waited(inflight[r].copy))'
  BY DEF WindowInv
<1>1. CASE RoundWrite(q)
  <2>1. Waited(Live(q))
    BY DEF WindowInv, Live
  <2>2. PICK rd : Waited(rd) /\ WriteLive(q, rd)
    BY <1>1, <2>1, WriteWaited
  <2>3. /\ inflight' = inflight /\ clock' = clock
        /\ base'[r] = base[r] \/ base'[r] = rd
        /\ er'[r] = er[r] \/ er'[r] = rd
    BY <2>2 DEF WriteLive, TypeOK
  <2> QED
    BY <2>2, <2>3 DEF WindowInv, Waited
<1>2. CASE DelegateRound(q)
  <2>1. /\ base' = base /\ inflight' = inflight /\ clock' = clock
        /\ er'[r] = er[r] \/ er'[r] = base[r]
    BY <1>2 DEF DelegateRound, TypeOK
  <2> QED
    BY <2>1 DEF WindowInv, Waited
<1>3. ASSUME NEW und \in BOOLEAN, CommitRound(q, und)
      PROVE  (Waited(base[r]) /\ Waited(er[r]) /\ Waited(inflight[r].copy))'
  <2>1. /\ base' = base /\ er' = er /\ clock' = clock
        /\ inflight'[r] = inflight[r] \/ inflight'[r].copy = er[r]
    BY <1>3 DEF CommitRound, TypeOK
  <2> QED
    BY <2>1 DEF WindowInv, Waited
<1>4. CASE FinalizeCommit(q)
  <2>1. /\ clock' = clock
        /\ base'[r] = base[r] \/ base'[r] = inflight[r].copy
        /\ er'[r] = er[r] \/ er'[r] = AbsentRound
        /\ inflight'[r] = inflight[r] \/ inflight'[r].copy = AbsentRound
    BY <1>4 DEF FinalizeCommit, TypeOK, NoCommit
  <2> QED
    BY <2>1, AbsentWaited DEF WindowInv, Waited
<1> QED
  BY RoundStep(q), <1>1, <1>2, <1>3, <1>4 DEF RoundStep, RoundWrite, OutcomeWrite

\* A bet changes the counter of the base account and nothing else of a round.
LEMMA WindowBetStep ==
  ASSUME TypeOK, WindowInv, NEW u \in Users, NEW q \in RoundIds, BetStep(u, q)
  PROVE  WindowInv'
<1>1. \/ base' = [base EXCEPT ![q].unsettled_bets = SaturatingAdd(@)]
      \/ base' = [base EXCEPT ![q].unsettled_bets = SaturatingSub(@)]
  <2>1. CASE SettleBet(u, q) \/ RefundBet(u, q)
    <3>1. PICK won \in BOOLEAN, payout \in Nat : CloseBet(u, q, won, payout)
      BY <2>1, ClosingStep
    <3> QED
      BY <3>1 DEF CloseBet
  <2> QED
    BY <2>1 DEF BetStep, PlaceBet, TakeStake
<1>2. PICK n : base' = [base EXCEPT ![q].unsettled_bets = n]
  BY <1>1
<1>3. er' = er /\ inflight' = inflight /\ clock' = clock
  BY DEF BetStep, PlaceBet, TakeStake, SettleBet, RefundBet, CloseBet
<1> SUFFICES ASSUME NEW r \in RoundIds
             PROVE  (Waited(base[r]) /\ Waited(er[r]) /\ Waited(inflight[r].copy))'
  BY DEF WindowInv
<1>4. base[r] \in Round
  BY DEF TypeOK
<1>5. /\ base'[r].commitment_hash = base[r].commitment_hash
      /\ base'[r].status = base[r].status
      /\ base'[r].locked_at = base[r].locked_at
  BY <1>2, <1>4 DEF TypeOK, Round
<1> QED
  BY <1>3, <1>5 DEF WindowInv, Waited

\* Every copy of a round, read or not, has waited.
THEOREM WindowInvariant == Spec => []WindowInv
<1>1. Init => WindowInv
  BY AbsentWaited DEF Init, WindowInv, NoCommit
<1>2. TypeOK /\ WindowInv /\ [Next]_vars => WindowInv'
  <2> SUFFICES ASSUME TypeOK, WindowInv, [Next]_vars PROVE WindowInv'
    OBVIOUS
  <2>1. CASE UNCHANGED vars
    BY <2>1 DEF vars, WindowInv, Waited
  <2> QED
    BY <2>1, WindowMarketStep, WindowRoundStep, WindowBetStep DEF Next
<1> QED
  BY <1>1, <1>2, TypeCorrect, PTL DEF Spec

\* A commitment appears on the copy that instructions work on only when
\* MIN_LOCK_DURATION has passed since the lock that copy records.
THEOREM WindowTheorem == Spec => []CommitAfterLockWindow
<1>1. WindowInv => CommitAfterLockWindow
  BY DEF WindowInv, CommitAfterLockWindow, Waited, Live
<1> QED
  BY <1>1, WindowInvariant, PTL

-----------------------------------------------------------------------------
(* Settled bets are final *)

TermsKept(b, c) ==
  /\ b.settled => c = b
  /\ b.exists => /\ c.exists /\ c.stake = b.stake
                 /\ c.selection = b.selection
                 /\ c.odds_bps = b.odds_bps

\* place_bet writes only a bet account that does not exist yet.
LEMMA PlaceBetKeepsTerms ==
  ASSUME EngineInv, NEW v \in Users, NEW q \in RoundIds,
         NEW s \in Selections, NEW stake \in Stakes, PlaceBet(v, q, s, stake)
  PROVE  \A r \in RoundIds, u \in Users : TermsKept(bet[r][u], bet'[r][u])
<1>1. ~bet[q][v].exists /\ ~bet[q][v].settled
  BY DEF PlaceBet, EngineInv, BetsBelongToRounds
<1>2. \A r \in RoundIds, u \in Users :
        r # q \/ u # v => bet'[r][u] = bet[r][u]
  BY DEF PlaceBet, TakeStake, EngineInv, TypeOK
<1> QED
  BY <1>1, <1>2 DEF TermsKept

\* Closing a bet writes an open bet and keeps its terms.
LEMMA CloseBetKeepsTerms ==
  ASSUME EngineInv, NEW v \in Users, NEW q \in RoundIds,
         SettleBet(v, q) \/ RefundBet(v, q)
  PROVE  \A r \in RoundIds, u \in Users : TermsKept(bet[r][u], bet'[r][u])
<1>1. TypeOK /\ bet[q][v] \in Bet
  BY DEF EngineInv, TypeOK
<1>2. ~bet[q][v].settled
  BY <1>1, ClosingStep DEF Open
<1>3. PICK won \in BOOLEAN, payout \in Nat : CloseBet(v, q, won, payout)
  BY <1>1, ClosingStep
<1>4. \A r \in RoundIds, u \in Users :
        r # q \/ u # v => bet'[r][u] = bet[r][u]
  BY <1>1, <1>3 DEF CloseBet, TypeOK
<1>5. bet'[q][v] = [bet[q][v] EXCEPT !.settled = TRUE, !.won = won,
                                     !.payout = payout]
  BY <1>1, <1>3 DEF CloseBet, TypeOK, Bet
<1>6. TermsKept(bet[q][v], bet'[q][v])
  BY <1>1, <1>2, <1>5 DEF TermsKept, Bet
<1> QED
  BY <1>4, <1>6 DEF TermsKept

\* Only place_bet, settle_bet and refund_bet touch a bet account.
LEMMA OtherStepsKeepBets ==
  [MarketStep \/ \E r \in RoundIds : RoundStep(r)]_vars => bet' = bet
  BY ZenonT(60) DEF MarketStep, RoundStep, ToggleMarket, SetHouseEdge, OpenRound, Tick,
         FundVault, PayReward, ScheduleLock, LockRound, SettleRound,
         VrfCallback, CommitOutcomeHash, ErRevealOutcome, RevealOutcome,
         FinalizeCommunityRound, WriteLive, DelegateRound, CommitRound,
         FinalizeCommit, vars, rounds

\* A bet's terms never change, and a settled or refunded bet never changes at
\* all: it is paid at most once.
THEOREM BetFinalTheorem == Spec => BetIsFinal
<1>1. EngineInv /\ [Next]_vars =>
        \/ bet' = bet
        \/ \A r \in RoundIds, u \in Users : TermsKept(bet[r][u], bet'[r][u])
  <2> SUFFICES ASSUME EngineInv, [Next]_vars, bet' # bet
               PROVE  \A r \in RoundIds, u \in Users :
                        TermsKept(bet[r][u], bet'[r][u])
    OBVIOUS
  <2>1. PICK v \in Users, q \in RoundIds : BetStep(v, q)
    BY OtherStepsKeepBets DEF Next
  <2> QED
    BY <2>1, PlaceBetKeepsTerms, CloseBetKeepsTerms DEF BetStep
<1>2. EngineInv /\ [Next]_vars =>
        [\A r \in RoundIds, u \in Users :
           LET b == bet[r][u]
               c == bet'[r][u] IN
           /\ b.settled => c = b
           /\ b.exists => /\ c.exists /\ c.stake = b.stake
                          /\ c.selection = b.selection
                          /\ c.odds_bps = b.odds_bps]_bet
  BY <1>1 DEF TermsKept
<1> QED
  BY <1>2, EngineInvariant, PTL DEF Spec, BetIsFinal

-----------------------------------------------------------------------------
(* Sums over a finite set *)

NatOrder == {p \in Nat \X Nat : p[1] < p[2]}

\* A nonempty set of naturals has a least element: what an induction over the
\* numbers rests on.
LEMMA LeastNatural ==
  ASSUME NEW T, T \subseteq Nat, T # {}
  PROVE  \E n \in T : \A m \in Nat : m < n => m \notin T
<1>1. IsWellFoundedOn(NatOrder, Nat)
  BY NatLessThanWellFounded DEF OpToRel, NatOrder
<1>2. PICK n \in T : \A m \in T : <<m, n>> \notin NatOrder
  BY <1>1, WFMin
<1>3. ASSUME NEW m \in Nat, m < n, m \in T PROVE FALSE
  <2>1. <<m, n>> \in NatOrder
    BY <1>2, <1>3 DEF NatOrder
  <2> QED
    BY <1>2, <1>3, <2>1
<1> QED
  BY <1>2, <1>3

Chosen(s) == CHOOSE x \in s : TRUE

\* A set of subsets of a finite set, if there are any, has one whose every
\* remainder is not among them.
LEMMA LeastSubset ==
  ASSUME NEW S, IsFiniteSet(S), NEW T, T \subseteq SUBSET S, T # {}
  PROVE  \E s \in T : \A x \in s : s \ {x} \notin T
<1> DEFINE N == {Cardinality(s) : s \in T}
<1>1. \A s \in SUBSET S : IsFiniteSet(s) /\ Cardinality(s) \in Nat
  BY FS_Subset, FS_CardinalityType
<1>2. N \subseteq Nat /\ N # {}
  BY <1>1
<1>3. PICK n \in N : \A m \in Nat : m < n => m \notin N
  <2> HIDE DEF N
  <2> QED
    BY <1>2, LeastNatural
<1>4. PICK s \in T : Cardinality(s) = n
  BY <1>3
<1>5. ASSUME NEW x \in s, s \ {x} \in T PROVE FALSE
  <2>1. Cardinality(s \ {x}) = n - 1
    BY <1>1, <1>4, FS_RemoveElement
  <2>2. Cardinality(s \ {x}) \in N /\ Cardinality(s \ {x}) \in Nat
    BY <1>1, <1>5
  <2> HIDE DEF N
  <2>3. n \in Nat /\ n - 1 < n
    BY <1>2
  <2> QED
    BY <1>3, <2>1, <2>2, <2>3
<1> QED
  BY <1>4, <1>5

\* g[s] is the sum of v over s, for every s in D: how the folds compute it.
Sums(v, D, g) ==
  g = [s \in D |-> IF s = {} THEN 0 ELSE v[Chosen(s)] + g[s \ {Chosen(s)}]]

\* There is such a g, of all subsets of a finite set: by the largest size of
\* the subsets it is defined for.
LEMMA SumsExist ==
  ASSUME NEW S, IsFiniteSet(S), NEW v
  PROVE  \E g : Sums(v, SUBSET S, g)
<1> DEFINE Upto(n) == {s \in SUBSET S : Cardinality(s) <= n}
           Without == {n \in Nat : ~ \E g : Sums(v, Upto(n), g)}
<1>1. \A s \in SUBSET S : IsFiniteSet(s) /\ Cardinality(s) \in Nat
  BY FS_Subset, FS_CardinalityType
<1>2. ASSUME NEW s \in SUBSET S, s # {}
      PROVE  /\ Chosen(s) \in s /\ s \ {Chosen(s)} \in SUBSET S
             /\ Cardinality(s \ {Chosen(s)}) = Cardinality(s) - 1
  <2>1. Chosen(s) \in s
    BY <1>2 DEF Chosen
  <2> QED
    BY <1>1, <2>1, FS_RemoveElement
<1>3. ASSUME NEW n \in Nat, \A m \in Nat : m < n => m \notin Without
      PROVE  n \notin Without
  <2>1. CASE n = 0
    <3> DEFINE g == [s \in Upto(n) |-> 0]
    <3>1. \A s \in Upto(n) : s = {}
      BY <1>1, <2>1, FS_EmptySet
    <3>2. Sums(v, Upto(n), g)
      BY <3>1 DEF Sums
    <3> QED
      BY <3>2
  <2>2. CASE n # 0
    <3>1. n - 1 \in Nat /\ n - 1 \notin Without
      <4>1. n - 1 \in Nat /\ n - 1 < n
        BY <2>2
      <4> HIDE DEF Without
      <4> QED
        BY <1>3, <4>1
    <3>2. PICK g : Sums(v, Upto(n - 1), g)
      BY <3>1
    <3>3. PICK h : h = [s \in Upto(n) |-> IF s = {} THEN 0
                          ELSE v[Chosen(s)] + g[s \ {Chosen(s)}]]
      OBVIOUS
    <3>4. ASSUME NEW s \in Upto(n), s # {}
          PROVE  h[s \ {Chosen(s)}] = g[s \ {Chosen(s)}]
      <4> DEFINE t == s \ {Chosen(s)}
      <4>1. t \in Upto(n - 1) /\ t \in Upto(n)
        BY <1>1, <1>2, <3>4
      <4> HIDE DEF t, Upto
      <4>2. g[t] = IF t = {} THEN 0 ELSE v[Chosen(t)] + g[t \ {Chosen(t)}]
        BY <3>2, <4>1 DEF Sums
      <4>3. h[t] = IF t = {} THEN 0 ELSE v[Chosen(t)] + g[t \ {Chosen(t)}]
        BY <3>3, <4>1
      <4> QED
        BY <4>2, <4>3 DEF t
    <3>5. Sums(v, Upto(n), h)
      <4> HIDE DEF Upto
      <4> QED
        BY <3>3, <3>4 DEF Sums
    <3> QED
      BY <3>5
  <2> QED
    BY <2>1, <2>2
<1>4. Without = {}
  <2>1. Without \subseteq Nat
    OBVIOUS
  <2> HIDE DEF Without
  <2> QED
    BY <1>3, <2>1, LeastNatural
<1>5. Cardinality(S) \in Nat /\ Upto(Cardinality(S)) = SUBSET S
  BY <1>1, FS_Subset, FS_CardinalityType
<1> QED
  BY <1>4, <1>5

\* SumFunction is the sum that g computes, and g can be unfolded.
LEMMA SumUnfolds ==
  ASSUME NEW v, IsFiniteSet(DOMAIN v)
  PROVE  \E g : Sums(v, SUBSET DOMAIN v, g) /\ SumFunction(v) = g[DOMAIN v]
<1> DEFINE g == CHOOSE h : Sums(v, SUBSET DOMAIN v, h)
<1>1. Sums(v, SUBSET DOMAIN v, g)
  BY SumsExist
<1>2. SumFunction(v) = g[DOMAIN v]
  BY Zenon DEF SumFunction, SumFunctionOnSet, FoldFunctionOnSet, MapThenFoldSet,
     Sums, Chosen
<1> QED
  BY <1>1, <1>2

\* When one value of a function changes, the sum changes by as much.
LEMMA SumChanges ==
  ASSUME NEW S, IsFiniteSet(S), NEW v \in [S -> Int], NEW w \in [S -> Int],
         NEW p \in S, \A q \in S : q # p => w[q] = v[q]
  PROVE  /\ SumFunction(v) \in Int
         /\ SumFunction(w) = SumFunction(v) + (w[p] - v[p])
<1>1. DOMAIN v = S /\ DOMAIN w = S
  OBVIOUS
<1>2. PICK f : Sums(v, SUBSET S, f) /\ SumFunction(v) = f[S]
  BY <1>1, SumUnfolds
<1>3. PICK g : Sums(w, SUBSET S, g) /\ SumFunction(w) = g[S]
  BY <1>1, SumUnfolds
<1> DEFINE Gain(s) == IF p \in s THEN w[p] - v[p] ELSE 0
           Wrong == {s \in SUBSET S : ~(f[s] \in Int /\ g[s] = f[s] + Gain(s))}
<1>4. ASSUME NEW s \in Wrong, \A x \in s : s \ {x} \notin Wrong
      PROVE  FALSE
  <2>1. /\ f[s] = IF s = {} THEN 0 ELSE v[Chosen(s)] + f[s \ {Chosen(s)}]
        /\ g[s] = IF s = {} THEN 0 ELSE w[Chosen(s)] + g[s \ {Chosen(s)}]
    <3>1. s \in SUBSET S
      OBVIOUS
    <3> HIDE DEF Wrong
    <3> QED
      BY <1>2, <1>3, <3>1 DEF Sums
  <2>2. CASE s = {}
    BY <2>1, <2>2
  <2>3. CASE s # {}
    <3>1. PICK x : x = Chosen(s)
      OBVIOUS
    <3>2. x \in s /\ x \in S
      BY <2>3, <3>1 DEF Chosen
    <3>3. /\ f[s \ {x}] \in Int
          /\ g[s \ {x}] = f[s \ {x}] + Gain(s \ {x})
      BY <1>4, <3>2
    <3>4. f[s] = v[x] + f[s \ {x}] /\ g[s] = w[x] + g[s \ {x}]
      BY <2>1, <2>3, <3>1
    <3>5. CASE x = p
      BY <3>2, <3>3, <3>4, <3>5
    <3>6. CASE x # p
      BY <3>2, <3>3, <3>4, <3>6
    <3> QED
      BY <3>5, <3>6
  <2> QED
    BY <2>2, <2>3
<1>5. Wrong = {}
  <2>1. Wrong \subseteq SUBSET S
    OBVIOUS
  <2> HIDE DEF Wrong
  <2> QED
    BY <1>4, <2>1, LeastSubset
<1> QED
  BY <1>2, <1>3, <1>5

\* A sum of nothing but zeros is zero.
LEMMA SumOfZeros ==
  ASSUME NEW S, IsFiniteSet(S)
  PROVE  SumFunction([p \in S |-> 0]) = 0
<1> DEFINE v == [p \in S |-> 0]
<1>1. DOMAIN v = S
  OBVIOUS
<1>2. PICK f : Sums(v, SUBSET S, f) /\ SumFunction(v) = f[S]
  <2> HIDE DEF v
  <2> QED
    BY <1>1, SumUnfolds
<1> DEFINE Wrong == {s \in SUBSET S : f[s] # 0}
<1>3. ASSUME NEW s \in Wrong, \A x \in s : s \ {x} \notin Wrong
      PROVE  FALSE
  <2>1. f[s] = IF s = {} THEN 0 ELSE v[Chosen(s)] + f[s \ {Chosen(s)}]
    <3>1. s \in SUBSET S
      OBVIOUS
    <3> HIDE DEF Wrong, v
    <3> QED
      BY <1>2, <3>1 DEF Sums
  <2>2. s # {} => Chosen(s) \in s
    BY DEF Chosen
  <2> QED
    BY <1>3, <2>1, <2>2
<1>4. Wrong = {}
  <2>1. Wrong \subseteq SUBSET S
    OBVIOUS
  <2> HIDE DEF Wrong
  <2> QED
    BY <1>3, <2>1, LeastSubset
<1> QED
  BY <1>2, <1>4

\* A sum of integers is an integer.
LEMMA SumType ==
  ASSUME NEW S, IsFiniteSet(S), NEW v \in [S -> Int]
  PROVE  SumFunction(v) \in Int
<1>1. CASE S = {}
  <2>1. v = [p \in S |-> 0]
    BY <1>1
  <2> QED
    BY <2>1, SumOfZeros
<1>2. ASSUME NEW p \in S PROVE SumFunction(v) \in Int
  BY SumChanges
<1> QED
  BY <1>1, <1>2

-----------------------------------------------------------------------------
(* The books balance *)

\* What the books need to know of a bet: one that is not placed holds no stake,
\* one that is not closed has paid nothing.
Unpaid(b) ==
  /\ ~b.exists => b.stake = 0
  /\ ~b.settled => b.payout = 0

BooksInv ==
  /\ BooksBalance
  /\ \A r \in RoundIds, u \in Users : Unpaid(bet[r][u])

\* The bets of the market are finitely many, and their amounts are numbers.
LEMMA BetsSummable ==
  ASSUME TypeOK
  PROVE  /\ IsFiniteSet(RoundIds \X Users)
         /\ StakesTaken \in [RoundIds \X Users -> Int]
         /\ PayoutsRecorded \in [RoundIds \X Users -> Int]
         /\ SumFunction(StakesTaken) \in Int
         /\ SumFunction(PayoutsRecorded) \in Int
<1>1. IsFiniteSet(RoundIds \X Users)
  <2>1. IsFiniteSet(1 .. MaxRounds)
    BY FS_Interval, BoundsAssumption
  <2> QED
    BY <2>1, FS_Product, UsersAssumption
<1>2. /\ StakesTaken \in [RoundIds \X Users -> Int]
      /\ PayoutsRecorded \in [RoundIds \X Users -> Int]
  <2>1. \A p \in RoundIds \X Users :
          bet[p[1]][p[2]].stake \in Int /\ bet[p[1]][p[2]].payout \in Int
    BY DEF TypeOK, Bet
  <2> QED
    BY <2>1 DEF StakesTaken, PayoutsRecorded
<1> QED
  BY <1>1, <1>2, SumType

\* A step that writes one bet changes each sum by what it changes in that bet.
LEMMA BetSums ==
  ASSUME TypeOK, TypeOK', NEW q \in RoundIds, NEW v \in Users,
         \A r \in RoundIds, u \in Users :
           r # q \/ u # v => bet'[r][u] = bet[r][u]
  PROVE  /\ SumFunction(StakesTaken)' =
              SumFunction(StakesTaken) + (bet'[q][v].stake - bet[q][v].stake)
         /\ SumFunction(PayoutsRecorded)' =
              SumFunction(PayoutsRecorded) + (bet'[q][v].payout - bet[q][v].payout)
<1> DEFINE P == RoundIds \X Users
<1>1. PICK s0, s1, p0, p1 :
        /\ s0 = StakesTaken /\ s1 = StakesTaken'
        /\ p0 = PayoutsRecorded /\ p1 = PayoutsRecorded'
  OBVIOUS
<1>2. /\ IsFiniteSet(P) /\ s0 \in [P -> Int] /\ p0 \in [P -> Int]
      /\ s1 \in [P -> Int] /\ p1 \in [P -> Int]
  <2>1. StakesTaken' \in [P -> Int] /\ PayoutsRecorded' \in [P -> Int]
    <3>1. \A p \in P :
            bet'[p[1]][p[2]].stake \in Int /\ bet'[p[1]][p[2]].payout \in Int
      <4>1. bet' \in [RoundIds -> [Users -> Bet]]
        BY TypeOK' DEF TypeOK
      <4> QED
        BY <4>1 DEF Bet
    <3> QED
      BY <3>1 DEF StakesTaken, PayoutsRecorded
  <2> QED
    BY <1>1, <2>1, BetsSummable
<1>3. /\ <<q, v>> \in P
      /\ s0[<<q, v>>] = bet[q][v].stake /\ s1[<<q, v>>] = bet'[q][v].stake
      /\ p0[<<q, v>>] = bet[q][v].payout /\ p1[<<q, v>>] = bet'[q][v].payout
  BY <1>1 DEF StakesTaken, PayoutsRecorded
<1>4. \A p \in P : p # <<q, v>> => s1[p] = s0[p] /\ p1[p] = p0[p]
  <2> SUFFICES ASSUME NEW r \in RoundIds, NEW u \in Users, r # q \/ u # v
               PROVE  /\ s1[<<r, u>>] = s0[<<r, u>>]
                      /\ p1[<<r, u>>] = p0[<<r, u>>]
    OBVIOUS
  <2>1. bet'[r][u] = bet[r][u]
    OBVIOUS
  <2> QED
    BY <1>1, <2>1 DEF StakesTaken, PayoutsRecorded
<1>5. PICK k : k = <<q, v>>
  OBVIOUS
<1>6. /\ SumFunction(s1) = SumFunction(s0) + (s1[k] - s0[k])
      /\ SumFunction(p1) = SumFunction(p0) + (p1[k] - p0[k])
  <2>1. k \in P /\ \A p \in P : p # k => s1[p] = s0[p] /\ p1[p] = p0[p]
    BY <1>3, <1>4, <1>5
  <2> HIDE DEF P
  <2> QED
    BY <1>2, <2>1, SumChanges
<1>7. /\ SumFunction(StakesTaken)' = SumFunction(s1)
      /\ SumFunction(PayoutsRecorded)' = SumFunction(p1)
  BY <1>1
<1> QED
  BY <1>1, <1>3, <1>5, <1>6, <1>7

\* place_bet takes into the vault what it writes into the bet account.
LEMMA PlaceBetBooks ==
  ASSUME EngineInv, TypeOK', BooksInv, NEW v \in Users, NEW q \in RoundIds,
         NEW s \in Selections, NEW stake \in Stakes, PlaceBet(v, q, s, stake)
  PROVE  BooksInv'
<1>1. TypeOK /\ stake \in Nat
  BY AmountsAssumption DEF EngineInv
<1>2. \A r \in RoundIds, u \in Users :
        r # q \/ u # v => bet'[r][u] = bet[r][u]
  BY <1>1 DEF PlaceBet, TakeStake, TypeOK
<1>3. /\ bet'[q][v].stake = stake /\ bet'[q][v].payout = 0
      /\ bet'[q][v].exists /\ ~bet'[q][v].settled
  BY <1>1 DEF PlaceBet, TakeStake, TypeOK
<1>4. bet[q][v].stake = 0 /\ bet[q][v].payout = 0
  BY DEF PlaceBet, BooksInv, Unpaid, EngineInv, BetsBelongToRounds
<1>5. BooksBalance'
  <2>1. /\ SumFunction(StakesTaken)' = SumFunction(StakesTaken) + stake
        /\ SumFunction(PayoutsRecorded)' = SumFunction(PayoutsRecorded)
    BY <1>1, <1>2, <1>3, <1>4, BetSums, BetsSummable
  <2>2. vault' = vault + stake /\ external' = external
    BY DEF PlaceBet, TakeStake
  <2>3. vault \in Nat /\ external \in Int
    BY <1>1 DEF TypeOK
  <2> QED
    BY <1>1, <2>1, <2>2, <2>3, BetsSummable DEF BooksInv, BooksBalance
<1>6. \A r \in RoundIds, u \in Users : Unpaid(bet[r][u])'
  BY <1>2, <1>3 DEF BooksInv, Unpaid
<1> QED
  BY <1>5, <1>6 DEF BooksInv

\* settle_bet and refund_bet pay from the vault what they write into the bet
\* account, which recorded no payout before.
LEMMA CloseBetBooks ==
  ASSUME EngineInv, TypeOK', BooksInv, NEW v \in Users, NEW q \in RoundIds,
         SettleBet(v, q) \/ RefundBet(v, q)
  PROVE  BooksInv'
<1>1. TypeOK /\ bet[q][v] \in Bet
  BY DEF EngineInv, TypeOK
<1>2. PICK won \in BOOLEAN, payout \in Nat : CloseBet(v, q, won, payout)
  BY <1>1, ClosingStep
<1>3. \A r \in RoundIds, u \in Users :
        r # q \/ u # v => bet'[r][u] = bet[r][u]
  BY <1>1, <1>2 DEF CloseBet, TypeOK
<1>4. bet'[q][v] = [bet[q][v] EXCEPT !.settled = TRUE, !.won = won,
                                     !.payout = payout]
  BY <1>1, <1>2 DEF CloseBet, TypeOK, Bet
<1>5. /\ bet'[q][v].stake = bet[q][v].stake /\ bet'[q][v].payout = payout
      /\ bet'[q][v].exists /\ bet'[q][v].settled
  BY <1>1, <1>4, ClosingStep DEF Bet, Open
<1>6. bet[q][v].payout = 0
  BY <1>1, ClosingStep DEF Open, BooksInv, Unpaid
<1>7. BooksBalance'
  <2>1. bet[q][v].stake \in Nat
    BY <1>1 DEF Bet
  <2>2. /\ SumFunction(StakesTaken)' = SumFunction(StakesTaken)
        /\ SumFunction(PayoutsRecorded)' = SumFunction(PayoutsRecorded) + payout
    BY <1>1, <1>3, <1>5, <1>6, <2>1, BetSums, BetsSummable
  <2>3. vault' = vault - payout /\ external' = external
    BY <1>2 DEF CloseBet
  <2>4. vault \in Nat /\ external \in Int
    BY <1>1 DEF TypeOK
  <2> QED
    BY <1>1, <2>2, <2>3, <2>4, BetsSummable DEF BooksInv, BooksBalance
<1>8. \A r \in RoundIds, u \in Users : Unpaid(bet[r][u])'
  BY <1>3, <1>5 DEF BooksInv, Unpaid
<1> QED
  BY <1>7, <1>8 DEF BooksInv

\* Every other step leaves the bets alone, and moves the vault only together
\* with the external transfers.
LEMMA OtherStepsBooks ==
  ASSUME TypeOK, BooksInv, [MarketStep \/ \E r \in RoundIds : RoundStep(r)]_vars
  PROVE  BooksInv'
<1>1. bet' = bet
  BY OtherStepsKeepBets
<1>2. \/ vault' = vault /\ external' = external
      \/ \E a \in Nat : vault' = vault + a /\ external' = external + a
      \/ \E a \in Nat : vault' = vault - a /\ external' = external - a
  <2>1. CASE MarketStep
    BY SMTT(60), <2>1, AmountsAssumption DEF MarketStep, ToggleMarket, SetHouseEdge,
       OpenRound, Tick, FundVault, PayReward
  <2>2. CASE \E r \in RoundIds : RoundStep(r)
    BY ZenonT(60), <2>2 DEF RoundStep, ScheduleLock, LockRound, SettleRound, VrfCallback,
       CommitOutcomeHash, ErRevealOutcome, RevealOutcome, FinalizeCommunityRound,
       WriteLive, DelegateRound, CommitRound, FinalizeCommit
  <2> QED
    BY <2>1, <2>2 DEF vars
<1>3. /\ SumFunction(StakesTaken)' = SumFunction(StakesTaken)
      /\ SumFunction(PayoutsRecorded)' = SumFunction(PayoutsRecorded)
  BY <1>1 DEF StakesTaken, PayoutsRecorded
<1>4. vault \in Nat /\ external \in Int
  BY DEF TypeOK
<1>5. BooksBalance'
  BY <1>2, <1>3, <1>4, BetsSummable DEF BooksInv, BooksBalance
<1> QED
  BY <1>1, <1>5 DEF BooksInv, Unpaid

\* A new market has an empty vault and no bets.
LEMMA BooksInit == Init => BooksInv
<1> SUFFICES ASSUME Init PROVE BooksInv
  OBVIOUS
<1>1. \A r \in RoundIds, u \in Users : bet[r][u] = NoBet
  BY DEF Init
<1>2. /\ StakesTaken = [p \in RoundIds \X Users |-> 0]
      /\ PayoutsRecorded = [p \in RoundIds \X Users |-> 0]
  BY <1>1 DEF StakesTaken, PayoutsRecorded, NoBet
<1>3. SumFunction(StakesTaken) = 0 /\ SumFunction(PayoutsRecorded) = 0
  BY <1>2, TypeInit, BetsSummable, SumOfZeros
<1> QED
  BY <1>1, <1>3 DEF Init, BooksInv, BooksBalance, Unpaid, NoBet

\* Whatever is placed, settled, refunded, funded and paid out: the vault holds
\* the external transfers and the stakes, less the payouts the bets record.
THEOREM BooksTheorem == Spec => []BooksBalance
<1>1. EngineInv /\ TypeOK' /\ BooksInv /\ [Next]_vars => BooksInv'
  <2> SUFFICES ASSUME EngineInv, TypeOK', BooksInv, [Next]_vars PROVE BooksInv'
    OBVIOUS
  <2>1. CASE \E u \in Users, r \in RoundIds : BetStep(u, r)
    BY <2>1, PlaceBetBooks, CloseBetBooks DEF BetStep
  <2>2. CASE [MarketStep \/ \E r \in RoundIds : RoundStep(r)]_vars
    BY <2>2, OtherStepsBooks DEF EngineInv
  <2> QED
    BY <2>1, <2>2 DEF Next
<1>2. BooksInv => BooksBalance
  BY DEF BooksInv
<1> QED
  BY <1>1, <1>2, BooksInit, EngineInvariant, TypeCorrect, PTL DEF Spec

-----------------------------------------------------------------------------
(* The program implements the book of wagers *)

\* No round and no bet account is an empty book of wagers.
LEMMA RefinesInit == Init => Book!Init
<1> SUFFICES ASSUME Init PROVE Book!Init
  OBVIOUS
<1>1. BookOf = [r \in RoundIds |-> "Absent"]
  BY DEF Init, BookOf, Live, AbsentRound
<1>2. SlipOf(NoBet) = Book!NoSlip
  BY DEF SlipOf, NoBet, Book!NoSlip
<1>3. SlipsOf = [r \in RoundIds |-> [u \in Users |-> Book!NoSlip]]
  BY <1>2 DEF Init, SlipsOf
<1> QED
  BY <1>1, <1>3 DEF Book!Init

\* A step that moves no live status and touches no bet is invisible in the book.
LEMMA QuietRefines ==
  ASSUME bet' = bet, \A r \in RoundIds : Live(r)'.status = Live(r).status
  PROVE  UNCHANGED <<BookOf, SlipsOf>>
<1>1. BookOf' = BookOf
  BY DEF BookOf
<1>2. SlipsOf' = SlipsOf
  BY DEF SlipsOf, SlipOf
<1> QED
  BY <1>1, <1>2

\* A step that moves the status of one round and touches no bet.
LEMMA StatusRefines ==
  ASSUME bet' = bet, NEW q \in RoundIds, NEW st, Live(q)'.status = st,
         \A r \in RoundIds : r # q => Live(r)'.status = Live(r).status
  PROVE  /\ BookOf' = [BookOf EXCEPT ![q] = st]
         /\ SlipsOf' = SlipsOf
<1>1. BookOf' = [BookOf EXCEPT ![q] = st]
  BY DEF BookOf
<1>2. SlipsOf' = SlipsOf
  BY DEF SlipsOf, SlipOf
<1> QED
  BY <1>1, <1>2

\* Writing the live copy of a round writes no other round's.
LEMMA WriteLiveReads ==
  ASSUME TypeOK, NEW q \in RoundIds, NEW rd, WriteLive(q, rd)
  PROVE  /\ bet' = bet /\ Live(q)' = rd
         /\ \A r \in RoundIds : r # q => Live(r)' = Live(r)
  BY DEF WriteLive, Live, TypeOK

\* A step that writes the base account of a round on the base chain.
LEMMA BaseWriteReads ==
  ASSUME TypeOK, NEW q \in RoundIds, NEW rd, ~delegated[q],
         base' = [base EXCEPT ![q] = rd], UNCHANGED <<er, delegated>>
  PROVE  /\ Live(q)' = rd
         /\ \A r \in RoundIds : r # q => Live(r)' = Live(r)
  BY DEF Live, TypeOK

\* open_round opens a book.
LEMMA OpenRoundRefines ==
  ASSUME EngineInv, OpenRound
  PROVE  \E r \in RoundIds : Book!OpenBook(r)
<1> DEFINE rd == [AbsentRound EXCEPT !.status = "Predicting", !.opened_at = clock]
<1>0. TypeOK /\ market.last_round + 1 \in RoundIds
  BY BoundsAssumption DEF OpenRound, EngineInv, TypeOK, Market
<1>1. PICK q \in RoundIds : q = market.last_round + 1
  BY <1>0
<1>2. /\ bet' = bet /\ base[q].status = "Absent"
      /\ base' = [base EXCEPT ![q] = rd] /\ UNCHANGED <<er, delegated>>
  BY <1>1 DEF OpenRound
<1>2a. rd.status = "Predicting"
  BY DEF AbsentRound
<1> HIDE DEF rd
<1>3. ~delegated[q]
  BY <1>1, <1>2 DEF EngineInv, CopiesInOrder
<1>4. Live(q)' = rd /\ \A r \in RoundIds : r # q => Live(r)' = Live(r)
  BY <1>0, <1>2, <1>3, BaseWriteReads
<1>5. /\ BookOf' = [BookOf EXCEPT ![q] = "Predicting"]
      /\ SlipsOf' = SlipsOf
  BY <1>1, <1>2, <1>4, <1>2a, StatusRefines
<1>6. BookOf[q] = "Absent"
  BY <1>1, <1>2, <1>3 DEF BookOf, Live
<1> QED
  BY <1>1, <1>5, <1>6 DEF Book!OpenBook

\* lock_round closes a book, on the base chain or on the rollup.
LEMMA LockRoundRefines ==
  ASSUME EngineInv, NEW q \in RoundIds, LockRound(q)
  PROVE  Book!CloseBook(q)
<1> DEFINE rd == [Live(q) EXCEPT !.status = "Locked", !.locked_at = clock]
<1>1. TypeOK /\ Live(q) \in Round
  BY LiveType DEF EngineInv
<1>2. rd.status = "Locked" /\ Live(q).status = "Predicting" /\ WriteLive(q, rd)
  BY <1>1 DEF LockRound, Round
<1> HIDE DEF rd
<1>3. /\ bet' = bet /\ Live(q)' = rd
      /\ \A r \in RoundIds : r # q => Live(r)' = Live(r)
  BY <1>1, <1>2, WriteLiveReads
<1>4. /\ BookOf' = [BookOf EXCEPT ![q] = "Locked"]
      /\ SlipsOf' = SlipsOf
  BY <1>2, <1>3, StatusRefines
<1> QED
  BY <1>2, <1>4 DEF Book!CloseBook, BookOf

\* settle_round settles a book whose bets are all closed: the counter says so.
LEMMA SettleRoundRefines ==
  ASSUME EngineInv, NEW q \in RoundIds, SettleRound(q)
  PROVE  Book!SettleBook(q)
<1> DEFINE rd == [Live(q) EXCEPT !.status = "Settled"]
<1>1. TypeOK /\ CopyInv /\ Live(q) \in Round
  BY LiveType, EngineInvSplit DEF EngineInv
<1>2. rd.status = "Settled" /\ Live(q).status = "Locked" /\ WriteLive(q, rd)
  BY <1>1 DEF SettleRound, Round
<1>3. OpenBets(q) = {}
  BY <1>1, SettleRoundAdvance
<1> HIDE DEF rd
<1>4. /\ bet' = bet /\ Live(q)' = rd
      /\ \A r \in RoundIds : r # q => Live(r)' = Live(r)
  BY <1>1, <1>2, WriteLiveReads
<1>5. /\ BookOf' = [BookOf EXCEPT ![q] = "Settled"]
      /\ SlipsOf' = SlipsOf
  BY <1>2, <1>4, StatusRefines
<1>6. \A u \in Users : SlipsOf[q][u].state # "open"
  BY <1>3 DEF SlipsOf, SlipOf, OpenBets, Open
<1> QED
  BY <1>2, <1>5, <1>6 DEF Book!SettleBook, BookOf

\* A bet step keeps the live status of every round.
LEMMA BetStepKeepsBook ==
  ASSUME TypeOK, NEW q \in RoundIds, OnBase(q), NEW n,
         base' = [base EXCEPT ![q].unsettled_bets = n],
         UNCHANGED <<er, delegated>>
  PROVE  BookOf' = BookOf /\ BookOf[q] = base[q].status
<1>1. base[q] \in Round
  BY DEF TypeOK
<1>2. \A r \in RoundIds : base'[r].status = base[r].status
  BY <1>1 DEF TypeOK, Round
<1>3. \A r \in RoundIds : Live(r)'.status = Live(r).status
  BY <1>2 DEF Live
<1>4. BookOf' = BookOf
  BY <1>3 DEF BookOf
<1> QED
  BY <1>4 DEF BookOf, Live, OnBase

\* A step that changes the bet of one user in one round changes one slip.
LEMMA SlipUpdate ==
  ASSUME NEW q \in RoundIds, NEW v \in Users,
         \A r \in RoundIds : r # q => bet'[r] = bet[r],
         \A u \in Users : u # v => bet'[q][u] = bet[q][u]
  PROVE  SlipsOf' = [SlipsOf EXCEPT ![q][v] = SlipOf(bet'[q][v])]
<1>1. SlipsOf' = [r \in RoundIds |-> [u \in Users |-> SlipOf(bet'[r][u])]]
  BY DEF SlipsOf, SlipOf
<1>2. \A r \in RoundIds : r # q => SlipsOf'[r] = SlipsOf[r]
  BY <1>1 DEF SlipsOf
<1>3. SlipsOf'[q] = [SlipsOf[q] EXCEPT ![v] = SlipOf(bet'[q][v])]
  BY <1>1 DEF SlipsOf
<1> QED
  BY <1>1, <1>2, <1>3 DEF SlipsOf

\* The bet account CloseBet writes is the closed slip.
LEMMA SlipClosed ==
  ASSUME NEW b, NEW c, c.exists, c.settled,
         c.stake = b.stake, c.odds_bps = b.odds_bps
  PROVE  SlipOf(c) = Book!Closed(SlipOf(b), c.payout)
  BY DEF SlipOf, Book!Closed

\* place_bet takes a bet at odds the market offers.
LEMMA PlaceBetRefines ==
  ASSUME EngineInv, NEW v \in Users, NEW q \in RoundIds,
         NEW s \in Selections, NEW stake \in Stakes, PlaceBet(v, q, s, stake)
  PROVE  \E odds \in OddsOffered : Book!TakeBet(v, q, stake, odds)
<1> DEFINE odds == OddsBps[market.house_edge_bps][s]
           b == [exists |-> TRUE, stake |-> stake, selection |-> s,
                 odds_bps |-> odds, settled |-> FALSE, won |-> FALSE,
                 payout |-> 0, placed_at |-> clock]
<1>0. TypeOK
  BY DEF EngineInv
<1>1. odds \in OddsOffered
  BY <1>0 DEF OddsOffered, TypeOK, Market
<1>2. /\ OnBase(q) /\ base[q].status = "Predicting" /\ ~bet[q][v].exists
      /\ base' = [base EXCEPT ![q].unsettled_bets = SaturatingAdd(@)]
      /\ UNCHANGED <<er, delegated>>
  BY DEF PlaceBet, TakeStake
<1>3. bet' = [bet EXCEPT ![q][v] = b]
  BY DEF PlaceBet, TakeStake
<1>4. SlipOf(b) = [state |-> "open", stake |-> stake, odds |-> odds, paid |-> 0]
  BY DEF SlipOf
<1> HIDE DEF b
<1>5. SlipsOf' = [SlipsOf EXCEPT ![q][v] = SlipOf(b)]
  <2>1. /\ \A r \in RoundIds : r # q => bet'[r] = bet[r]
        /\ \A u \in Users : u # v => bet'[q][u] = bet[q][u]
        /\ bet'[q][v] = b
    BY <1>3 DEF EngineInv, TypeOK
  <2> QED
    BY <2>1, SlipUpdate
<1>6. BookOf' = BookOf /\ BookOf[q] = "Predicting"
  BY <1>0, <1>2, BetStepKeepsBook
<1>7. SlipsOf[q][v].state = "none"
  BY <1>2 DEF SlipsOf, SlipOf
<1> QED
  BY <1>1, <1>4, <1>5, <1>6, <1>7 DEF Book!TakeBet

\* settle_bet and refund_bet close one slip with a payout the book allows.
LEMMA CloseBetRefines ==
  ASSUME EngineInv, NEW v \in Users, NEW q \in RoundIds,
         SettleBet(v, q) \/ RefundBet(v, q)
  PROVE  Book!CloseSlip(v, q)
<1>0. TypeOK /\ bet[q][v] \in Bet
  BY DEF EngineInv, TypeOK
<1>1. PICK won \in BOOLEAN, payout \in Nat :
        /\ CloseBet(v, q, won, payout)
        /\ payout \in {0, bet[q][v].stake, Winnings(bet[q][v])}
  BY <1>0, ClosingStep
<1>2. /\ OnBase(q) /\ base[q].status = "Locked"
      /\ bet[q][v].exists /\ ~bet[q][v].settled
  BY <1>0, ClosingStep DEF Open
<1>3. /\ base' = [base EXCEPT ![q].unsettled_bets = SaturatingSub(@)]
      /\ UNCHANGED <<er, delegated>>
  BY <1>1 DEF CloseBet
<1>4. bet' = [bet EXCEPT ![q][v].settled = TRUE, ![q][v].won = won,
                        ![q][v].payout = payout]
  BY <1>1 DEF CloseBet
<1>5. /\ \A r \in RoundIds : r # q => bet'[r] = bet[r]
      /\ \A u \in Users : u # v => bet'[q][u] = bet[q][u]
      /\ bet'[q][v].exists /\ bet'[q][v].settled
      /\ bet'[q][v].stake = bet[q][v].stake
      /\ bet'[q][v].odds_bps = bet[q][v].odds_bps
      /\ bet'[q][v].payout = payout
  BY <1>0, <1>2, <1>4 DEF TypeOK, Bet
<1>6. SlipsOf' = [SlipsOf EXCEPT ![q][v] = Book!Closed(@, payout)]
  <2> DEFINE b == bet[q][v]
             c == bet'[q][v]
  <2>0. c.exists /\ c.settled /\ c.stake = b.stake /\ c.odds_bps = b.odds_bps
        /\ c.payout = payout
    BY <1>5
  <2> HIDE DEF b, c
  <2>1. SlipOf(c) = Book!Closed(SlipOf(b), payout)
    BY <2>0, SlipClosed
  <2>2. SlipsOf' = [SlipsOf EXCEPT ![q][v] = SlipOf(bet'[q][v])]
    BY <1>5, SlipUpdate
  <2>3. SlipsOf[q][v] = SlipOf(b)
    BY DEF SlipsOf, b
  <2>4. SlipsOf' = [SlipsOf EXCEPT ![q][v] = SlipOf(c)]
    BY <2>2 DEF c
  <2> HIDE DEF SlipsOf, SlipOf
  <2> QED
    BY <2>1, <2>3, <2>4
<1>7. BookOf' = BookOf /\ BookOf[q] = "Locked"
  BY <1>0, <1>2, <1>3, BetStepKeepsBook
<1>8. /\ SlipsOf[q][v].state = "open"
      /\ payout \in Book!Payouts(SlipsOf[q][v])
  BY <1>1, <1>2 DEF SlipsOf, SlipOf, Book!Payouts, Winnings
<1> QED
  BY <1>6, <1>7, <1>8 DEF Book!CloseSlip

\* A round instruction moves one status of the book or nothing: a write-back
\* replaces the rollup's copy by itself, and an outcome is not in the book.
LEMMA RoundStepRefines ==
  ASSUME EngineInv, NEW q \in RoundIds, RoundStep(q)
  PROVE  Book!Next \/ UNCHANGED <<BookOf, SlipsOf>>
<1>0. TypeOK /\ CopyInv /\ Live(q) \in Round
  BY LiveType, EngineInvSplit DEF EngineInv
<1>1. CASE LockRound(q) \/ SettleRound(q)
  BY <1>1, LockRoundRefines, SettleRoundRefines DEF Book!Next
<1>2. ASSUME NEW rd, WriteLive(q, rd), rd.status = Live(q).status
      PROVE  UNCHANGED <<BookOf, SlipsOf>>
  <2>1. bet' = bet /\ \A r \in RoundIds : Live(r)'.status = Live(r).status
    BY <1>0, <1>2, WriteLiveReads
  <2> QED
    BY <2>1, QuietRefines
<1>3. ASSUME NEW at \in 1 .. MaxTime, ScheduleLock(q, at)
      PROVE  UNCHANGED <<BookOf, SlipsOf>>
  <2> DEFINE rd == [Live(q) EXCEPT !.lock_scheduled_at = at]
  <2>1. rd.status = Live(q).status /\ WriteLive(q, rd)
    BY <1>0, <1>3 DEF ScheduleLock, Round
  <2> QED
    BY <1>2, <2>1
<1>4. CASE OutcomeWrite(q)
  BY <1>0, <1>2, <1>4, OutcomeWriteAdvances
<1>5. CASE DelegateRound(q) \/ \E und \in BOOLEAN : CommitRound(q, und)
  <2>1. bet' = bet /\ \A r \in RoundIds : Live(r)'.status = Live(r).status
    BY <1>0, <1>5 DEF DelegateRound, CommitRound, OnBase, Live, TypeOK
  <2> QED
    BY <2>1, QuietRefines
<1>6. CASE FinalizeCommit(q)
  <2>1. \A r \in RoundIds : Live(r)' = Live(r)
    <3>1. CASE inflight[q].undelegate
      <4>1. /\ delegated[q] /\ inflight[q].copy = er[q]
        BY <1>0, <1>6, <3>1 DEF FinalizeCommit, CopyInv, CopiesInOrder
      <4>2. /\ base' = [base EXCEPT ![q] = er[q]]
            /\ delegated' = [delegated EXCEPT ![q] = FALSE]
            /\ er' = [er EXCEPT ![q] = AbsentRound]
        BY <1>6, <3>1, <4>1 DEF FinalizeCommit
      <4> QED
        BY <1>0, <4>1, <4>2 DEF Live, TypeOK
    <3>2. CASE ~inflight[q].undelegate
      <4>1. /\ delegated[q] /\ UNCHANGED <<delegated, er>>
            /\ base' = [base EXCEPT ![q] = inflight[q].copy]
        BY <1>0, <1>6, <3>2 DEF FinalizeCommit, CopyInv, CopiesInOrder
      <4> QED
        BY <1>0, <4>1 DEF Live, TypeOK
    <3> QED
      BY <3>1, <3>2
  <2>2. bet' = bet
    BY <1>6 DEF FinalizeCommit
  <2> QED
    BY <2>1, <2>2, QuietRefines
<1> QED
  BY RoundStep(q), <1>1, <1>3, <1>4, <1>5, <1>6 DEF RoundStep, OutcomeWrite

\* Every step of the program is a step of the book or a stutter.
LEMMA RefinesNext == EngineInv /\ [Next]_vars => [Book!Next]_<<BookOf, SlipsOf>>
<1> SUFFICES ASSUME EngineInv, [Next]_vars
             PROVE  Book!Next \/ UNCHANGED <<BookOf, SlipsOf>>
  OBVIOUS
<1>1. CASE UNCHANGED vars
  BY <1>1, QuietRefines DEF vars, Live
<1>2. CASE OpenRound
  BY <1>2, OpenRoundRefines DEF Book!Next
<1>3. CASE MarketStep /\ ~OpenRound
  <2>1. UNCHANGED <<bet, base, er, delegated>>
    BY <1>3 DEF MarketStep, ToggleMarket, SetHouseEdge, Tick, FundVault,
                PayReward, rounds
  <2> QED
    BY <2>1, QuietRefines DEF Live
<1>4. ASSUME NEW r \in RoundIds, RoundStep(r)
      PROVE  Book!Next \/ UNCHANGED <<BookOf, SlipsOf>>
  BY <1>4, RoundStepRefines
<1>5. ASSUME NEW u \in Users, NEW r \in RoundIds, BetStep(u, r)
      PROVE  Book!Next
  <2>1. CASE SettleBet(u, r) \/ RefundBet(u, r)
    BY <2>1, CloseBetRefines DEF Book!Next
  <2>2. ASSUME NEW s \in Selections, NEW stake \in Stakes,
               PlaceBet(u, r, s, stake)
        PROVE  Book!Next
    BY <2>2, PlaceBetRefines DEF Book!Next
  <2> QED
    BY <1>5, <2>1, <2>2 DEF BetStep
<1> QED
  BY <1>1, <1>2, <1>3, <1>4, <1>5 DEF Next

\* The program, with its counter, its copies and its clock, implements the
\* book of wagers: a wager is taken only by an open book, closed once with
\* nothing, the stake or the winnings, and a book is settled only when every
\* wager in it is closed.
THEOREM Refinement == Spec => ImplementsBetBook
<1>1. EngineInv /\ [Next]_vars => [Book!Next]_Book!vars
  BY RefinesNext DEF Book!vars
<1> QED
  BY <1>1, RefinesInit, EngineInvariant, PTL DEF Spec, ImplementsBetBook, Book!Spec

-----------------------------------------------------------------------------
(* Each round account implements RoundAccount *)

\* Two facts make the copies of a round look like one account: an
\* undelegation in flight carries what the rollup holds (CopiesInOrder), and
\* a copy that was ever revealed has an outcome (RevealedHasOutcome), so that
\* settle_round, which accepts either sign of a reveal, settles with one.

HIDE DEF RoundIds

Sound(c) == c.revealed_at > 0 => c.outcome # Pending

RevealedHasOutcome ==
  \A r \in RoundIds : /\ Sound(base[r]) /\ Sound(er[r])
                      /\ Sound(inflight[r].copy)

\* The copy an instruction on the round account writes is sound if the live
\* copy is: the reveals set the outcome with the time, nothing clears it.
LEMMA WriteSound ==
  ASSUME TypeOK, RevealedHasOutcome, NEW q \in RoundIds, RoundWrite(q)
  PROVE  \E rd : WriteLive(q, rd) /\ Sound(rd)
<1>0. Live(q) \in Round /\ Sound(Live(q))
  BY LiveType DEF RevealedHasOutcome, Live
<1>1. ASSUME NEW at \in 1 .. MaxTime, ScheduleLock(q, at)
      PROVE  \E rd : WriteLive(q, rd) /\ Sound(rd)
  <2>1. WriteLive(q, [Live(q) EXCEPT !.lock_scheduled_at = at])
    BY <1>1 DEF ScheduleLock
  <2> QED
    BY <1>0, <2>1 DEF Sound, Round
<1>2. CASE LockRound(q)
  <2> DEFINE rd == [Live(q) EXCEPT !.status = "Locked", !.locked_at = clock]
  <2>1. WriteLive(q, rd)
    BY <1>2 DEF LockRound
  <2>2. Sound(rd)
    BY <1>0 DEF Sound, Round
  <2> QED
    BY <2>1, <2>2
<1>3. CASE SettleRound(q)
  BY <1>0, <1>3 DEF SettleRound, Sound, Round
<1>4. ASSUME NEW h \in Randomness, VrfCallback(q, h)
      PROVE  \E rd : WriteLive(q, rd) /\ Sound(rd)
  BY <1>0, <1>4 DEF VrfCallback, Sound, Round
<1>5. ASSUME NEW o \in Outcomes, CommitOutcomeHash(q, o)
      PROVE  \E rd : WriteLive(q, rd) /\ Sound(rd)
  BY <1>0, <1>5 DEF CommitOutcomeHash, Sound, Round
<1>6. ASSUME NEW o \in Outcomes, ErRevealOutcome(q, o)
      PROVE  \E rd : WriteLive(q, rd) /\ Sound(rd)
  <2> DEFINE rd == [Live(q) EXCEPT !.outcome = o, !.revealed_at = clock]
  <2>1. WriteLive(q, rd)
    BY <1>6 DEF ErRevealOutcome
  <2>2. Sound(rd)
    BY <1>0, OutcomesAssumption DEF Sound, Round
  <2> QED
    BY <2>1, <2>2
<1>7. ASSUME NEW o \in Outcomes, NEW h \in Randomness, RevealOutcome(q, o, h)
      PROVE  \E rd : WriteLive(q, rd) /\ Sound(rd)
  <2> DEFINE rd == [Live(q) EXCEPT !.inputs_hash = h, !.outcome = o,
                                   !.revealed_at = clock]
  <2>1. WriteLive(q, rd)
    BY <1>7 DEF RevealOutcome
  <2>2. Sound(rd)
    BY <1>0, OutcomesAssumption DEF Sound, Round
  <2> QED
    BY <2>1, <2>2
<1>8. ASSUME NEW o \in CommunityOutcomes, FinalizeCommunityRound(q, o)
      PROVE  \E rd : WriteLive(q, rd) /\ Sound(rd)
  BY <1>0, <1>8, OutcomesAssumption DEF FinalizeCommunityRound, Sound, Round
<1> QED
  BY RoundWrite(q), <1>1, <1>2, <1>3, <1>4, <1>5, <1>6, <1>7, <1>8
     DEF RoundWrite, OutcomeWrite

\* RevealedHasOutcome is inductive.
LEMMA SoundNext ==
  TypeOK /\ RevealedHasOutcome /\ [Next]_vars => RevealedHasOutcome'
<1> SUFFICES ASSUME TypeOK, RevealedHasOutcome, [Next]_vars
             PROVE  RevealedHasOutcome'
  OBVIOUS
<1>0. Sound(AbsentRound)
  BY DEF Sound, AbsentRound
<1>1. CASE UNCHANGED rounds
  BY <1>1 DEF rounds, RevealedHasOutcome
<1>2. CASE OpenRound
  <2>1. UNCHANGED <<er, inflight>> /\ \A r \in RoundIds :
          base'[r] \in {base[r], [AbsentRound EXCEPT !.status = "Predicting",
                                                     !.opened_at = clock]}
    BY <1>2 DEF OpenRound, TypeOK
  <2>2. Sound([AbsentRound EXCEPT !.status = "Predicting", !.opened_at = clock])
    BY DEF Sound, AbsentRound
  <2> HIDE DEF Sound
  <2> QED
    BY <2>1, <2>2 DEF RevealedHasOutcome
<1>3. ASSUME NEW q \in RoundIds, RoundWrite(q)
      PROVE  RevealedHasOutcome'
  <2>1. PICK rd : WriteLive(q, rd) /\ Sound(rd)
    BY <1>3, WriteSound
  <2>2. inflight' = inflight /\ \A r \in RoundIds :
          base'[r] \in {base[r], rd} /\ er'[r] \in {er[r], rd}
    BY <2>1 DEF WriteLive, TypeOK
  <2> HIDE DEF Sound
  <2> QED
    BY <2>1, <2>2 DEF RevealedHasOutcome
<1>4. ASSUME NEW q \in RoundIds,
             \/ DelegateRound(q)
             \/ \E und \in BOOLEAN : CommitRound(q, und)
             \/ FinalizeCommit(q)
      PROVE  RevealedHasOutcome'
  <2>1. \A r \in RoundIds :
          /\ base'[r] \in {base[r], inflight[r].copy}
          /\ er'[r] \in {er[r], base[r], AbsentRound}
          /\ inflight'[r].copy \in {inflight[r].copy, er[r], AbsentRound}
    BY SMTT(60), <1>4 DEF DelegateRound, CommitRound, FinalizeCommit, TypeOK, NoCommit
  <2> HIDE DEF Sound
  <2> QED
    BY <1>0, <2>1 DEF RevealedHasOutcome
<1>5. ASSUME NEW u \in Users, NEW q \in RoundIds, BetStep(u, q)
      PROVE  RevealedHasOutcome'
  <2>1. UNCHANGED <<er, inflight>> /\ \E n :
          base' = [base EXCEPT ![q].unsettled_bets = n]
    BY <1>5 DEF BetStep, PlaceBet, TakeStake, SettleBet, RefundBet, CloseBet
  <2>2. \A r \in RoundIds : base[r] \in Round
    BY DEF TypeOK
  <2>3. \A r \in RoundIds : /\ base'[r].revealed_at = base[r].revealed_at
                            /\ base'[r].outcome = base[r].outcome
    BY <2>1, <2>2 DEF TypeOK, Round
  <2> QED
    BY <2>1, <2>3 DEF RevealedHasOutcome, Sound
<1>6. CASE MarketStep /\ ~OpenRound
  BY <1>1, <1>6 DEF MarketStep, ToggleMarket, SetHouseEdge, Tick, FundVault,
                    PayReward
<1> QED
  BY <1>1, <1>2, <1>3, <1>4, <1>5, <1>6
     DEF Next, RoundStep, RoundWrite, OutcomeWrite, vars, rounds

\* A round that was revealed has an outcome, on every copy.
LEMMA SoundInvariant == Spec => []RevealedHasOutcome
<1>1. Init => RevealedHasOutcome
  BY DEF Init, RevealedHasOutcome, Sound, AbsentRound, NoCommit
<1> QED
  BY <1>1, SoundNext, TypeCorrect, PTL DEF Spec

-----------------------------------------------------------------------------
(* Every step of a round account is a step of RoundAccount *)

\* Neither the account nor its place changes.
SameRound(r) ==
  /\ AccountView(Live(r))' = AccountView(Live(r))
  /\ HomeOf(r)' = HomeOf(r)

\* An instruction on the round account runs where the account lives, which is
\* not on its way back, and replaces its contents.
LEMMA WriteMoves ==
  ASSUME TypeOK, NEW q \in RoundIds, Writable(q), NEW rd, WriteLive(q, rd)
  PROVE  /\ AccountOf(q)' = AccountView(rd)
         /\ HomeOf(q)' = HomeOf(q)
         /\ HomeOf(q) # "leaving"
<1>1. Live(q)' = rd
  BY WriteLiveReads
<1>2. UNCHANGED <<delegated, inflight>>
  BY DEF WriteLive
<1> QED
  BY <1>1, <1>2 DEF AccountOf, AccountView, HomeOf, Writable

\* A step on one round leaves the others where and as they are.
LEMMA OtherRounds ==
  ASSUME TypeOK, NEW q \in RoundIds, RoundStep(q), NEW r \in RoundIds, r # q
  PROVE  SameRound(r)
<1>1. /\ base'[r] = base[r] /\ er'[r] = er[r]
      /\ delegated'[r] = delegated[r] /\ inflight'[r] = inflight[r]
  BY ZenonT(60) DEF RoundStep, ScheduleLock, LockRound, SettleRound, VrfCallback,
     CommitOutcomeHash, ErRevealOutcome, RevealOutcome, FinalizeCommunityRound,
     DelegateRound, CommitRound, FinalizeCommit, WriteLive, TypeOK
<1> QED
  BY SMTT(60), <1>1 DEF SameRound, AccountView, Live, HomeOf

\* A step that writes a counter of a base account, or no account at all.
LEMMA BetStepKeepsRound ==
  ASSUME TypeOK, NEW u \in Users, NEW q \in RoundIds, BetStep(u, q),
         NEW r \in RoundIds
  PROVE  SameRound(r)
<1>1. UNCHANGED <<er, delegated, inflight>> /\ \E n :
        base' = [base EXCEPT ![q].unsettled_bets = n]
  BY DEF BetStep, PlaceBet, TakeStake, SettleBet, RefundBet, CloseBet
<1>2. base[r] \in Round /\ base[q] \in Round
  BY DEF TypeOK
<1>3. AccountView(base'[r]) = AccountView(base[r])
  BY <1>1, <1>2 DEF TypeOK, Round, AccountView
<1> QED
  BY <1>1, <1>3 DEF SameRound, Live, HomeOf, AccountView

\* open_round opens the account it creates.
LEMMA OpenRoundRound ==
  ASSUME EngineInv, OpenRound, NEW r \in RoundIds
  PROVE  RoundOf(r)!Open \/ SameRound(r)
<1> DEFINE q == market.last_round + 1
           rd == [AbsentRound EXCEPT !.status = "Predicting", !.opened_at = clock]
<1>1. /\ base[q].status = "Absent" /\ base' = [base EXCEPT ![q] = rd]
      /\ UNCHANGED <<er, delegated, inflight>>
  BY DEF OpenRound
<1>2. CASE r # q
  BY <1>1, <1>2 DEF SameRound, Live, HomeOf, AccountView, EngineInv, TypeOK
<1>3. CASE r = q
  <2>1. ~delegated[r] /\ base[r] = AbsentRound
    BY <1>1, <1>3 DEF EngineInv, CopiesInOrder, AbsentIsBlank
  <2>2. Live(r)' = rd
    BY <1>1, <1>3, <2>1 DEF Live, EngineInv, TypeOK
  <2>3. AccountOf(r)' = [AccountOf(r) EXCEPT !.status = "Predicting"]
    <3>1. AccountView(rd) = [AccountView(AbsentRound) EXCEPT !.status = "Predicting"]
      BY DEF AccountView, AbsentRound
    <3> HIDE DEF rd
    <3>2. AccountOf(r) = AccountView(AbsentRound) /\ AccountOf(r)' = AccountView(rd)
      BY <2>1, <2>2 DEF AccountOf, AccountView, Live
    <3> QED
      BY <3>1, <3>2
  <2>4. HomeOf(r) = "program" /\ HomeOf(r)' = HomeOf(r)
    BY <1>1, <2>1 DEF HomeOf
  <2>5. AccountOf(r).status = "Absent"
    BY <2>1 DEF AccountOf, AccountView, Live, AbsentRound
  <2> QED
    BY <2>3, <2>4, <2>5 DEF RoundOf!Open, RoundOf!Write
<1> QED
  BY <1>2, <1>3

\* The instructions that write the round account alone.
LEMMA WriteRound ==
  ASSUME TypeOK, CopyInv, RevealedHasOutcome, NEW q \in RoundIds, RoundWrite(q)
  PROVE  RoundOf(q)!Next \/ SameRound(q)
<1>0. /\ Live(q) \in Round /\ Sound(Live(q))
      /\ AccountOf(q) = AccountView(Live(q))
  BY LiveType DEF RevealedHasOutcome, Live, AccountOf
<1>1. ASSUME NEW at \in 1 .. MaxTime, ScheduleLock(q, at)
      PROVE  SameRound(q)
  <2> DEFINE rd == [Live(q) EXCEPT !.lock_scheduled_at = at]
  <2>1. WriteLive(q, rd) /\ Writable(q)
    BY <1>1 DEF ScheduleLock
  <2>2. AccountView(rd) = AccountView(Live(q))
    BY <1>0 DEF Round, AccountView
  <2> HIDE DEF rd
  <2> QED
    BY <2>1, <2>2, WriteMoves DEF SameRound, AccountOf
<1>2. CASE LockRound(q)
  <2> DEFINE rd == [Live(q) EXCEPT !.status = "Locked", !.locked_at = clock]
  <2>1. WriteLive(q, rd) /\ Writable(q) /\ Live(q).status = "Predicting"
    BY <1>2 DEF LockRound
  <2>2. AccountView(rd) = [AccountOf(q) EXCEPT !.status = "Locked"]
    BY <1>0 DEF Round, AccountView
  <2>3. AccountOf(q).status = "Predicting"
    BY <1>0, <2>1 DEF AccountView
  <2> HIDE DEF rd
  <2>4. RoundOf(q)!Lock
    BY <2>1, <2>2, <2>3, WriteMoves DEF RoundOf!Lock, RoundOf!Write
  <2> QED
    BY <2>4 DEF RoundOf!Next
<1>3. CASE SettleRound(q)
  <2> DEFINE rd == [Live(q) EXCEPT !.status = "Settled"]
  <2>1. WriteLive(q, rd) /\ Writable(q) /\ Live(q).status = "Locked"
    BY <1>3 DEF SettleRound
  <2>2. AccountView(rd) = [AccountOf(q) EXCEPT !.status = "Settled"]
    BY <1>0 DEF Round, AccountView
  <2>3. AccountOf(q).status = "Locked" /\ AccountOf(q).outcome # Pending
    BY <1>0, <1>3, <2>1 DEF AccountView, SettleRound, HasRevealed, Sound
  <2> HIDE DEF rd
  <2>4. RoundOf(q)!Settle
    BY <2>1, <2>2, <2>3, WriteMoves DEF RoundOf!Settle, RoundOf!Write
  <2> QED
    BY <2>4 DEF RoundOf!Next
<1>4. ASSUME NEW h \in Randomness, VrfCallback(q, h)
      PROVE  RoundOf(q)!Next
  <2> DEFINE rd == [Live(q) EXCEPT !.inputs_hash = h]
  <2>1. WriteLive(q, rd) /\ Writable(q) /\ Live(q).status = "Locked"
    BY <1>4 DEF VrfCallback
  <2>2. AccountView(rd) = [AccountOf(q) EXCEPT !.inputs = h]
    BY <1>0 DEF Round, AccountView
  <2>3. AccountOf(q).status = "Locked"
    BY <1>0, <2>1 DEF AccountView
  <2> HIDE DEF rd
  <2>4. RoundOf(q)!Callback(h)
    BY <2>1, <2>2, <2>3, WriteMoves DEF RoundOf!Callback, RoundOf!Write
  <2> QED
    BY <2>4 DEF RoundOf!Next
<1>5. ASSUME NEW o \in Outcomes, CommitOutcomeHash(q, o)
      PROVE  RoundOf(q)!Next
  <2> DEFINE rd == [Live(q) EXCEPT !.commitment_hash = o]
  <2>1. WriteLive(q, rd) /\ Writable(q) /\ Live(q).status = "Locked"
    BY <1>5 DEF CommitOutcomeHash
  <2>2. AccountView(rd) = [AccountOf(q) EXCEPT !.commitment = o]
    BY <1>0 DEF Round, AccountView
  <2>3. AccountOf(q).status = "Locked"
    BY <1>0, <2>1 DEF AccountView
  <2> HIDE DEF rd
  <2>4. RoundOf(q)!CommitHash(o)
    BY <2>1, <2>2, <2>3, WriteMoves DEF RoundOf!CommitHash, RoundOf!Write
  <2> QED
    BY <2>4 DEF RoundOf!Next
<1>6. ASSUME NEW o \in Outcomes, ErRevealOutcome(q, o)
      PROVE  RoundOf(q)!Next
  <2> DEFINE rd == [Live(q) EXCEPT !.outcome = o, !.revealed_at = clock]
  <2>1. WriteLive(q, rd) /\ Writable(q) /\ Live(q).status = "Locked"
    BY <1>6 DEF ErRevealOutcome
  <2>2. AccountView(rd) = [AccountOf(q) EXCEPT !.outcome = o]
    BY <1>0 DEF Round, AccountView
  <2>3. AccountOf(q).status = "Locked"
    BY <1>0, <2>1 DEF AccountView
  <2> HIDE DEF rd
  <2>4. RoundOf(q)!ErReveal(o)
    BY <2>1, <2>2, <2>3, WriteMoves DEF RoundOf!ErReveal, RoundOf!Write
  <2> QED
    BY <2>4 DEF RoundOf!Next
<1>7. ASSUME NEW o \in Outcomes, NEW h \in Randomness, RevealOutcome(q, o, h)
      PROVE  RoundOf(q)!Next
  <2> DEFINE rd == [Live(q) EXCEPT !.inputs_hash = h, !.outcome = o,
                                   !.revealed_at = clock]
  <2>1. /\ WriteLive(q, rd) /\ Writable(q) /\ Live(q).status = "Locked"
        /\ Live(q).commitment_hash = o
    BY <1>7 DEF RevealOutcome
  <2>2. AccountView(rd) = [status |-> "Locked", inputs |-> h, commitment |-> o,
                           outcome |-> o]
    BY <1>0, <2>1 DEF Round, AccountView
  <2>3. AccountOf(q).status = "Locked" /\ AccountOf(q).commitment = o
    BY <1>0, <2>1 DEF AccountView
  <2> HIDE DEF rd
  <2>4. RoundOf(q)!Reveal(o, h)
    BY <2>1, <2>2, <2>3, WriteMoves DEF RoundOf!Reveal, RoundOf!Write
  <2> QED
    BY <2>4 DEF RoundOf!Next
<1>8. ASSUME NEW o \in CommunityOutcomes, FinalizeCommunityRound(q, o)
      PROVE  RoundOf(q)!Next
  <2> DEFINE rd == [Live(q) EXCEPT !.outcome = o]
  <2>1. WriteLive(q, rd) /\ Writable(q)
    BY <1>8 DEF FinalizeCommunityRound
  <2>2. AccountView(rd) = [AccountOf(q) EXCEPT !.outcome = o]
    BY <1>0 DEF Round, AccountView
  <2>3. Live(q).status # "Absent"
    <3>1. base[q] \in Round /\ er[q] \in Round
      BY DEF TypeOK
    <3> QED
      BY <2>1, <3>1 DEF Writable, Live, CopyInv, CopiesInOrder, Ahead, Rank,
                        Round, RoundStatus
  <2>4. AccountOf(q).status # "Absent"
    BY <1>0, <2>3 DEF AccountView
  <2> HIDE DEF rd
  <2>5. RoundOf(q)!Community(o)
    BY <2>1, <2>2, <2>4, WriteMoves DEF RoundOf!Community, RoundOf!Write
  <2> QED
    BY <2>5 DEF RoundOf!Next
<1> QED
  BY RoundWrite(q), <1>1, <1>2, <1>3, <1>4, <1>5, <1>6, <1>7, <1>8
     DEF RoundWrite, OutcomeWrite

\* Delegation, a commit scheduled and a commit finalized: the account moves
\* unchanged, and comes back as the copy that left the rollup.
LEMMA MoveRound ==
  ASSUME EngineInv, NEW q \in RoundIds,
         \/ DelegateRound(q)
         \/ \E und \in BOOLEAN : CommitRound(q, und)
         \/ FinalizeCommit(q)
  PROVE  RoundOf(q)!Next \/ SameRound(q)
<1>0. TypeOK /\ CopiesInOrder
  BY DEF EngineInv
<1>1. CASE DelegateRound(q)
  <2>1. /\ ~delegated[q] /\ delegated'[q] /\ er'[q] = base[q]
        /\ base[q].status # "Absent" /\ inflight' = inflight
    BY <1>0, <1>1 DEF DelegateRound, OnBase, TypeOK
  <2>2. ~inflight[q].undelegate
    BY <1>0, <2>1 DEF CopiesInOrder, NoCommit
  <2>3. AccountOf(q)' = AccountOf(q) /\ AccountOf(q).status # "Absent"
    BY <2>1 DEF AccountOf, AccountView, Live
  <2>4. HomeOf(q) = "program" /\ HomeOf(q)' = "rollup"
    BY <2>1, <2>2 DEF HomeOf
  <2> QED
    BY <2>3, <2>4 DEF RoundOf!Next, RoundOf!Delegate
<1>2. ASSUME NEW und \in BOOLEAN, CommitRound(q, und)
      PROVE  RoundOf(q)!Next \/ SameRound(q)
  <2>1. /\ delegated[q] /\ ~inflight[q].undelegate
        /\ inflight'[q].undelegate = und
        /\ UNCHANGED <<base, er, delegated>>
    BY <1>0, <1>2 DEF CommitRound, NoCommit, TypeOK
  <2>2. AccountOf(q)' = AccountOf(q)
    BY <2>1 DEF AccountOf, AccountView, Live
  <2>3. HomeOf(q) = "rollup" /\ HomeOf(q)' = IF und THEN "leaving" ELSE "rollup"
    BY <2>1 DEF HomeOf
  <2> QED
    BY <2>2, <2>3 DEF RoundOf!Next, RoundOf!Undelegate, SameRound, AccountOf
<1>3. CASE FinalizeCommit(q)
  <2>1. delegated[q] /\ inflight'[q] = NoCommit
    BY <1>0, <1>3 DEF FinalizeCommit, CopiesInOrder, TypeOK
  <2>2. CASE inflight[q].undelegate
    <3>1. base'[q] = er[q] /\ ~delegated'[q]
      BY <1>0, <1>3, <2>2 DEF FinalizeCommit, CopiesInOrder, TypeOK
    <3>2. AccountOf(q)' = AccountOf(q)
      BY <2>1, <3>1 DEF AccountOf, AccountView, Live
    <3>3. HomeOf(q) = "leaving" /\ HomeOf(q)' = "program"
      BY <2>1, <2>2, <3>1 DEF HomeOf
    <3> QED
      BY <3>2, <3>3 DEF RoundOf!Next, RoundOf!Return
  <2>3. CASE ~inflight[q].undelegate
    <3>1. UNCHANGED <<delegated, er>>
      BY <1>3, <2>3 DEF FinalizeCommit
    <3> QED
      BY <2>1, <2>3, <3>1 DEF SameRound, AccountView, Live, HomeOf, NoCommit
  <2> QED
    BY <2>2, <2>3
<1> QED
  BY <1>1, <1>2, <1>3

\* Every step of the program is, for each round, a step of its account or
\* none.
LEMMA RoundNext ==
  EngineInv /\ RevealedHasOutcome /\ [Next]_vars =>
    \A r \in RoundIds : [RoundOf(r)!Next]_(RoundOf(r)!vars)
<1> SUFFICES ASSUME EngineInv, RevealedHasOutcome, [Next]_vars,
                    NEW r \in RoundIds
             PROVE  RoundOf(r)!Next \/ SameRound(r)
  BY DEF SameRound, RoundOf!vars, AccountOf
<1>0. TypeOK /\ CopyInv
  BY EngineInvSplit DEF EngineInv
<1>1. CASE UNCHANGED rounds
  BY <1>1 DEF rounds, SameRound, AccountView, Live, HomeOf
<1>2. CASE OpenRound
  BY <1>2, OpenRoundRound DEF RoundOf!Next
<1>3. CASE MarketStep /\ ~OpenRound
  BY <1>1, <1>3 DEF MarketStep, ToggleMarket, SetHouseEdge, Tick, FundVault,
                    PayReward
<1>4. ASSUME NEW q \in RoundIds, RoundStep(q)
      PROVE  RoundOf(r)!Next \/ SameRound(r)
  <2>1. CASE r # q
    BY <1>0, <1>4, <2>1, OtherRounds
  <2>2. CASE r = q /\ RoundWrite(q)
    BY <1>0, <2>2, WriteRound
  <2>3. CASE /\ r = q
             /\ \/ DelegateRound(q)
                \/ \E und \in BOOLEAN : CommitRound(q, und)
                \/ FinalizeCommit(q)
    BY <2>3, MoveRound
  <2> QED
    BY <1>4, <2>1, <2>2, <2>3 DEF RoundStep, RoundWrite, OutcomeWrite
<1>5. ASSUME NEW u \in Users, NEW q \in RoundIds, BetStep(u, q)
      PROVE  SameRound(r)
  BY <1>0, <1>5, BetStepKeepsRound
<1> QED
  BY <1>1, <1>2, <1>3, <1>4, <1>5 DEF Next, vars, rounds

\* Nobody has opened a round in the initial state.
LEMMA RoundInit == Init => \A r \in RoundIds : RoundOf(r)!Init
  BY DEF Init, RoundOf!Init, RoundOf!NoAccount, AccountOf, AccountView, Live,
         HomeOf, AbsentRound

\* Each round account, with its base account, its copy on the rollup and the
\* commits between them, behaves as one account in one place at a time.
THEOREM RoundRefinement == Spec => ImplementsRoundAccount
<1>1. EngineInv /\ RevealedHasOutcome /\ [Next]_vars =>
        [\A r \in RoundIds : [RoundOf(r)!Next]_(RoundOf(r)!vars)]_vars
  BY RoundNext
<1> QED
  BY <1>1, RoundInit, EngineInvariant, SoundInvariant, PTL
     DEF Spec, ImplementsRoundAccount

=============================================================================
