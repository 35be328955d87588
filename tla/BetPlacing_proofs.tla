-------------------------- MODULE BetPlacing_proofs --------------------------
(***************************************************************************)
(* For any players, pages and wagers: what a Bet document says is what the *)
(* chain holds, a page that says "Bet confirmed" has its document, and     *)
(* Redis counts nothing twice.                                             *)
(***************************************************************************)
EXTENDS BetPlacing, FiniteSetTheorems, TLAPS

-----------------------------------------------------------------------------
(* Types *)

Owners == Players \cup {Vault}
Sigs == Pages \X Nat \X {1, 2}

Page == [pc : {"idle", "placing", "signing", "again", "signed", "confirming", "confirmed"},
         n : Nat, wager : Wagers \cup {None}, creates : SUBSET Owners,
         sig : Sigs \cup {None}]

Transaction == [sig : Sigs, player : Players, wager : Wagers, creates : SUBSET Owners,
                state : {"sent", "executed", "failed"}]

ConfirmCall == [call : {"confirm"},
                pc : {"lock", "known", "round", "poll", "create", "answer", "list", "count"},
                id : Sigs, copy : Nat, player : Players, wager : Wagers,
                found : Wagers \cup {None}]

\* A join is no first copy: nothing repeats it.
JoinCall == [call : {"join"}, pc : {"check", "create", "list", "count"},
             id : Players, copy : Nat \ {0}, player : Players, wager : {None},
             found : {None}]

Document == [sig : Sigs, player : Players, wager : Wagers \cup {None}]

\* Before it signs, a page knows what it asked for.
PageOK(p) ==
  /\ p \in Page
  /\ p.pc \in {"placing", "signing", "again", "signed", "confirming"} => p.wager \in Wagers
  /\ p.pc \in {"signed", "confirming", "confirmed"} => p.sig \in Sigs

TypeOK ==
  /\ round \in Rounds
  /\ tokens \subseteq Owners
  /\ bets \in [Players -> Wagers \cup {None}]
  /\ txs \subseteq Transaction
  /\ page \in [Pages -> Page] /\ \A g \in Pages : PageOK(page[g])
  /\ requests \subseteq ConfirmCall \cup JoinCall
  /\ docs \subseteq Document
  /\ {locks, answers, listed} \subseteq SUBSET Sigs
  /\ IsFiniteSet(listed) /\ count \in Nat
  /\ {seeds, joined} \subseteq SUBSET Players
  /\ IsFiniteSet(seeds) /\ IsFiniteSet(joined) /\ joinedCount \in Nat
  /\ reader # None => reader \subseteq Players /\ IsFiniteSet(reader)
  /\ budget \in [Counted -> Nat]

PagesOK == page \in [Pages -> Page] /\ \A g \in Pages : PageOK(page[g])
RequestsOK == requests \subseteq ConfirmCall \cup JoinCall
BudgetOK == budget \in [Counted -> Nat]

\* What is spent was there.
LEMMA SpendOK ==
  ASSUME BudgetOK, NEW kind \in Counted, Spend(kind)
  PROVE  BudgetOK' /\ budget[kind] \in Nat \ {0}
  BY DEF BudgetOK, Spend

\* An answer ends a request, and leaves a page with what it asked for.
LEMMA AnsweredOK ==
  ASSUME TypeOK, NEW r \in requests, NEW pc \in {"idle", "confirmed"}, Answered(r, pc)
  PROVE  PagesOK' /\ RequestsOK'
<1>1. ASSUME NEW g \in Pages
      PROVE  page'[g] \in Page /\ PageOK(page'[g])
  BY <1>1 DEF Answered, TypeOK, PageOK, Page
<1>. QED BY <1>1 DEF Answered, TypeOK, PagesOK, RequestsOK

\* A confirmation goes on.
LEMMA TurnOK ==
  ASSUME TypeOK, NEW r \in requests, r.call = "confirm",
         NEW pc \in {"known", "round", "poll", "answer", "list", "count"}, Turn(r, pc)
  PROVE  RequestsOK'
<1>1. r \in ConfirmCall
  BY DEF TypeOK, JoinCall
<1>2. [r EXCEPT !.pc = pc] \in ConfirmCall
  BY <1>1 DEF ConfirmCall
<1>. QED BY <1>2 DEF Turn, TypeOK, RequestsOK

LEMMA TurnJoinOK ==
  ASSUME TypeOK, NEW r \in requests, r.call = "join",
         NEW pc \in {"create", "list", "count"}, Turn(r, pc)
  PROVE  RequestsOK'
<1>1. r \in JoinCall
  BY DEF TypeOK, ConfirmCall
<1>2. [r EXCEPT !.pc = pc] \in JoinCall
  BY <1>1 DEF JoinCall
<1>. QED BY <1>2 DEF Turn, TypeOK, RequestsOK

\* A page that changes alone.
LEMMA PageChanges ==
  ASSUME TypeOK, NEW g \in Pages, NEW p \in Page, PageOK(p), page' = [page EXCEPT ![g] = p]
  PROVE  PagesOK'
  BY DEF TypeOK, PagesOK

LEMMA GotoOK ==
  ASSUME TypeOK, NEW g \in Pages, page[g].pc # "idle", page[g].pc # "confirmed",
         NEW pc \in {"idle", "signing", "again", "confirming"},
         pc = "confirming" => page[g].pc = "signed", Goto(g, pc)
  PROVE  PagesOK'
<1>. DEFINE p == [page[g] EXCEPT !.pc = pc]
<1>1. p \in Page /\ PageOK(p)
  BY DEF TypeOK, PageOK, Page
<1>2. page' = [page EXCEPT ![g] = p]
  BY DEF Goto
<1>. QED BY <1>1, <1>2, PageChanges

\* The steps of pages and wallets keep the types.
LEMMA PageTypes ==
  ASSUME TypeOK, NEW g \in Pages, PageStep(g)
  PROVE  TypeOK'
<1>. USE DEF PagesOK, RequestsOK, BudgetOK
<1>0. Player[g] \in Players /\ page[g] \in Page /\ PageOK(page[g])
  BY PlacingAssumption DEF TypeOK
<1>1. CASE Submit(g)
  <2>1. PICK k \in Wagers :
          page' = [page EXCEPT ![g] = [Idle EXCEPT !.pc = "placing", !.n = page[g].n + 1, !.wager = k]]
    BY <1>1 DEF Submit
  <2>. DEFINE p == [Idle EXCEPT !.pc = "placing", !.n = page[g].n + 1, !.wager = k]
  <2>2. Idle \in Page
    BY DEF Idle, Page, Owners
  <2>3. page[g].n + 1 \in Nat
    BY <1>0 DEF Page
  <2>4. p \in Page /\ p.pc = "placing" /\ p.wager = k
    BY <2>2, <2>3 DEF Page
  <2>5. p \in Page /\ PageOK(p)
    BY <2>4 DEF PageOK
  <2>6. PagesOK'
    BY <2>1, <2>5, PageChanges
  <2>. QED BY <1>1, <2>6, SpendOK DEF TypeOK, Submit, chain, redis, community, Counted
<1>2. CASE CreateBetTransaction(g)
  <2>. DEFINE p == [page[g] EXCEPT !.pc = "signing", !.creates = {Player[g], Vault} \ tokens]
  <2>1. p \in Page /\ PageOK(p)
    BY <1>0, <1>2 DEF CreateBetTransaction, PageOK, Page, Owners
  <2>2. page' = [page EXCEPT ![g] = p]
    BY <1>2 DEF CreateBetTransaction
  <2>3. PagesOK'
    BY <2>1, <2>2, PageChanges
  <2>. QED BY <1>2, <2>3 DEF TypeOK, CreateBetTransaction, chain, redis, community
<1>3. CASE CreateFails(g)
  <2>1. PagesOK'
    BY <1>3, GotoOK DEF CreateFails
  <2>. QED BY <1>3, <2>1 DEF TypeOK, CreateFails, chain, redis, community, Counted
<1>4. ASSUME NEW call \in {1, 2}, page[g].pc \in {"signing", "again"}
      PROVE  Tx(g, call) \in Transaction /\ Signature(g, call) \in Sigs
  BY <1>0, <1>4 DEF Tx, Transaction, Signature, Sigs, Page, PageOK
<1>5. ASSUME NEW call \in {1, 2}, WalletSends(g, call)
      PROVE  TypeOK'
  <2>. DEFINE p == [page[g] EXCEPT !.pc = "signed", !.sig = Signature(g, call)]
  <2>0. page[g].pc \in {"signing", "again"}
    BY <1>5 DEF WalletSends
  <2>1. p \in Page /\ PageOK(p)
    BY <1>0, <1>4, <2>0 DEF PageOK, Page
  <2>2. page' = [page EXCEPT ![g] = p]
    BY <1>5 DEF WalletSends
  <2>3. PagesOK'
    BY <2>1, <2>2, PageChanges
  <2>. QED BY <1>4, <1>5, <2>0, <2>3 DEF TypeOK, WalletSends, redis, community
<1>6. CASE WalletThrows(g)
  <2>1. PagesOK'
    BY <1>6, GotoOK DEF WalletThrows
  <2>. QED BY <1>4, <1>6, <2>1, SpendOK DEF TypeOK, WalletThrows, redis, community, Counted
<1>7. CASE Confirm(g)
  <2>1. PagesOK'
    BY <1>7, GotoOK DEF Confirm
  <2>. QED BY <1>0, <1>7, <2>1 DEF TypeOK, PageOK, Confirm, ConfirmCall, chain, redis, community
<1>8. CASE GiveUp(g)
  <2>1. PagesOK'
    BY <1>8, GotoOK DEF GiveUp
  <2>. QED BY <1>8, <2>1, SpendOK DEF TypeOK, GiveUp, chain, redis, community, Counted
<1>. QED BY <1>1, <1>2, <1>3, <1>5, <1>6, <1>7, <1>8 DEF PageStep

\* So does serving confirmations,
LEMMA ConfirmTypes ==
  ASSUME TypeOK, NEW r \in requests,
         \/ AcquireLock(r) \/ LookUp(r) \/ CheckRound(r) \/ PollAccount(r)
         \/ NotOnChain(r) \/ CreateBet(r) \/ KeepAnswer(r) \/ ListBet(r)
         \/ CountBet(r) \/ RequestFails(r)
  PROVE  TypeOK'
<1>. USE DEF PagesOK, RequestsOK, BudgetOK
<1>0. r.call = "confirm" => r \in ConfirmCall /\ r.id \in Sigs
  BY DEF TypeOK, JoinCall, ConfirmCall
<1>1. CASE AcquireLock(r)
  BY <1>0, <1>1, TurnOK DEF TypeOK, AcquireLock, Serving, chain, community
<1>2. CASE LookUp(r)
  BY <1>2, TurnOK, AnsweredOK DEF TypeOK, LookUp, Serving, chain, community, redis
<1>3. CASE CheckRound(r)
  BY <1>3, TurnOK, AnsweredOK DEF TypeOK, CheckRound, Serving, chain, community, redis
<1>4. CASE PollAccount(r)
  <2>1. [r EXCEPT !.pc = "create", !.found = Found(r)] \in ConfirmCall
    BY <1>0, <1>4 DEF TypeOK, PollAccount, Serving, Found, ConfirmCall
  <2>. QED BY <1>4, <2>1 DEF TypeOK, PollAccount, chain, community, redis
<1>5. CASE NotOnChain(r)
  BY <1>5, AnsweredOK DEF TypeOK, NotOnChain, Serving, chain, community, redis
<1>6. CASE CreateBet(r)
  <2>1. CASE Taken(r)
    BY <1>0, <1>6, <2>1, AnsweredOK DEF TypeOK, CreateBet, Serving, chain, community
  <2>2. CASE ~Taken(r)
    BY <1>0, <1>6, <2>2, TurnOK
       DEF TypeOK, CreateBet, Serving, Document, ConfirmCall, chain, community
  <2>. QED BY <2>1, <2>2
<1>7. CASE KeepAnswer(r)
  BY <1>0, <1>7, TurnOK DEF TypeOK, KeepAnswer, Serving, chain, community
<1>8. CASE ListBet(r)
  <2>1. IsFiniteSet(listed')
    BY <1>8, FS_AddElement DEF TypeOK, ListBet
  <2>. QED BY <1>0, <1>8, <2>1, TurnOK DEF TypeOK, ListBet, Serving, chain, community
<1>9. CASE CountBet(r)
  BY <1>9, AnsweredOK DEF TypeOK, CountBet, Serving, chain, community
<1>10. CASE RequestFails(r)
  BY <1>10, AnsweredOK, SpendOK DEF TypeOK, RequestFails, chain, community, redis, Counted
<1>. QED BY <1>1, <1>2, <1>3, <1>4, <1>5, <1>6, <1>7, <1>8, <1>9, <1>10

\* joining a community round, and a repeated request,
LEMMA JoinTypes ==
  ASSUME TypeOK, NEW r \in requests,
         Repeat(r) \/ CheckJoin(r) \/ CreateSeed(r) \/ ListSeed(r) \/ CountSeed(r)
  PROVE  TypeOK'
<1>. USE DEF PagesOK, RequestsOK, BudgetOK
<1>0. r.call = "join" => r \in JoinCall /\ r.id \in Players
  BY DEF TypeOK, JoinCall, ConfirmCall
<1>1. CASE Repeat(r)
  <2>1. r \in ConfirmCall
    BY <1>1 DEF TypeOK, Repeat, JoinCall
  <2>2. budget.repeats \in Nat /\ BudgetOK'
    BY <1>1, SpendOK DEF TypeOK, Repeat, Counted
  <2>3. [r EXCEPT !.pc = "lock", !.copy = budget.repeats, !.found = None] \in ConfirmCall
    BY <2>1, <2>2 DEF ConfirmCall
  <2>. QED BY <1>1, <2>2, <2>3 DEF TypeOK, Repeat, chain, redis, community
<1>2. CASE CheckJoin(r)
  BY <1>2, TurnJoinOK DEF TypeOK, CheckJoin, Serving, chain, redis, community
<1>3. CASE CreateSeed(r)
  BY <1>0, <1>3, TurnJoinOK, FS_AddElement DEF TypeOK, CreateSeed, Serving, chain, redis
<1>4. CASE ListSeed(r)
  <2>1. IsFiniteSet(joined')
    BY <1>4, FS_AddElement DEF TypeOK, ListSeed
  <2>. QED BY <1>0, <1>4, <2>1, TurnJoinOK DEF TypeOK, ListSeed, Serving, chain, redis
<1>5. CASE CountSeed(r)
  BY <1>5 DEF TypeOK, CountSeed, chain, redis
<1>. QED BY <1>1, <1>2, <1>3, <1>4, <1>5

\* and everything else.
LEMMA OtherTypes ==
  ASSUME TypeOK,
         \/ Pass \/ ReadSeeds \/ FillJoined \/ Crash \/ UNCHANGED vars
         \/ \E t \in txs : Execute(t)
         \/ \E sig \in locks : ExpireLock(sig)
         \/ \E u \in Players : Join(u)
  PROVE  TypeOK'
<1>. USE DEF BudgetOK, PagesOK, RequestsOK
<1>1. CASE Pass
  BY <1>1 DEF TypeOK, PageOK, Pass, Passes, Rounds, chain, redis, community
<1>2. CASE ReadSeeds
  BY <1>2, SpendOK DEF TypeOK, ReadSeeds, Counted, chain, redis
<1>3. CASE FillJoined
  BY <1>3, FS_Union DEF TypeOK, FillJoined, chain, redis
<1>4. CASE Crash
  <2>1. ASSUME NEW g \in Pages
        PROVE  page'[g] \in Page /\ PageOK(page'[g])
    BY <1>4, <2>1 DEF TypeOK, Crash, PageOK, Page
  <2>. QED BY <1>4, <2>1, SpendOK DEF TypeOK, Crash, Counted, chain, redis
<1>5. CASE UNCHANGED vars
  BY <1>5 DEF TypeOK, vars, chain, redis, community
<1>6. ASSUME NEW t \in txs, Execute(t)
      PROVE  TypeOK'
  <2>1. t \in Transaction /\ \A s \in {"executed", "failed"} : [t EXCEPT !.state = s] \in Transaction
    BY DEF TypeOK, Transaction
  <2>. QED BY <1>6, <2>1 DEF TypeOK, Execute, Transaction, redis, community
<1>7. ASSUME NEW sig \in locks, ExpireLock(sig)
      PROVE  TypeOK'
  BY <1>7 DEF TypeOK, ExpireLock, chain, community
<1>8. ASSUME NEW u \in Players, Join(u)
      PROVE  TypeOK'
  <2>1. budget.joins \in Nat \ {0} /\ BudgetOK'
    BY <1>8, SpendOK DEF TypeOK, Join, Counted
  <2>. QED BY <1>8, <2>1 DEF TypeOK, Join, JoinCall, chain, redis, community
<1>. QED BY <1>1, <1>2, <1>3, <1>4, <1>5, <1>6, <1>7, <1>8

LEMMA TypesNext == TypeOK /\ [Next]_vars => TypeOK'
  BY PageTypes, ConfirmTypes, JoinTypes, OtherTypes DEF Next, RequestStep

-----------------------------------------------------------------------------
(* What pages, requests and documents know *)

\* A page waits for a signature of its own, of a transaction that was sent.
PagesKnow ==
  \A g \in Pages : page[g].pc \in {"signed", "confirming", "confirmed"} =>
    page[g].sig \in Signatures /\ page[g].sig[1] = g

\* A confirmation is about its player's page, and what it found stays so.
RequestsKnow ==
  \A r \in requests : r.call = "confirm" =>
    /\ r.id \in Signatures /\ r.player = Player[r.id[1]]
    /\ r.pc = "create" => bets[r.player] # None /\ r.found = bets[r.player]

DocsKnow == \A d \in docs : d.player = Player[d.sig[1]]

\* Calls that have made a record, and have not counted it.
Recording(kind) == {r \in requests : r.call = kind /\ r.pc \in {"answer", "list", "count"}}
Uncounted(kind) == {r.id : r \in Recording(kind)}

\* A record has one maker, which counts it once, when it has listed it: the
\* signatures that were counted are listed, and their makers have ended.
BetsCounted ==
  /\ listed \cup answers \subseteq {d.sig : d \in docs}
  /\ \A r \in Recording("confirm") : Recorded(r.id) /\ (r.pc = "count" => r.id \in listed)
  /\ \A r, s \in Recording("confirm") : r.id = s.id => r = s
  /\ count <= Cardinality(listed \ Uncounted("confirm"))

\* The same of the players of a community round, whom a reader may list first.
SeedsCounted ==
  /\ joined \subseteq seeds /\ (reader # None => reader \subseteq seeds)
  /\ \A r \in Recording("join") : r.id \in seeds /\ (r.pc = "count" => r.id \in joined)
  /\ \A r, s \in Recording("join") : r.id = s.id => r = s
  /\ joinedCount <= Cardinality(joined \ Uncounted("join"))

PlacingInv ==
  /\ TypeOK /\ PagesKnow /\ RequestsKnow /\ DocsKnow
  /\ RecordsAreBets /\ ConfirmedIsRecorded /\ BetsCounted /\ SeedsCounted

-----------------------------------------------------------------------------
(* What nobody takes back *)

Lasting ==
  /\ docs \subseteq docs' /\ Signatures \subseteq Signatures' /\ seeds \subseteq seeds'
  /\ \A u \in Players : bets[u] # None => bets'[u] = bets[u]

\* No step removes a document, a transaction, a seed or a bet, or changes one
\* but for the state of a transaction.
LEMMA NothingForgotten == TypeOK /\ [Next]_vars => Lasting
<1>. SUFFICES ASSUME TypeOK, [Next]_vars
              PROVE  Lasting
  OBVIOUS
<1>1. ASSUME NEW t \in txs, Execute(t)
      PROVE  Lasting
  <2>1. [t EXCEPT !.state = "executed"].sig = t.sig /\ [t EXCEPT !.state = "failed"].sig = t.sig
    BY DEF TypeOK, Transaction
  <2>2. \A s \in Signatures : s \in Signatures'
    BY <1>1, <2>1 DEF Execute, Signatures
  <2>3. \A u \in Players : bets[u] # None => bets'[u] = bets[u]
    BY <1>1 DEF Execute, Executes, TypeOK
  <2>. QED BY <1>1, <2>2, <2>3 DEF Execute, Lasting, community
<1>2. ASSUME NEW g \in Pages, PageStep(g)
      PROVE  Lasting
  BY <1>2 DEF PageStep, Submit, CreateBetTransaction, CreateFails, WalletSends,
     WalletThrows, Confirm, GiveUp, Lasting, Signatures, chain, community
<1>3. ASSUME NEW r \in requests, RequestStep(r)
      PROVE  Lasting
  BY <1>3 DEF RequestStep, Repeat, AcquireLock, LookUp, CheckRound, PollAccount,
     NotOnChain, CreateBet, KeepAnswer, ListBet, CountBet, RequestFails, CheckJoin,
     CreateSeed, ListSeed, CountSeed, Lasting, Signatures, chain, community
<1>4. CASE \/ Pass \/ ReadSeeds \/ FillJoined \/ Crash \/ UNCHANGED vars
           \/ \E sig \in locks : ExpireLock(sig)
           \/ \E u \in Players : Join(u)
  BY <1>4 DEF Pass, ReadSeeds, FillJoined, Crash, ExpireLock, Join, vars, Lasting,
     Signatures, chain, community
<1>. QED BY <1>1, <1>2, <1>3, <1>4 DEF Next

\* What is recorded stays recorded.
LEMMA StaysRecorded ==
  ASSUME Lasting, NEW sig, Recorded(sig)
  PROVE  Recorded(sig)'
  BY DEF Lasting, Recorded

-----------------------------------------------------------------------------
(* Pages *)

\* What a page says of itself in terms of one page.
PageKnows(g) ==
  page[g].pc \in {"signed", "confirming", "confirmed"} =>
    page[g].sig \in Signatures /\ page[g].sig[1] = g

\* A page is left as it was, or loses its place.
LEMMA PageKept ==
  ASSUME TypeOK, PagesKnow, Lasting, NEW g \in Pages,
         page'[g] = page[g] \/ page'[g].pc = "idle"
  PROVE  PageKnows(g)'
  BY DEF PagesKnow, PageKnows, Lasting

\* Answers come for the signature that the page waits for.
LEMMA AnsweredKnows ==
  ASSUME TypeOK, PagesKnow, Lasting, NEW r, NEW pc \in {"idle", "confirmed"},
         Answered(r, pc), NEW g \in Pages
  PROVE  PageKnows(g)'
<1>1. page[g] \in Page
  BY DEF TypeOK
<1>2. page'[g] = page[g] \/ (page[g].pc = "confirming" /\ page'[g].sig = page[g].sig)
  BY <1>1 DEF Answered, Page
<1>. QED BY <1>2 DEF PagesKnow, PageKnows, Lasting

LEMMA PagesNext ==
  ASSUME TypeOK, PagesKnow, [Next]_vars
  PROVE  PagesKnow'
<1>. SUFFICES ASSUME NEW g \in Pages
              PROVE  PageKnows(g)'
  BY DEF PagesKnow, PageKnows
<1>0. Lasting /\ page \in [Pages -> Page] /\ page[g] \in Page
  BY NothingForgotten DEF TypeOK
<1>1. ASSUME NEW h \in Pages, PageStep(h)
      PROVE  PageKnows(g)'
  <2>1. CASE g # h
    <3>1. page'[g] = page[g]
      BY <1>0, <1>1, <2>1 DEF PageStep, Submit, CreateBetTransaction, CreateFails,
         WalletSends, WalletThrows, Confirm, GiveUp, Goto
    <3>. QED BY <1>0, <3>1, PageKept
  <2>2. CASE g = h /\ \E call \in {1, 2} : WalletSends(g, call)
    <3>1. PICK call \in {1, 2} : WalletSends(g, call)
      BY <2>2
    <3>2. page'[g].sig = Signature(g, call) /\ Tx(g, call) \in txs'
      BY <1>0, <3>1 DEF WalletSends, Page
    <3>3. Tx(g, call).sig = Signature(g, call) /\ Signature(g, call)[1] = g
      BY DEF Tx, Signature
    <3>. QED BY <3>2, <3>3 DEF PageKnows, Signatures
  <2>3. CASE g = h /\ Confirm(g)
    BY <1>0, <2>3 DEF Confirm, Goto, Page, PagesKnow, PageKnows, Lasting
  <2>4. CASE g = h /\ Submit(g)
    <3>1. PICK k \in Wagers : page'[g] =
                 [Idle EXCEPT !.pc = "placing", !.n = page[g].n + 1, !.wager = k]
      BY <1>0, <2>4 DEF Submit
    <3>2. page'[g].pc = "placing"
      BY <3>1 DEF Idle
    <3>. QED BY <3>2 DEF PageKnows
  <2>5. CASE g = h /\ (\/ CreateBetTransaction(g) \/ CreateFails(g)
                       \/ WalletThrows(g) \/ GiveUp(g))
    <3>1. page'[g].pc \in {"idle", "signing", "again"}
      BY <1>0, <2>5 DEF CreateBetTransaction, CreateFails, WalletThrows, GiveUp, Goto, Page
    <3>. QED BY <3>1 DEF PageKnows
  <2>. QED BY <1>1, <2>1, <2>2, <2>3, <2>4, <2>5 DEF PageStep
<1>2. ASSUME NEW r \in requests, RequestStep(r)
      PROVE  PageKnows(g)'
  <2>1. \/ UNCHANGED page
        \/ Answered(r, "idle") \/ Answered(r, "confirmed")
    BY <1>2 DEF RequestStep, Repeat, AcquireLock, LookUp, CheckRound, PollAccount,
       NotOnChain, CreateBet, KeepAnswer, ListBet, CountBet, RequestFails, CheckJoin,
       CreateSeed, ListSeed, CountSeed
  <2>. QED BY <1>0, <2>1, PageKept, AnsweredKnows
<1>3. CASE Crash
  <2>1. page'[g] = page[g] \/ page'[g].pc = "idle"
    BY <1>0, <1>3 DEF Crash, Page
  <2>. QED BY <1>0, <2>1, PageKept
<1>4. CASE \/ Pass \/ ReadSeeds \/ FillJoined \/ UNCHANGED vars
           \/ \E t \in txs : Execute(t)
           \/ \E sig \in locks : ExpireLock(sig)
           \/ \E u \in Players : Join(u)
  <2>1. UNCHANGED page
    BY <1>4 DEF Pass, ReadSeeds, FillJoined, Execute, ExpireLock, Join, vars
  <2>. QED BY <1>0, <2>1, PageKept
<1>. QED BY <1>1, <1>2, <1>3, <1>4 DEF Next

-----------------------------------------------------------------------------
(* Requests and documents *)

\* What RequestsKnow says of one request.
RequestKnows(r) ==
  r.call = "confirm" =>
    /\ r.id \in Signatures /\ r.player = Player[r.id[1]]
    /\ r.pc = "create" => bets[r.player] # None /\ r.found = bets[r.player]

\* Where a request comes from: it was there, it is a copy of one that was
\* there, at another step, or it found the bet account, or a page sends it.
Origin(r) ==
  \/ r \in requests
  \/ \E q \in requests : /\ r.call = q.call /\ r.id = q.id /\ r.player = q.player
                         /\ r.pc # "create"
  \/ r.call = "join"
  \/ /\ r \in ConfirmCall /\ r.found # None /\ r.found = bets[r.player]
     /\ \E q \in requests : r.call = q.call /\ r.id = q.id /\ r.player = q.player
  \/ \E g \in Pages : /\ page[g].pc = "signed" /\ r.id = page[g].sig
                       /\ r.player = Player[g] /\ r.pc # "create"

LEMMA OriginKnows ==
  ASSUME TypeOK, PagesKnow, RequestsKnow, Lasting, NEW r \in ConfirmCall \cup JoinCall, Origin(r)
  PROVE  RequestKnows(r)'
<1>. SUFFICES ASSUME r.call = "confirm"
              PROVE  RequestKnows(r)'
  BY DEF RequestKnows
<1>0. r \in ConfirmCall /\ r.player \in Players
  BY DEF ConfirmCall, JoinCall
<1>. QED BY <1>0 DEF Origin, RequestsKnow, RequestKnows, PagesKnow, Lasting

LEMMA TurnOrigin ==
  ASSUME TypeOK, NEW r \in requests, NEW pc, pc # "create", Turn(r, pc), NEW s \in requests'
  PROVE  Origin(s)
<1>1. s \in requests \/ s = [r EXCEPT !.pc = pc]
  BY DEF Turn
<1>2. LET t == [r EXCEPT !.pc = pc] IN
        t.call = r.call /\ t.id = r.id /\ t.player = r.player /\ t.pc = pc
  BY DEF TypeOK, ConfirmCall, JoinCall
<1>. QED BY <1>1, <1>2 DEF Origin

\* Every step.
LEMMA RequestsOrigin ==
  ASSUME TypeOK, [Next]_vars, NEW s \in requests'
  PROVE  Origin(s)
<1>1. ASSUME NEW g \in Pages, PageStep(g)
      PROVE  Origin(s)
  <2>1. requests' = requests \/ Confirm(g)
    BY <1>1 DEF PageStep, Submit, CreateBetTransaction, CreateFails, WalletSends,
       WalletThrows, Confirm, GiveUp
  <2>. QED BY <2>1 DEF Confirm, Origin
<1>2. ASSUME NEW r \in requests, RequestStep(r)
      PROVE  Origin(s)
  <2>1. CASE Repeat(r)
    <3>1. s \in requests \/ s = [r EXCEPT !.pc = "lock", !.copy = budget.repeats, !.found = None]
      BY <2>1 DEF Repeat
    <3>2. r \in ConfirmCall \cup JoinCall
      BY DEF TypeOK
    <3>. QED BY <3>1, <3>2 DEF Origin, ConfirmCall, JoinCall
  <2>2. CASE PollAccount(r)
    <3>1. s \in requests \/ s = [r EXCEPT !.pc = "create", !.found = Found(r)]
      BY <2>2 DEF PollAccount
    <3>2. r \in ConfirmCall
      BY <2>2 DEF TypeOK, PollAccount, Serving, JoinCall
    <3>3. Found(r) \in Wagers /\ Found(r) # None /\ Found(r) = bets[r.player]
      BY <2>2, <3>2, PlacingAssumption DEF TypeOK, PollAccount, Found, ConfirmCall
    <3>. QED BY <3>1, <3>2, <3>3 DEF Origin, ConfirmCall
  <2>3. CASE CheckJoin(r) \/ CreateSeed(r)
    <3>1. \E pc : s \in requests \/ s = [r EXCEPT !.pc = pc]
      BY <2>3 DEF CheckJoin, CreateSeed, Turn
    <3>2. r \in JoinCall
      BY <2>3 DEF TypeOK, CheckJoin, CreateSeed, Serving, ConfirmCall
    <3>. QED BY <3>1, <3>2 DEF Origin, JoinCall
  <2>4. CASE \/ AcquireLock(r) \/ LookUp(r) \/ CheckRound(r) \/ NotOnChain(r)
             \/ CreateBet(r) \/ KeepAnswer(r) \/ ListBet(r) \/ CountBet(r)
             \/ RequestFails(r) \/ ListSeed(r) \/ CountSeed(r)
    <3>1. \/ requests' \subseteq requests
          \/ \E pc \in {"known", "round", "poll", "answer", "list", "count"} : Turn(r, pc)
      BY <2>4 DEF AcquireLock, LookUp, CheckRound, NotOnChain, CreateBet, KeepAnswer,
         ListBet, CountBet, RequestFails, ListSeed, CountSeed, Answered
    <3>. QED BY <3>1, TurnOrigin DEF Origin
  <2>. QED BY <1>2, <2>1, <2>2, <2>3, <2>4 DEF RequestStep
<1>3. CASE \/ Pass \/ ReadSeeds \/ FillJoined \/ Crash \/ UNCHANGED vars
           \/ \E t \in txs : Execute(t)
           \/ \E sig \in locks : ExpireLock(sig)
  BY <1>3 DEF Pass, ReadSeeds, FillJoined, Crash, Execute, ExpireLock, vars, Origin
<1>4. ASSUME NEW u \in Players, Join(u)
      PROVE  Origin(s)
  BY <1>4 DEF Join, Origin
<1>. QED BY <1>1, <1>2, <1>3, <1>4 DEF Next

LEMMA RequestsNext ==
  ASSUME TypeOK, PagesKnow, RequestsKnow, [Next]_vars
  PROVE  RequestsKnow'
<1>1. TypeOK' /\ Lasting
  BY TypesNext, NothingForgotten
<1>2. ASSUME NEW s \in requests'
      PROVE  RequestKnows(s)'
  BY <1>1, RequestsOrigin, OriginKnows DEF TypeOK
<1>. QED BY <1>2 DEF RequestsKnow, RequestKnows

\* A document is one that was there, or is made of a request at "create".
LEMMA DocsOrigin ==
  ASSUME TypeOK, [Next]_vars, NEW d \in docs'
  PROVE  \/ d \in docs
         \/ \E r \in requests : /\ r.call = "confirm" /\ r.pc = "create" /\ r \in ConfirmCall
                               /\ d = [sig |-> r.id, player |-> r.player, wager |-> r.found]
<1>1. ASSUME NEW g \in Pages, PageStep(g)
      PROVE  docs' = docs
  BY <1>1 DEF PageStep, Submit, CreateBetTransaction, CreateFails, WalletSends,
     WalletThrows, Confirm, GiveUp
<1>2. ASSUME NEW r \in requests, RequestStep(r)
      PROVE  docs' = docs \/ CreateBet(r)
  BY <1>2 DEF RequestStep, Repeat, AcquireLock, LookUp, CheckRound, PollAccount,
     NotOnChain, KeepAnswer, ListBet, CountBet, RequestFails, CheckJoin, CreateSeed,
     ListSeed, CountSeed
<1>3. CASE \/ Pass \/ ReadSeeds \/ FillJoined \/ Crash \/ UNCHANGED vars
           \/ \E t \in txs : Execute(t)
           \/ \E sig \in locks : ExpireLock(sig)
           \/ \E u \in Players : Join(u)
  BY <1>3 DEF Pass, ReadSeeds, FillJoined, Crash, Execute, ExpireLock, Join, vars
<1>4. ASSUME NEW r \in requests, r.call = "confirm"
      PROVE  r \in ConfirmCall
  BY <1>4 DEF TypeOK, JoinCall
<1>. QED BY <1>1, <1>2, <1>3, <1>4 DEF Next, CreateBet, Serving

\* Whatever is written down is what the chain holds of its owner.
LEMMA DocsNext ==
  ASSUME TypeOK, RequestsKnow, DocsKnow, RecordsAreBets, [Next]_vars
  PROVE  DocsKnow' /\ RecordsAreBets'
<1>0. Lasting
  BY NothingForgotten
<1>1. ASSUME NEW d \in docs'
      PROVE  /\ d.player = Player[d.sig[1]]
             /\ bets'[d.player] # None /\ d.wager = bets'[d.player] /\ d.sig \in Signatures'
  <2>1. CASE d \in docs
    <3>1. d.player \in Players
      BY <2>1 DEF TypeOK, Document
    <3>. QED BY <1>0, <2>1, <3>1 DEF DocsKnow, RecordsAreBets, Lasting
  <2>2. ASSUME NEW r \in requests, r.call = "confirm", r.pc = "create", r \in ConfirmCall,
               d = [sig |-> r.id, player |-> r.player, wager |-> r.found]
        PROVE  /\ d.player = Player[d.sig[1]]
               /\ bets'[d.player] # None /\ d.wager = bets'[d.player] /\ d.sig \in Signatures'
    <3>1. r.player \in Players
      BY <2>2 DEF ConfirmCall
    <3>. QED BY <1>0, <2>2, <3>1 DEF RequestsKnow, Lasting
  <2>. QED BY <2>1, <2>2, DocsOrigin
<1>. QED BY <1>1 DEF DocsKnow, RecordsAreBets

-----------------------------------------------------------------------------
(* "Bet confirmed" *)

\* A step confirms nothing, or a page that waits for a recorded signature.
Confirms(g) ==
  page'[g].pc = "confirmed" =>
    /\ page'[g].sig = page[g].sig
    /\ page[g].pc = "confirmed" \/ (page[g].pc = "confirming" /\ Recorded(page[g].sig))

LEMMA RequestConfirms ==
  ASSUME TypeOK, BetsCounted, NEW r \in requests, RequestStep(r), NEW g \in Pages
  PROVE  Confirms(g)
<1>0. page[g] \in Page
  BY DEF TypeOK
<1>1. \/ UNCHANGED page
      \/ Answered(r, "idle")
      \/ Answered(r, "confirmed") /\ Recorded(r.id)
  <2>1. CASE CountBet(r)
    BY <2>1 DEF CountBet, Serving, BetsCounted, Recording
  <2>. QED BY <2>1 DEF RequestStep, Repeat, AcquireLock, LookUp, CheckRound, PollAccount,
     NotOnChain, CreateBet, KeepAnswer, ListBet, RequestFails, CheckJoin, CreateSeed,
     ListSeed, CountSeed, Known, Taken
<1>. QED BY <1>0, <1>1 DEF Answered, Confirms, Page

LEMMA PageConfirms ==
  ASSUME TypeOK, NEW h \in Pages, PageStep(h), NEW g \in Pages
  PROVE  Confirms(g)
<1>0. page \in [Pages -> Page]
  BY DEF TypeOK
<1>1. CASE Submit(h)
  <2>1. PICK k \in Wagers : page' = [page EXCEPT ![h] =
               [Idle EXCEPT !.pc = "placing", !.n = page[h].n + 1, !.wager = k]]
    BY <1>1 DEF Submit
  <2>2. page'[g] = page[g] \/ page'[g].pc = "placing"
    BY <1>0, <2>1 DEF Idle
  <2>. QED BY <2>2 DEF Confirms
<1>2. CASE ~ Submit(h)
  <2>1. page'[g] = page[g] \/ page'[g].pc \in {"idle", "signing", "again", "signed", "confirming"}
    BY <1>0, <1>2 DEF PageStep, CreateBetTransaction, CreateFails, WalletSends,
       WalletThrows, Confirm, GiveUp, Goto, Page
  <2>. QED BY <2>1 DEF Confirms
<1>. QED BY <1>1, <1>2

LEMMA ConfirmedNext ==
  ASSUME PlacingInv, [Next]_vars
  PROVE  ConfirmedIsRecorded'
<1>. USE DEF PlacingInv
<1>0. Lasting /\ PagesKnow' /\ DocsKnow' /\ RecordsAreBets'
  BY NothingForgotten, PagesNext, DocsNext
<1>1. ASSUME NEW g \in Pages
      PROVE  Confirms(g)
  <2>1. CASE Crash
    BY <2>1 DEF Crash, Confirms, TypeOK, Page
  <2>2. CASE \/ Pass \/ ReadSeeds \/ FillJoined \/ UNCHANGED vars
             \/ \E t \in txs : Execute(t)
             \/ \E sig \in locks : ExpireLock(sig)
             \/ \E u \in Players : Join(u)
    <3>1. UNCHANGED page
      BY <2>2 DEF Pass, ReadSeeds, FillJoined, Execute, ExpireLock, Join, vars
    <3>. QED BY <3>1 DEF Confirms
  <2>3. ASSUME NEW h \in Pages, PageStep(h)
        PROVE  Confirms(g)
    BY <2>3, PageConfirms
  <2>4. ASSUME NEW r \in requests, RequestStep(r)
        PROVE  Confirms(g)
    BY <2>4, RequestConfirms
  <2>. QED BY <2>1, <2>2, <2>3, <2>4 DEF Next
<1>2. ASSUME NEW g \in Pages, page'[g].pc = "confirmed"
      PROVE  bets'[Player[g]] # None /\ Recorded(page[g].sig)'
  <2>1. Recorded(page[g].sig) /\ page'[g].sig = page[g].sig
    BY <1>1, <1>2 DEF Confirms, ConfirmedIsRecorded
  <2>2. PICK d \in docs : d.sig = page[g].sig
    BY <2>1 DEF Recorded
  <2>3. d \in docs' /\ d.sig = page'[g].sig /\ page'[g].sig[1] = g
    BY <1>0, <1>2, <2>1, <2>2 DEF Lasting, PagesKnow
  <2>4. bets'[Player[g]] # None
    BY <1>0, <2>3 DEF DocsKnow, RecordsAreBets
  <2>. QED BY <2>3, <2>4 DEF Recorded
<1>. QED BY <1>2 DEF ConfirmedIsRecorded

-----------------------------------------------------------------------------
(* What is counted *)

\* No call records anything new.
NoNewRecord(kind) ==
  \A s \in Recording(kind)' : s \in Recording(kind)

\* With fewer uncounted records as many remain to be counted, or more.
LEMMA FewerUncounted ==
  ASSUME NEW S, IsFiniteSet(S), NEW T, NEW U, U \subseteq T, NEW n \in Nat,
         n <= Cardinality(S \ T)
  PROVE  n <= Cardinality(S \ U)
<1>1. IsFiniteSet(S \ U) /\ S \ T \subseteq S \ U
  BY FS_Subset
<1>2. Cardinality(S \ T) <= Cardinality(S \ U)
  BY <1>1, FS_Subset
<1>3. Cardinality(S \ T) \in Nat /\ Cardinality(S \ U) \in Nat
  BY <1>1, FS_Subset, FS_CardinalityType
<1>. QED BY <1>2, <1>3

\* One that is counted adds one.
LEMMA OneMore ==
  ASSUME NEW S, IsFiniteSet(S), NEW T, NEW e \in S, e \in T, NEW n \in Nat,
         n <= Cardinality(S \ T)
  PROVE  n + 1 <= Cardinality(S \ (T \ {e}))
<1>1. S \ (T \ {e}) = (S \ T) \cup {e} /\ e \notin S \ T
  OBVIOUS
<1>2. IsFiniteSet(S \ T)
  BY FS_Subset
<1>3. Cardinality((S \ T) \cup {e}) = Cardinality(S \ T) + 1
  BY <1>1, <1>2, FS_AddElement
<1>4. Cardinality(S \ T) \in Nat
  BY <1>2, FS_CardinalityType
<1>. QED BY <1>1, <1>3, <1>4

\* Steps that make no record, of bets,
LEMMA BetsKept ==
  ASSUME TypeOK, BetsCounted, Lasting, NoNewRecord("confirm"), UNCHANGED <<listed, count>>,
         \A sig \in answers' : sig \in answers \/ Recorded(sig)
  PROVE  BetsCounted'
<1>1. Uncounted("confirm")' \subseteq Uncounted("confirm")
  BY DEF NoNewRecord, Uncounted
<1>2. count' <= Cardinality(listed' \ Uncounted("confirm")')
  BY <1>1, FewerUncounted DEF TypeOK, BetsCounted
<1>3. (listed \cup answers)' \subseteq {d.sig : d \in docs}'
  BY DEF BetsCounted, Lasting, Recorded
<1>. QED BY <1>2, <1>3 DEF BetsCounted, NoNewRecord, Lasting, Recorded

\* and of seeds.
LEMMA SeedsKept ==
  ASSUME TypeOK, SeedsCounted, Lasting, NoNewRecord("join"),
         UNCHANGED <<joined, joinedCount>>, reader' # None => reader' \in {reader, seeds}
  PROVE  SeedsCounted'
<1>1. Uncounted("join")' \subseteq Uncounted("join")
  BY DEF NoNewRecord, Uncounted
<1>2. joinedCount' <= Cardinality(joined' \ Uncounted("join")')
  BY <1>1, FewerUncounted DEF TypeOK, SeedsCounted
<1>. QED BY <1>2 DEF SeedsCounted, NoNewRecord, Lasting

\* A call that makes its record: nobody has made it before.
LEMMA NewRecord ==
  ASSUME TypeOK, NEW kind, NEW r \in requests, r.call = kind,
         NEW pc \in {"answer", "list"}, Turn(r, pc), r \notin Recording(kind),
         \A s \in Recording(kind) : s.id # r.id,
         \A s, t \in Recording(kind) : s.id = t.id => s = t
  PROVE  /\ \A s \in Recording(kind)' :
              s \in Recording(kind) \/ (s.id = r.id /\ s.pc = pc)
         /\ \A s, t \in Recording(kind)' : s.id = t.id => s = t
         /\ Uncounted(kind)' \subseteq Uncounted(kind) \cup {r.id}
<1>. DEFINE q == [r EXCEPT !.pc = pc]
<1>1. q.call = r.call /\ q.id = r.id /\ q.pc = pc
  BY DEF TypeOK, ConfirmCall, JoinCall
<1>2. \A s \in Recording(kind)' : s \in Recording(kind) \/ s = q
  BY DEF Turn, Recording
<1>. HIDE DEF q
<1>. QED BY <1>1, <1>2 DEF Uncounted

\* A call that goes on after its record is made.
LEMMA RecordOnward ==
  ASSUME TypeOK, NEW kind, NEW r \in Recording(kind),
         NEW pc \in {"list", "count"}, Turn(r, pc),
         \A s, t \in Recording(kind) : s.id = t.id => s = t
  PROVE  /\ \A s \in Recording(kind)' :
              s \in Recording(kind) \/ (s.id = r.id /\ s.pc = pc)
         /\ \A s, t \in Recording(kind)' : s.id = t.id => s = t
         /\ Uncounted(kind)' = Uncounted(kind)
<1>. DEFINE q == [r EXCEPT !.pc = pc]
<1>0. r \in requests
  BY DEF Recording
<1>1. q.call = r.call /\ q.id = r.id /\ q.pc = pc
  BY <1>0 DEF TypeOK, ConfirmCall, JoinCall
<1>2. \A s \in Recording(kind)' : (s \in Recording(kind) /\ s # r) \/ s = q
  BY <1>1 DEF Turn, Recording
<1>3. q \in Recording(kind)' /\ \A s \in Recording(kind) : s = r \/ s \in Recording(kind)'
  BY <1>1 DEF Turn, Recording
<1>. HIDE DEF q
<1>. QED BY <1>1, <1>2, <1>3 DEF Uncounted

\* A call that ends with its record counted.
LEMMA RecordEnds ==
  ASSUME NEW kind, NEW r \in Recording(kind), requests' = requests \ {r},
         \A s, t \in Recording(kind) : s.id = t.id => s = t
  PROVE  NoNewRecord(kind) /\ Uncounted(kind)' = Uncounted(kind) \ {r.id}
<1>1. \A s : s \in Recording(kind)' <=> s \in Recording(kind) /\ s # r
  BY DEF Recording
<1>. QED BY <1>1 DEF NoNewRecord, Uncounted

\* Which steps make records.
LEMMA TurnNoRecord ==
  ASSUME TypeOK, NEW r \in requests, NEW pc, NEW kind, Turn(r, pc),
         r.call # kind \/ pc \notin {"answer", "list", "count"}
  PROVE  NoNewRecord(kind)
<1>. DEFINE q == [r EXCEPT !.pc = pc]
<1>1. q.call = r.call /\ q.pc = pc
  BY DEF TypeOK, ConfirmCall, JoinCall
<1>2. \A s \in Recording(kind)' : s \in Recording(kind) \/ s = q
  BY DEF Turn, Recording
<1>. QED BY <1>1, <1>2 DEF NoNewRecord, Recording

LEMMA MakesNoRecord ==
  ASSUME TypeOK, NEW r \in requests, RequestStep(r), NEW kind \in {"confirm", "join"}
  PROVE  \/ NoNewRecord(kind)
         \/ kind = "confirm" /\ (CreateBet(r) \/ KeepAnswer(r) \/ ListBet(r))
         \/ kind = "join" /\ (CreateSeed(r) \/ ListSeed(r))
<1>1. CASE Repeat(r)
  <2>. DEFINE q == [r EXCEPT !.pc = "lock", !.copy = budget.repeats, !.found = None]
  <2>1. q.pc = "lock"
    BY DEF TypeOK, ConfirmCall, JoinCall
  <2>. QED BY <1>1, <2>1 DEF Repeat, NoNewRecord, Recording
<1>2. CASE PollAccount(r)
  <2>. DEFINE q == [r EXCEPT !.pc = "create", !.found = Found(r)]
  <2>1. q.pc = "create"
    BY DEF TypeOK, ConfirmCall, JoinCall
  <2>. QED BY <1>2, <2>1 DEF PollAccount, NoNewRecord, Recording
<1>3. CASE \/ AcquireLock(r) \/ LookUp(r) \/ CheckRound(r) \/ NotOnChain(r)
           \/ CountBet(r) \/ RequestFails(r) \/ CheckJoin(r) \/ CountSeed(r)
  <2>1. \/ requests' \subseteq requests
        \/ \E pc \in {"known", "round", "poll", "create"} : Turn(r, pc)
    BY <1>3 DEF AcquireLock, LookUp, CheckRound, NotOnChain, CountBet, RequestFails,
       CheckJoin, CountSeed, Answered
  <2>. QED BY <2>1, TurnNoRecord DEF NoNewRecord, Recording
<1>4. CASE kind = "join" /\ (CreateBet(r) \/ KeepAnswer(r) \/ ListBet(r))
  <2>1. r.call # kind /\ (requests' \subseteq requests \/ \E pc : Turn(r, pc))
    BY <1>4 DEF CreateBet, KeepAnswer, ListBet, Serving, Answered
  <2>. QED BY <2>1, TurnNoRecord DEF NoNewRecord, Recording
<1>5. CASE kind = "confirm" /\ (CreateSeed(r) \/ ListSeed(r))
  <2>1. r.call # kind /\ (requests' \subseteq requests \/ \E pc : Turn(r, pc))
    BY <1>5 DEF CreateSeed, ListSeed, Serving
  <2>. QED BY <2>1, TurnNoRecord DEF NoNewRecord, Recording
<1>. QED BY <1>1, <1>2, <1>3, <1>4, <1>5 DEF RequestStep

LEMMA OthersMakeNoRecord ==
  ASSUME TypeOK, NEW kind \in {"confirm", "join"},
         \/ Pass \/ ReadSeeds \/ FillJoined \/ Crash \/ UNCHANGED vars
         \/ \E g \in Pages : PageStep(g)
         \/ \E t \in txs : Execute(t)
         \/ \E sig \in locks : ExpireLock(sig)
         \/ \E u \in Players : Join(u)
  PROVE  NoNewRecord(kind)
<1>1. ASSUME NEW g \in Pages, PageStep(g)
      PROVE  requests' = requests \/ Confirm(g)
  BY <1>1 DEF PageStep, Submit, CreateBetTransaction, CreateFails, WalletSends,
     WalletThrows, GiveUp
<1>2. ASSUME NEW g \in Pages, Confirm(g), NEW s \in requests'
      PROVE  s \in requests \/ s.pc = "lock"
  BY <1>2 DEF Confirm
<1>3. ASSUME NEW u \in Players, Join(u), NEW s \in requests'
      PROVE  s \in requests \/ s.pc = "check"
  BY <1>3 DEF Join
<1>4. CASE \/ Pass \/ ReadSeeds \/ FillJoined \/ Crash \/ UNCHANGED vars
           \/ \E t \in txs : Execute(t)
           \/ \E sig \in locks : ExpireLock(sig)
  BY <1>4 DEF Pass, ReadSeeds, FillJoined, Crash, vars, Execute, ExpireLock, NoNewRecord,
     Recording
<1>5. \/ \A s \in requests' : s \in requests \/ s.pc \in {"lock", "check"}
      \/ NoNewRecord(kind)
  BY <1>1, <1>2, <1>3, <1>4
<1>. QED BY <1>5 DEF NoNewRecord, Recording

\* A bet is recorded once, listed once and counted once.
LEMMA BetsCountedNext ==
  ASSUME TypeOK, BetsCounted, [Next]_vars
  PROVE  BetsCounted'
<1>0. Lasting /\ \A sig : Recorded(sig) => Recorded(sig)'
  BY NothingForgotten, StaysRecorded
<1>1. ASSUME NEW r \in requests, RequestStep(r)
      PROVE  BetsCounted'
  <2>1. CASE CreateBet(r) /\ ~ Taken(r)
    <3>1. Turn(r, "answer") /\ r.call = "confirm" /\ ~ Recorded(r.id) /\ r.pc = "create"
      BY <2>1 DEF CreateBet, Serving, Taken
    <3>. DEFINE d == [sig |-> r.id, player |-> r.player, wager |-> r.found]
    <3>2. Recorded(r.id)'
      <4>1. d \in docs' /\ d.sig = r.id
        BY <2>1 DEF CreateBet
      <4>. QED BY <4>1 DEF Recorded
    <3>3. /\ \A s \in Recording("confirm")' :
               s \in Recording("confirm") \/ (s.id = r.id /\ s.pc = "answer")
          /\ \A s, t \in Recording("confirm")' : s.id = t.id => s = t
          /\ Uncounted("confirm")' \subseteq Uncounted("confirm") \cup {r.id}
      BY <3>1, NewRecord DEF BetsCounted, Recording
    <3>4. r.id \notin listed
      BY <3>1 DEF BetsCounted, Recorded
    <3>5. listed \ Uncounted("confirm") = listed \ (Uncounted("confirm") \cup {r.id})
      BY <3>4
    <3>6. count <= Cardinality(listed \ (Uncounted("confirm") \cup {r.id}))
      BY <3>5 DEF BetsCounted
    <3>7. count <= Cardinality(listed \ Uncounted("confirm")')
      BY ZenonT(60), <3>3, <3>6, FewerUncounted DEF TypeOK
    <3>. QED BY <1>0, <2>1, <3>2, <3>3, <3>7 DEF CreateBet, BetsCounted, Lasting
  <2>2. CASE KeepAnswer(r)
    <3>1. Turn(r, "list") /\ r \in Recording("confirm")
      BY <2>2 DEF KeepAnswer, Serving, Recording
    <3>2. /\ \A s \in Recording("confirm")' :
               s \in Recording("confirm") \/ (s.id = r.id /\ s.pc = "list")
          /\ \A s, t \in Recording("confirm")' : s.id = t.id => s = t
          /\ Uncounted("confirm")' = Uncounted("confirm")
      BY <3>1, RecordOnward DEF BetsCounted
    <3>3. Recorded(r.id) /\ UNCHANGED <<docs, listed, count>> /\ answers' = answers \cup {r.id}
      BY <2>2, <3>1 DEF KeepAnswer, BetsCounted
    <3>. QED BY ZenonT(60), <1>0, <3>2, <3>3 DEF BetsCounted, Recorded
  <2>3. CASE ListBet(r)
    <3>1. Turn(r, "count") /\ r \in Recording("confirm") /\ r.id \in Uncounted("confirm")
      BY <2>3 DEF ListBet, Serving, Recording, Uncounted
    <3>2. /\ \A s \in Recording("confirm")' :
               s \in Recording("confirm") \/ (s.id = r.id /\ s.pc = "count")
          /\ \A s, t \in Recording("confirm")' : s.id = t.id => s = t
          /\ Uncounted("confirm")' = Uncounted("confirm")
      BY <3>1, RecordOnward DEF BetsCounted
    <3>3. Recorded(r.id) /\ UNCHANGED <<docs, answers, count>> /\ listed' = listed \cup {r.id}
      BY <2>3, <3>1 DEF ListBet, BetsCounted
    <3>4. listed' \ Uncounted("confirm")' = listed \ Uncounted("confirm")
      BY <3>1, <3>2, <3>3
    <3>. QED BY ZenonT(60), <1>0, <3>2, <3>3, <3>4 DEF BetsCounted, Recorded
  <2>4. CASE CountBet(r)
    <3>1. r \in Recording("confirm") /\ r.id \in Uncounted("confirm") /\ r.id \in listed
      BY <2>4 DEF CountBet, Serving, Recording, Uncounted, BetsCounted
    <3>2. NoNewRecord("confirm") /\ Uncounted("confirm")' = Uncounted("confirm") \ {r.id}
      BY <2>4, <3>1, RecordEnds DEF CountBet, Answered, BetsCounted
    <3>3. UNCHANGED <<docs, listed, answers>> /\ count' = count + 1
      BY <2>4 DEF CountBet
    <3>4. count + 1 <= Cardinality(listed \ (Uncounted("confirm") \ {r.id}))
      BY <3>1, OneMore DEF TypeOK, BetsCounted
    <3>. QED BY <1>0, <3>2, <3>3, <3>4 DEF BetsCounted, NoNewRecord
  <2>5. CASE CreateBet(r) /\ Taken(r)
    <3>1. requests' \subseteq requests
      BY <2>5 DEF CreateBet, Answered
    <3>2. NoNewRecord("confirm")
      BY <3>1 DEF NoNewRecord, Recording
    <3>. QED BY <1>0, <2>5, <3>2, BetsKept DEF CreateBet, Taken
  <2>6. CASE ~ (CreateBet(r) \/ KeepAnswer(r) \/ ListBet(r) \/ CountBet(r))
    <3>1. NoNewRecord("confirm")
      BY <1>1, <2>6, MakesNoRecord
    <3>2. UNCHANGED <<listed, count, answers>>
      BY <1>1, <2>6 DEF RequestStep, Repeat, AcquireLock, LookUp, CheckRound, PollAccount,
         NotOnChain, RequestFails, CheckJoin, CreateSeed, ListSeed, CountSeed, redis
    <3>. QED BY <1>0, <3>1, <3>2, BetsKept
  <2>. QED BY <2>1, <2>2, <2>3, <2>4, <2>5, <2>6
<1>2. CASE \/ Pass \/ ReadSeeds \/ FillJoined \/ Crash \/ UNCHANGED vars
           \/ \E g \in Pages : PageStep(g)
           \/ \E t \in txs : Execute(t)
           \/ \E sig \in locks : ExpireLock(sig)
           \/ \E u \in Players : Join(u)
  <2>1. NoNewRecord("confirm")
    BY <1>2, OthersMakeNoRecord
  <2>2. UNCHANGED <<listed, count, answers>>
    BY <1>2 DEF Pass, ReadSeeds, FillJoined, Crash, vars, Execute, ExpireLock, Join,
       PageStep, Submit, CreateBetTransaction, CreateFails, WalletSends, WalletThrows,
       Confirm, GiveUp, redis
  <2>. QED BY <1>0, <2>1, <2>2, BetsKept
<1>. QED BY <1>1, <1>2 DEF Next

\* A player joins once, is listed, by whomever, and is counted once.
LEMMA SeedsCountedNext ==
  ASSUME TypeOK, SeedsCounted, [Next]_vars
  PROVE  SeedsCounted'
<1>0. Lasting
  BY NothingForgotten
<1>1. ASSUME NEW r \in requests, RequestStep(r)
      PROVE  SeedsCounted'
  <2>1. CASE CreateSeed(r) /\ r.id \notin seeds
    <3>1. Turn(r, "list") /\ r.call = "join" /\ r.pc = "create" /\ r.id \notin joined
      BY <2>1 DEF CreateSeed, Serving, SeedsCounted
    <3>2. /\ \A s \in Recording("join")' :
               s \in Recording("join") \/ (s.id = r.id /\ s.pc = "list")
          /\ \A s, t \in Recording("join")' : s.id = t.id => s = t
          /\ Uncounted("join")' \subseteq Uncounted("join") \cup {r.id}
      BY <2>1, <3>1, NewRecord DEF SeedsCounted, Recording
    <3>3. joined \ Uncounted("join") = joined \ (Uncounted("join") \cup {r.id})
      BY <3>1
    <3>4. joinedCount <= Cardinality(joined \ (Uncounted("join") \cup {r.id}))
      BY <3>3 DEF SeedsCounted
    <3>5. joinedCount <= Cardinality(joined \ Uncounted("join")')
      BY ZenonT(60), <3>2, <3>4, FewerUncounted DEF TypeOK
    <3>. QED BY <2>1, <3>2, <3>5 DEF CreateSeed, SeedsCounted
  <2>2. CASE ListSeed(r)
    <3>1. Turn(r, "count") /\ r \in Recording("join") /\ r.id \in Uncounted("join")
      BY <2>2 DEF ListSeed, Serving, Recording, Uncounted
    <3>2. /\ \A s \in Recording("join")' :
               s \in Recording("join") \/ (s.id = r.id /\ s.pc = "count")
          /\ \A s, t \in Recording("join")' : s.id = t.id => s = t
          /\ Uncounted("join")' = Uncounted("join")
      BY <3>1, RecordOnward DEF SeedsCounted
    <3>3. r.id \in seeds /\ UNCHANGED <<seeds, joinedCount, reader>> /\ joined' = joined \cup {r.id}
      BY <2>2, <3>1 DEF ListSeed, SeedsCounted
    <3>4. joined' \ Uncounted("join")' = joined \ Uncounted("join")
      BY <3>1, <3>2, <3>3
    <3>. QED BY <3>2, <3>3, <3>4 DEF SeedsCounted
  <2>3. CASE CountSeed(r)
    <3>1. r \in Recording("join") /\ r.id \in Uncounted("join") /\ r.id \in joined
      BY <2>3 DEF CountSeed, Serving, Recording, Uncounted, SeedsCounted
    <3>2. NoNewRecord("join") /\ Uncounted("join")' = Uncounted("join") \ {r.id}
      BY <2>3, <3>1, RecordEnds DEF CountSeed, SeedsCounted
    <3>3. UNCHANGED <<seeds, joined, reader>> /\ joinedCount' = joinedCount + 1
      BY <2>3 DEF CountSeed
    <3>4. joinedCount + 1 <= Cardinality(joined \ (Uncounted("join") \ {r.id}))
      BY <3>1, OneMore DEF TypeOK, SeedsCounted
    <3>. QED BY <3>2, <3>3, <3>4 DEF SeedsCounted, NoNewRecord
  <2>4. CASE CreateSeed(r) /\ r.id \in seeds
    <3>1. NoNewRecord("join")
      BY <2>4 DEF CreateSeed, NoNewRecord, Recording
    <3>. QED BY <1>0, <2>4, <3>1, SeedsKept DEF CreateSeed
  <2>5. CASE ~ (CreateSeed(r) \/ ListSeed(r) \/ CountSeed(r))
    <3>1. NoNewRecord("join")
      BY <1>1, <2>5, MakesNoRecord
    <3>2. UNCHANGED <<joined, joinedCount, reader>>
      BY <1>1, <2>5 DEF RequestStep, Repeat, AcquireLock, LookUp, CheckRound, PollAccount,
         NotOnChain, CreateBet, KeepAnswer, ListBet, CountBet, RequestFails, CheckJoin,
         community
    <3>. QED BY <1>0, <3>1, <3>2, SeedsKept
  <2>. QED BY <2>1, <2>2, <2>3, <2>4, <2>5
<1>2. CASE FillJoined
  <2>1. NoNewRecord("join") /\ Uncounted("join")' = Uncounted("join")
    BY <1>2 DEF FillJoined, NoNewRecord, Recording, Uncounted
  <2>2. joined' = joined \cup reader /\ reader \subseteq seeds /\ IsFiniteSet(joined')
    BY <1>2, FS_Union DEF FillJoined, SeedsCounted, TypeOK
  <2>3. joinedCount <= Cardinality(joined' \ Uncounted("join"))
    <3>1. /\ IsFiniteSet(joined' \ Uncounted("join"))
          /\ joined \ Uncounted("join") \subseteq joined' \ Uncounted("join")
      BY <2>2, FS_Subset
    <3>2. Cardinality(joined \ Uncounted("join")) <= Cardinality(joined' \ Uncounted("join"))
      BY <3>1, FS_Subset
    <3>3. /\ Cardinality(joined \ Uncounted("join")) \in Nat
          /\ Cardinality(joined' \ Uncounted("join")) \in Nat
      BY <3>1, FS_Subset, FS_CardinalityType
    <3>. QED BY <3>2, <3>3 DEF TypeOK, SeedsCounted
  <2>. QED BY <1>2, <2>1, <2>2, <2>3 DEF FillJoined, SeedsCounted, NoNewRecord
<1>3. CASE \/ Pass \/ ReadSeeds \/ Crash \/ UNCHANGED vars
           \/ \E g \in Pages : PageStep(g)
           \/ \E t \in txs : Execute(t)
           \/ \E sig \in locks : ExpireLock(sig)
           \/ \E u \in Players : Join(u)
  <2>1. NoNewRecord("join")
    BY <1>3, OthersMakeNoRecord
  <2>2. UNCHANGED <<joined, joinedCount>> /\ (reader' # None => reader' \in {reader, seeds})
    BY <1>3 DEF Pass, ReadSeeds, Crash, vars, Execute, ExpireLock, Join, PageStep, Submit,
       CreateBetTransaction, CreateFails, WalletSends, WalletThrows, Confirm, GiveUp,
       community
  <2>. QED BY <1>0, <2>1, <2>2, SeedsKept
<1>. QED BY <1>1, <1>2, <1>3 DEF Next

-----------------------------------------------------------------------------
(* Theorems *)

LEMMA PlacingInit == Init => PlacingInv
<1>. SUFFICES ASSUME Init
              PROVE  PlacingInv
  OBVIOUS
<1>1. IsFiniteSet({}) /\ Cardinality({}) = 0
  BY FS_EmptySet
<1>2. Idle \in Page /\ PageOK(Idle)
  BY DEF Idle, Page, PageOK, Owners
<1>3. TypeOK
  BY <1>1, <1>2, PlacingAssumption DEF Init, TypeOK, Rounds, Owners
<1>4. Recording("confirm") = {} /\ Recording("join") = {}
  BY DEF Init, Recording
<1>5. BetsCounted /\ SeedsCounted
  <2>1. listed \ Uncounted("confirm") = {} /\ joined \ Uncounted("join") = {}
    BY DEF Init
  <2>. QED BY <1>1, <1>4, <2>1 DEF Init, BetsCounted, SeedsCounted
<1>6. PagesKnow /\ ConfirmedIsRecorded
  BY DEF Init, Idle, PagesKnow, ConfirmedIsRecorded
<1>. QED BY <1>3, <1>5, <1>6 DEF Init, PlacingInv, RequestsKnow, DocsKnow, RecordsAreBets

\* The inductive invariant: types, what pages, requests and documents know,
\* and what has been counted.
THEOREM PlacingInvariant == Spec => []PlacingInv
<1>1. PlacingInv /\ [Next]_vars => PlacingInv'
  BY TypesNext, PagesNext, RequestsNext, DocsNext, ConfirmedNext, BetsCountedNext,
     SeedsCountedNext DEF PlacingInv
<1>. QED BY PlacingInit, <1>1, PTL DEF Spec

\* A Bet document says of its owner's bet what the chain says, whichever page
\* confirmed it, and however often (processBetConfirmation).
THEOREM RecordsTheorem == Spec => []RecordsAreBets
  BY PlacingInvariant, PTL DEF PlacingInv

\* A page shows "Bet confirmed" for a signature that has a document, of a
\* player who has a bet (handleBet, confirmBet).
THEOREM ConfirmedTheorem == Spec => []ConfirmedIsRecorded
  BY PlacingInvariant, PTL DEF PlacingInv

\* Redis lists what has a document, and counts it once (cacheBetForRound,
\* joinCommunityRound, getCachedCommunityRound).
THEOREM CountedTheorem == Spec => []CountedOnce
<1>1. PlacingInv => CountedOnce
  <2>. SUFFICES ASSUME PlacingInv
                PROVE  CountedOnce
    OBVIOUS
  <2>1. count <= Cardinality(listed)
    <3>1. count <= Cardinality(listed \ {})
      BY FewerUncounted DEF PlacingInv, TypeOK, BetsCounted
    <3>. QED BY <3>1
  <2>2. joinedCount <= Cardinality(joined)
    <3>1. joinedCount <= Cardinality(joined \ {})
      BY FewerUncounted DEF PlacingInv, TypeOK, SeedsCounted
    <3>. QED BY <3>1
  <2>. QED BY <2>1, <2>2 DEF PlacingInv, BetsCounted, SeedsCounted, CountedOnce
<1>. QED BY PlacingInvariant, <1>1, PTL
=============================================================================
