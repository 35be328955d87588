----------------------------- MODULE BetPlacing -----------------------------
(***************************************************************************)
(* How the bets of one round get onto the chain and into the database:     *)
(* players on pages of their own, the endpoints that build a bet's         *)
(* transaction and record it, the chain that executes what wallets send,   *)
(* and the round closing meanwhile; and how players join a community       *)
(* round, which the database alone keeps.                                  *)
(*                                                                         *)
(* A page learns of its bet only what the server answers, the server       *)
(* learns of it only that the player's bet account exists, and a player    *)
(* may have several pages.  What the page does for a delegated round is    *)
(* left out: a round is delegated when it is locked, and no bet is built   *)
(* for it then.                                                            *)
(***************************************************************************)
EXTENDS Integers, FiniteSets

CONSTANTS
  Players,
  Pages,   \* pages of the round that are open in browsers
  Player,  \* Player[g]: whose page g is
  Wagers,  \* selections and stakes
  Vault,   \* owner of the market's token account
  Tokens,  \* sets of owners whose token accounts may exist at first
  Budgets, \* how much of everything that could go on for ever a run covers
  None     \* nothing

Counted == {"tries", "repeats", "joins", "reads", "faults"}

ASSUME PlacingAssumption ==
  /\ Player \in [Pages -> Players]
  /\ Vault \notin Players
  /\ \A t \in Tokens : t \subseteq Players \cup {Vault}
  /\ None \notin Wagers
  /\ Budgets \subseteq [Counted -> Nat]

VARIABLES
  round,    \* the round, on the chain and in its document
  tokens,   \* owners of the token accounts that exist
  bets,     \* bets[u]: the Bet account of u
  txs,      \* transactions that wallets sent: what became of them
  page,     \* page[g]: what page g is doing
  requests, \* calls of confirmBet and joinCommunityRound being served
  docs,     \* the Bet documents
  locks,    \* Redis: bet-confirm-lock, by signature
  answers,  \* Redis: bet-confirm, by signature
  listed,   \* Redis: the bets of the round, by signature
  count,    \* Redis: their number
  seeds,    \* the players with a CommunitySeed document
  joined,   \* Redis: the hash of the community round
  joinedCount, \* Redis: its count
  reader,   \* a call of getCachedCommunityRound: the seeds it read
  budget    \* what is left

chain == <<tokens, bets, txs>>
redis == <<locks, answers, listed, count>>
community == <<seeds, joined, joinedCount, reader>>
vars == <<round, chain, page, requests, docs, redis, community, budget>>

Rounds == {"open", "closing", "locking", "locked", "over"}

Spend(kind) == budget[kind] > 0 /\ budget' = [budget EXCEPT ![kind] = @ - 1]

-----------------------------------------------------------------------------
(* The round.  "closing": less than LOCK_DURATION_SECONDS is left, so no    *)
(* transaction is built; "locking": lockRound has locked the account and   *)
(* not yet the document; "over": the document is past LOCKED.              *)

Passes == [open |-> "closing", closing |-> "locking", locking |-> "locked", locked |-> "over"]

Pass ==
  /\ round # "over"
  /\ round' = Passes[round]
  /\ UNCHANGED <<chain, page, requests, docs, redis, community, budget>>

Predicting == round \in {"open", "closing", "locking"} \* Round.status

-----------------------------------------------------------------------------
(* A page *)

Idle == [pc |-> "idle", n |-> 0, wager |-> None, creates |-> {}, sig |-> None]

Goto(g, pc) == page' = [page EXCEPT ![g].pc = pc]

\* Which wallet call of which try of which page made a signature.
Signature(g, call) == <<g, page[g].n, call>>

\* handleBet: one at a time, while it is submitting or confirming it returns;
\* and again, if the player likes, after a bet that was confirmed.
Submit(g) ==
  /\ page[g].pc \in {"idle", "confirmed"}
  /\ Spend("tries")
  /\ \E w \in Wagers :
       page' = [page EXCEPT ![g] = [Idle EXCEPT !.pc = "placing", !.n = page[g].n + 1, !.wager = w]]
  /\ UNCHANGED <<round, chain, requests, docs, redis, community>>

\* createBetTransaction and placeBet: the transaction creates the token
\* accounts that are missing when it is built.
CreateBetTransaction(g) ==
  /\ page[g].pc = "placing"
  /\ round = "open"
  /\ page' = [page EXCEPT ![g].pc = "signing", ![g].creates = {Player[g], Vault} \ tokens]
  /\ UNCHANGED <<round, chain, requests, docs, redis, community, budget>>

\* Refused, or an RPC node, the database or the answer fails.
CreateFails(g) ==
  /\ page[g].pc = "placing"
  /\ round = "open" => budget.faults > 0
  /\ Goto(g, "idle")
  /\ budget' = [budget EXCEPT !.faults = IF round = "open" THEN @ - 1 ELSE @]
  /\ UNCHANGED <<round, chain, requests, docs, redis, community>>

Tx(g, call) == [sig |-> Signature(g, call), player |-> Player[g],
                wager |-> page[g].wager, creates |-> page[g].creates, state |-> "sent"]

\* The wallet signs and sends it, without a simulation, and answers with a
\* signature: of the transaction as it is, or as the fallback has it.
WalletSends(g, call) ==
  /\ page[g].pc = IF call = 1 THEN "signing" ELSE "again"
  /\ txs' = txs \cup {Tx(g, call)}
  /\ page' = [page EXCEPT ![g].pc = "signed", ![g].sig = Signature(g, call)]
  /\ UNCHANGED <<round, tokens, bets, requests, docs, redis, community, budget>>

\* The wallet throws: the player refused, or it sent the transaction and did
\* not learn so.  The first time the page falls back to the versioned form,
\* with the server's blockhash and so another signature.
WalletThrows(g) ==
  /\ page[g].pc \in {"signing", "again"}
  /\ \/ UNCHANGED <<txs, budget>>
     \/ /\ Spend("faults")
        /\ txs' = txs \cup {Tx(g, IF page[g].pc = "signing" THEN 1 ELSE 2)}
  /\ Goto(g, IF page[g].pc = "signing" THEN "again" ELSE "idle")
  /\ UNCHANGED <<round, tokens, bets, requests, docs, redis, community>>

\* The page hands the signature to the server.
Confirm(g) ==
  /\ page[g].pc = "signed"
  /\ Goto(g, "confirming")
  /\ requests' = requests \cup
       {[call |-> "confirm", pc |-> "lock", id |-> page[g].sig, copy |-> 0,
         player |-> Player[g], wager |-> page[g].wager, found |-> None]}
  /\ UNCHANGED <<round, chain, docs, redis, community, budget>>

\* The page gives up after two minutes, or loses its connection.
GiveUp(g) ==
  /\ page[g].pc = "confirming"
  /\ Spend("faults")
  /\ Goto(g, "idle")
  /\ UNCHANGED <<round, chain, requests, docs, redis, community>>

-----------------------------------------------------------------------------
(* The chain *)

\* place_bet: while the account is Predicting, once per player; and a token
\* account can be created once.
Executes(t) ==
  /\ round \in {"open", "closing"}
  /\ bets[t.player] = None
  /\ t.creates \cap tokens = {}

\* A transaction that was sent is executed, now or later or, when its
\* blockhash expires, never.
Execute(t) ==
  /\ t.state = "sent"
  /\ txs' = (txs \ {t}) \cup {[t EXCEPT !.state = IF Executes(t) THEN "executed" ELSE "failed"]}
  /\ IF Executes(t)
     THEN /\ bets' = [bets EXCEPT ![t.player] = t.wager]
          /\ tokens' = tokens \cup t.creates
     ELSE UNCHANGED <<bets, tokens>>
  /\ UNCHANGED <<round, page, requests, docs, redis, community, budget>>

-----------------------------------------------------------------------------
(* confirmBet *)

Serving(r, call, pc) == r.call = call /\ r.pc = pc

Turn(r, pc) == requests' = (requests \ {r}) \cup {[r EXCEPT !.pc = pc]}

\* The request ends, and the page that waits for it hears how.
Answered(r, pc) ==
  /\ requests' = requests \ {r}
  /\ page' = [g \in Pages |->
       IF page[g].pc = "confirming" /\ page[g].sig = r.id
       THEN [page[g] EXCEPT !.pc = pc] ELSE page[g]]

\* A proxy, or whoever calls the endpoint, delivers the request once more.
Repeat(r) ==
  /\ r.copy = 0
  /\ Spend("repeats")
  /\ requests' = requests \cup {[r EXCEPT !.pc = "lock", !.copy = budget.repeats, !.found = None]}
  /\ UNCHANGED <<round, chain, page, docs, redis, community>>

\* SET NX.
AcquireLock(r) ==
  /\ Serving(r, "confirm", "lock")
  /\ locks' = locks \cup {r.id}
  /\ Turn(r, IF r.id \in locks THEN "known" ELSE "round")
  /\ UNCHANGED <<round, chain, page, docs, answers, listed, count, community, budget>>

\* EX 30, whether or not its holder is done.
ExpireLock(sig) ==
  /\ locks' = locks \ {sig}
  /\ UNCHANGED <<round, chain, page, requests, docs, answers, listed, count, community, budget>>

Recorded(sig) == \E d \in docs : d.sig = sig

\* Mutated form: a call in progress is taken for one that is done.
KnownByLock(r) == r.id \in locks

Known(r) == Recorded(r.id)

\* Not the first: answered with what the first recorded, and served as if
\* it were the first when that is nothing.
LookUp(r) ==
  /\ Serving(r, "confirm", "known")
  /\ IF Known(r) THEN Answered(r, "confirmed") ELSE Turn(r, "round") /\ UNCHANGED page
  /\ UNCHANGED <<round, chain, docs, redis, community, budget>>

CheckRound(r) ==
  /\ Serving(r, "confirm", "round")
  /\ IF round # "over" THEN Turn(r, "poll") /\ UNCHANGED page ELSE Answered(r, "idle")
  /\ UNCHANGED <<round, chain, docs, redis, community, budget>>

\* Mutated form: the record is what the request says.
FoundAsClaimed(r) == r.wager

Found(r) == bets[r.player]

\* The account of the bet, decoded.
PollAccount(r) ==
  /\ Serving(r, "confirm", "poll")
  /\ bets[r.player] # None
  /\ requests' = (requests \ {r}) \cup {[r EXCEPT !.pc = "create", !.found = Found(r)]}
  /\ UNCHANGED <<round, chain, page, docs, redis, community, budget>>

\* Twenty polls later there is none.
NotOnChain(r) ==
  /\ Serving(r, "confirm", "poll")
  /\ bets[r.player] = None
  /\ Answered(r, "idle")
  /\ UNCHANGED <<round, chain, docs, redis, community, budget>>

\* Mutated form: no unique index on txSignature.
NeverTaken(r) == FALSE

Taken(r) == Recorded(r.id)

\* Bet.create; error 11000 finds the one that exists.
CreateBet(r) ==
  /\ Serving(r, "confirm", "create")
  /\ IF Taken(r)
     THEN /\ answers' = answers \cup {r.id}
          /\ Answered(r, "confirmed")
          /\ UNCHANGED docs
     ELSE /\ docs' = docs \cup {[sig |-> r.id, player |-> r.player, wager |-> r.found]}
          /\ Turn(r, "answer")
          /\ UNCHANGED <<answers, page>>
  /\ UNCHANGED <<round, chain, locks, listed, count, community, budget>>

KeepAnswer(r) ==
  /\ Serving(r, "confirm", "answer")
  /\ answers' = answers \cup {r.id}
  /\ Turn(r, "list")
  /\ UNCHANGED <<round, chain, page, docs, locks, listed, count, community, budget>>

ListBet(r) ==
  /\ Serving(r, "confirm", "list")
  /\ listed' = listed \cup {r.id}
  /\ Turn(r, "count")
  /\ UNCHANGED <<round, chain, page, docs, locks, answers, count, community, budget>>

CountBet(r) ==
  /\ Serving(r, "confirm", "count")
  /\ count' = count + 1
  /\ Answered(r, "confirmed")
  /\ UNCHANGED <<round, chain, docs, locks, answers, listed, community, budget>>

\* A read or a write fails: the error handler answers 500.
RequestFails(r) ==
  /\ Spend("faults")
  /\ Answered(r, "idle")
  /\ UNCHANGED <<round, chain, docs, redis, community>>

\* The server stops; pages lose their connections.
Crash ==
  /\ Spend("faults")
  /\ requests' = {}
  /\ reader' = None
  /\ page' = [g \in Pages |-> IF page[g].pc \in {"placing", "confirming"}
                              THEN [page[g] EXCEPT !.pc = "idle"] ELSE page[g]]
  /\ UNCHANGED <<round, chain, docs, redis, seeds, joined, joinedCount>>

-----------------------------------------------------------------------------
(* joinCommunityRound and getCachedCommunityRound *)

Join(u) ==
  /\ Spend("joins")
  /\ requests' = requests \cup
       {[call |-> "join", pc |-> "check", id |-> u, copy |-> budget.joins,
         player |-> u, wager |-> None, found |-> None]}
  /\ UNCHANGED <<round, chain, page, docs, redis, community>>

\* The round is predicting, and the player has not joined.
CheckJoin(r) ==
  /\ Serving(r, "join", "check")
  /\ IF Predicting /\ r.id \notin seeds THEN Turn(r, "create") ELSE requests' = requests \ {r}
  /\ UNCHANGED <<round, chain, page, docs, redis, community, budget>>

\* CommunitySeed.create: the index on user and round is unique.
CreateSeed(r) ==
  /\ Serving(r, "join", "create")
  /\ IF r.id \in seeds THEN requests' = requests \ {r} ELSE Turn(r, "list")
  /\ seeds' = seeds \cup {r.id}
  /\ UNCHANGED <<round, chain, page, docs, redis, joined, joinedCount, reader, budget>>

ListSeed(r) ==
  /\ Serving(r, "join", "list")
  /\ joined' = joined \cup {r.id}
  /\ Turn(r, "count")
  /\ UNCHANGED <<round, chain, page, docs, redis, seeds, joinedCount, reader, budget>>

CountSeed(r) ==
  /\ Serving(r, "join", "count")
  /\ joinedCount' = joinedCount + 1
  /\ requests' = requests \ {r}
  /\ UNCHANGED <<round, chain, page, docs, redis, seeds, joined, reader, budget>>

\* A hash with nobody in it is filled from the documents.  (hmset of nobody
\* is an error, and changes nothing.)
ReadSeeds ==
  /\ reader = None
  /\ joined = {}
  /\ Spend("reads")
  /\ reader' = seeds
  /\ UNCHANGED <<round, chain, page, requests, docs, redis, seeds, joined, joinedCount>>

FillJoined ==
  /\ reader # None
  /\ joined' = joined \cup reader
  /\ reader' = None
  /\ UNCHANGED <<round, chain, page, requests, docs, redis, seeds, joinedCount, budget>>

-----------------------------------------------------------------------------
(* Specification *)

\* The vault's token account is there, or the first bet of the market makes it.
Init ==
  /\ round = "open"
  /\ tokens \in Tokens
  /\ bets = [u \in Players |-> None]
  /\ txs = {}
  /\ page = [g \in Pages |-> Idle]
  /\ requests = {}
  /\ docs = {}
  /\ locks = {}
  /\ answers = {}
  /\ listed = {}
  /\ count = 0
  /\ seeds = {}
  /\ joined = {}
  /\ joinedCount = 0
  /\ reader = None
  /\ budget \in Budgets

PageStep(g) ==
  \/ Submit(g) \/ CreateBetTransaction(g) \/ CreateFails(g)
  \/ (\E call \in {1, 2} : WalletSends(g, call)) \/ WalletThrows(g)
  \/ Confirm(g) \/ GiveUp(g)

RequestStep(r) ==
  \/ Repeat(r) \/ AcquireLock(r) \/ LookUp(r) \/ CheckRound(r)
  \/ PollAccount(r) \/ NotOnChain(r) \/ CreateBet(r)
  \/ KeepAnswer(r) \/ ListBet(r) \/ CountBet(r) \/ RequestFails(r)
  \/ CheckJoin(r) \/ CreateSeed(r) \/ ListSeed(r) \/ CountSeed(r)

Next ==
  \/ Pass
  \/ \E g \in Pages : PageStep(g)
  \/ \E t \in txs : Execute(t)
  \/ \E r \in requests : RequestStep(r)
  \/ \E sig \in locks : ExpireLock(sig)
  \/ \E u \in Players : Join(u)
  \/ ReadSeeds \/ FillJoined \/ Crash

Spec == Init /\ [][Next]_vars

-----------------------------------------------------------------------------
(* Properties *)

Signatures == {t.sig : t \in txs}

\* What a Bet document says of a bet is what the chain holds of its owner,
\* whichever page confirmed it and whatever that page asked for: the wager of
\* another page of the same player, if that came first.
RecordsAreBets ==
  \A d \in docs : bets[d.player] # None /\ d.wager = bets[d.player] /\ d.sig \in Signatures

\* A page that says "Bet confirmed" has a document under its signature, and
\* its player has a bet on the chain; two deliveries of one confirmation, a
\* lock that expires under its holder and a crash after the document do not
\* change that.
ConfirmedIsRecorded ==
  \A g \in Pages : page[g].pc = "confirmed" =>
    bets[Player[g]] # None /\ Recorded(page[g].sig)

\* Redis follows the documents and never leads: a bet is listed once it has
\* one and counted once, however often it is confirmed, and so is a player
\* of a community round, however often the player joins.
CountedOnce ==
  /\ listed \cup answers \subseteq {d.sig : d \in docs}
  /\ count <= Cardinality(listed)
  /\ joined \subseteq seeds
  /\ joinedCount <= Cardinality(joined)

\* "Bet transaction (proof you placed the bet)": the transaction a Bet
\* document names is one the chain executed.
SignatureProvesBet ==
  \A d \in docs : \E t \in txs : t.sig = d.sig /\ t.state = "executed"

=============================================================================
