------------------------------ MODULE BetRules ------------------------------
(***************************************************************************)
(* One bet, from the option a player picks to what the chain pays and what *)
(* the server records.  Four programs apply the rules of the ten markets,  *)
(* each in its own words: the page prices the options it offers, the       *)
(* server checks and encodes a selection and later decodes and prices it   *)
(* again, the chain prices the bet and decides whether it won, and the     *)
(* settlement worker decides that once more.  The engine draws the         *)
(* outcome.  A selection comes from the page, from another client of the   *)
(* server, or straight from a wallet to the chain, which checks nothing of *)
(* it.  Meanwhile the administrator may change the edge of the house, on   *)
(* the chain first and then in the market's document.                      *)
(*                                                                         *)
(* Odds are in hundredths.  The page and the server divide floating-point  *)
(* numbers and round down to the hundredth: for every edge from 0 to 10000 *)
(* and every ratio of this module that is the integer division written     *)
(* here.                                                                   *)
(***************************************************************************)
EXTENDS Integers, FiniteSets

CONSTANTS
  Markets,    \* the types of market
  Edges,      \* edges of the house, in hundredths of a percent
  Partitions, \* partitionCount of a PICK_RANGE market
  Typed,      \* numbers a player types or a client sends
  Encodings,  \* selections a wallet sends to the chain itself
  Stakes,     \* in base units of the token
  Scores,     \* entropy scores the engine measures
  MaxStreak,  \* config.MAX_STREAK_TARGET
  MaxChanges, \* bound on changes of the edge
  None        \* not yet

Byte == 0 .. 255
U16 == 0 .. 65535

AllMarkets == {"PICK_RANGE", "EVEN_ODD", "LAST_DIGIT", "MODULO_THREE",
  "PATTERN_OF_DAY", "SHAPE_COLOR", "JACKPOT", "ENTROPY_BATTLE",
  "STREAK_METER", "COMMUNITY_SEED"}

ASSUME RulesAssumption ==
  /\ Markets \subseteq AllMarkets
  /\ Partitions \subseteq 1 .. 20
  /\ Typed \subseteq Int
  /\ Encodings \subseteq [kind : Byte, a : U16, b : U16, c : U16]
  /\ Stakes \subseteq Nat \ {0}
  /\ Scores \subseteq Nat
  /\ MaxStreak \in U16 \* any number, in the code: 5, as deployed
  /\ MaxChanges \in Nat

ASSUME EdgesAssumption == Edges \subseteq 0 .. 10000

VARIABLES
  market,     \* its type and, for PICK_RANGE, its partitionCount
  chainEdge,  \* Market account: house_edge_bps
  configEdge, \* Market document: config.houseEdgeBps
  changes,    \* changes of the edge so far
  stage,      \* how far the bet is
  option,     \* the option the page shows as chosen, if a page is used
  selection,  \* what the server is sent, if it is
  bet,        \* the Bet account
  doc,        \* the Bet document
  outcome     \* of the attestation

vars == <<market, chainEdge, configEdge, changes, stage, option, selection,
          bet, doc, outcome>>
house == <<chainEdge, configEdge, changes>>

-----------------------------------------------------------------------------
(* Odds *)

\* (den / num) / (1 + edge), in hundredths.
Odds(num, den, edge) == (den * 1000000) \div (num * (10000 + edge))

AtLeastOne(odds) == IF odds < 100 THEN 100 ELSE odds

\* Mutated form: every value counted under each of its patterns.
OverlappingCounts == [p \in 0 .. 6 |->
  CASE p = 0 -> 168 [] p = 1 -> 16 [] p = 2 -> 32 [] p = 3 -> 100
    [] p = 4 -> 109 [] p \in {5, 6} -> 500]

\* Values of 0 .. 999 per pattern, as the three programs have them.
PatternCounts == [p \in 0 .. 6 |->
  CASE p = 0 -> 168 [] p = 1 -> 10 [] p = 2 -> 29 [] p = 3 -> 52
    [] p = 4 -> 73 [] p = 5 -> 437 [] p = 6 -> 231]

\* Bytes within a distance of t bits of a byte.
Within == [t \in 0 .. 8 |->
  CASE t = 0 -> 1 [] t = 1 -> 9 [] t = 2 -> 37 [] t = 3 -> 93 [] t = 4 -> 163
    [] t = 5 -> 219 [] t = 6 -> 247 [] t = 7 -> 255 [] t = 8 -> 256]

\* Mutated form: an open field counts as one value.
MatchedExactly(s) == 1

\* The shapes a selection matches: a field of 255 matches all.
Matched(s) ==
  LET Choices(field, all) == IF field = 255 THEN all ELSE 1 IN
  Choices(s.a, 4) * Choices(s.b, 6) * Choices(s.c, 3)

Inverted(m, s) == m = "PICK_RANGE" /\ s.kind = 0 /\ s.b < s.a

\* The chain's odds, of any encoded selection.
compute_odds_bps(m, s, edge) ==
  CASE m \in {"EVEN_ODD", "STREAK_METER"}      -> Odds(1, 2, edge)
    [] m \in {"MODULO_THREE", "ENTROPY_BATTLE"} -> Odds(1, 3, edge)
    [] m = "LAST_DIGIT"     -> Odds(1, 10, edge)
    [] m = "JACKPOT"        -> Odds(1, 100, edge)
    [] Inverted(m, s)       -> 0
    [] m = "PICK_RANGE" /\ s.kind = 0 /\ s.a <= s.b -> Odds(s.b - s.a + 1, 100, edge)
    [] m = "PICK_RANGE" /\ s.kind = 1 -> Odds(1, 100, edge)
    [] m = "PICK_RANGE" /\ s.kind > 1 -> Odds(1, 2, edge)
    [] m = "SHAPE_COLOR"    -> Odds(Matched(s), 72, edge)
    [] m = "PATTERN_OF_DAY" -> Odds(PatternCounts[IF s.a < 7 THEN s.a ELSE 6], 1000, edge)
    [] m = "COMMUNITY_SEED" -> Odds(Within[IF s.b % 256 < 8 THEN s.b % 256 ELSE 8], 256, edge)

\* The width of a range is a 16-bit number too.
WidthFits(m, s) == m = "PICK_RANGE" /\ s.kind = 0 => s.b - s.a < 65535

\* The record's odds, of a decoded selection: a shape's three fields are
\* there whatever the player left open, and a tolerance never is.
calculateOdds(m, s, edge) ==
  IF s.type = "range" /\ s.max < s.min
  THEN IF s.max + 1 = s.min THEN 0 ELSE 100
  ELSE AtLeastOne(
    CASE m = "PICK_RANGE" /\ s.type = "range"  -> Odds(s.max - s.min + 1, 100, edge)
      [] m = "PICK_RANGE" /\ s.type = "single" -> Odds(1, 100, edge)
      [] m \in {"MODULO_THREE", "ENTROPY_BATTLE"} -> Odds(1, 3, edge)
      [] m = "LAST_DIGIT"     -> Odds(1, 10, edge)
      [] m = "JACKPOT"        -> Odds(1, 100, edge)
      [] m = "SHAPE_COLOR"    -> Odds(1, 72, edge)
      [] m = "PATTERN_OF_DAY" ->
           Odds(PatternCounts[IF s.patternId < 7 THEN s.patternId ELSE 6], 1000, edge)
      [] m = "COMMUNITY_SEED" -> Odds(Within[0], 256, edge)
      [] OTHER                -> Odds(1, 2, edge))

-----------------------------------------------------------------------------
(* The page *)

Choice(s, odds) == [selection |-> s, odds |-> AtLeastOne(odds)]

Interval(lo, hi) == [type |-> "range", min |-> lo, max |-> hi]
Valued(t, v) == [type |-> t, value |-> v]
Pattern(p) == [type |-> "pattern", patternId |-> p]
Shape(a, b, c) == [type |-> "shape", shape |-> a, color |-> b, size |-> c]
Entropy(source) == [type |-> "entropy", source |-> source]
Streak(n) == [type |-> "streak", target |-> n]
Community(byte) == [type |-> "community", byte |-> byte]

Sources == {"tee", "chain", "sensor"}
parseEntropySource == [x \in Sources |->
  IF x = "tee" THEN 0 ELSE IF x = "chain" THEN 1 ELSE 2]

\* Range i of n: all of the same width but the last, which takes the rest.
Part(i, n) ==
  LET width == 100 \div n IN
  Interval(i * width + 1, IF i = n - 1 THEN 100 ELSE (i + 1) * width)

buildRoundOptions(m, edge) ==
  CASE m.type = "PICK_RANGE" ->
         {Choice(s, Odds(s.max - s.min + 1, 100, edge)) :
            s \in {Part(i, m.partitions) : i \in 0 .. m.partitions - 1}}
    [] m.type = "EVEN_ODD" ->
         {Choice(Valued("parity", v), Odds(1, 2, edge)) : v \in {"even", "odd"}}
    [] m.type = "LAST_DIGIT" ->
         {Choice(Valued("digit", v), Odds(1, 10, edge)) : v \in 0 .. 9}
    [] m.type = "MODULO_THREE" ->
         {Choice(Valued("modulo", v), Odds(1, 3, edge)) : v \in 0 .. 2}
    [] m.type = "PATTERN_OF_DAY" ->
         {Choice(Pattern(p), Odds(PatternCounts[p], 1000, edge)) : p \in 0 .. 6}
    [] m.type = "SHAPE_COLOR" ->
         {Choice(Shape(255, 0, 255), Odds(12, 72, edge)),
          Choice(Shape(0, 0, 255), Odds(3, 72, edge)),
          Choice(Shape(0, 0, 0), Odds(1, 72, edge))}
    [] m.type = "JACKPOT" -> {Choice(Valued("single", 0), Odds(1, 100, edge))}
    [] m.type = "ENTROPY_BATTLE" ->
         {Choice(Entropy(s), Odds(1, 3, edge)) : s \in Sources}
    [] m.type = "STREAK_METER" ->
         {Choice(Streak(n), Odds(1, 2 ^ n, edge)) : n \in {3, 5, 7}}
    [] m.type = "COMMUNITY_SEED" ->
         {Choice(Community(0), Odds(Within[t], 256, edge)) : t \in 0 .. 2}

\* What the inputs beside the chosen option let the player turn it into.
Adjusted(s) ==
  CASE s.type = "range"     -> {[s EXCEPT !.min = n] : n \in Typed}
                               \cup {[s EXCEPT !.max = n] : n \in Typed}
    [] s.type \in {"digit", "single", "modulo"} -> {Valued(s.type, n) : n \in Typed}
    [] s.type = "pattern"   -> {Pattern(p) : p \in 0 .. 6}
    [] s.type = "entropy"   -> {Entropy(source) : source \in Sources}
    [] s.type = "community" -> {Community(n) : n \in Typed}
    [] OTHER                -> {s}

\* What another client of the server may send for a market; the server does
\* not ask what type a selection says it is, but for a range and a number.
Requested(m) ==
  CASE m = "PICK_RANGE"     -> {Interval(lo, hi) : lo, hi \in Typed}
                               \cup {Valued(t, n) : t \in {"single", "other"}, n \in Typed}
    [] m = "EVEN_ODD"       -> {Valued("parity", v) : v \in {"even", "odd", "other"}}
    [] m = "LAST_DIGIT"     -> {Valued("digit", n) : n \in Typed}
    [] m = "MODULO_THREE"   -> {Valued("modulo", n) : n \in Typed}
    [] m = "PATTERN_OF_DAY" -> {Pattern(n) : n \in Typed}
    [] m = "SHAPE_COLOR"    -> {Shape(a, b, 255) : a, b \in Typed}
    [] m = "JACKPOT"        -> {Valued("single", n) : n \in Typed}
    [] m = "ENTROPY_BATTLE" -> {Entropy(source) : source \in Sources \cup {"other"}}
    [] m = "STREAK_METER"   -> {Streak(n) : n \in Typed}
    [] m = "COMMUNITY_SEED" -> {Community(n) : n \in Typed}

-----------------------------------------------------------------------------
(* The server *)

\* Mutated form: only the upper bound is checked.
AtMost(n, last) == n <= last

UpTo(n, last) == n >= 0 /\ n <= last

validateSelection(m, s) ==
  CASE m = "PICK_RANGE"     -> /\ s.type = "range" => s.min >= 1 /\ s.max <= 100 /\ s.min <= s.max
                               /\ s.type = "single" => s.value >= 1 /\ s.value <= 100
    [] m = "EVEN_ODD"       -> s.value \in {"even", "odd"}
    [] m = "LAST_DIGIT"     -> UpTo(s.value, 9)
    [] m = "MODULO_THREE"   -> UpTo(s.value, 2)
    [] m = "PATTERN_OF_DAY" -> UpTo(s.patternId, 6)
    [] m = "SHAPE_COLOR"    -> UpTo(s.shape, 255) /\ UpTo(s.color, 255) /\ UpTo(s.size, 255)
    [] m = "JACKPOT"        -> FALSE
    [] m = "ENTROPY_BATTLE" -> s.source \in Sources
    [] m = "STREAK_METER"   -> s.target >= 2 /\ s.target <= MaxStreak
    [] m = "COMMUNITY_SEED" -> UpTo(s.byte, 255)

Encoded(kind, a, b, c) == [kind |-> kind, a |-> a, b |-> b, c |-> c]

encodeSelection(m, s) ==
  CASE m = "PICK_RANGE" /\ s.type = "range" -> Encoded(0, s.min, s.max, 0)
    [] m = "PICK_RANGE" /\ s.type # "range" -> Encoded(1, s.value, 0, 0)
    [] m = "EVEN_ODD"       -> Encoded(2, IF s.value = "even" THEN 0 ELSE 1, 0, 0)
    [] m = "LAST_DIGIT"     -> Encoded(3, s.value, 0, 0)
    [] m = "MODULO_THREE"   -> Encoded(4, s.value, 0, 0)
    [] m = "PATTERN_OF_DAY" -> Encoded(5, s.patternId, 0, 0)
    [] m = "SHAPE_COLOR"    -> Encoded(6, s.shape, s.color, s.size)
    [] m = "ENTROPY_BATTLE" -> Encoded(7, parseEntropySource[s.source], 0, 0)
    [] m = "STREAK_METER"   -> Encoded(8, s.target, 0, 0)
    [] m = "COMMUNITY_SEED" -> Encoded(9, s.byte, 0, 0)

\* Mutated form: the numbers are sent as they are.
Unmasked(e) == e

\* The bytes of the instruction: 8 bits of the kind, 16 of the fields.
placeBetData(e) == Encoded(e.kind % 256, e.a % 65536, e.b % 65536, e.c % 65536)

decodeSelection(m, e) ==
  CASE m = "PICK_RANGE" /\ e.kind = 0 -> Interval(e.a, e.b)
    [] m = "PICK_RANGE" /\ e.kind # 0 -> Valued("single", e.a)
    [] m = "EVEN_ODD"       -> Valued("parity", IF e.a = 0 THEN "even" ELSE "odd")
    [] m = "LAST_DIGIT"     -> Valued("digit", e.a)
    [] m = "MODULO_THREE"   -> Valued("modulo", e.a)
    [] m = "PATTERN_OF_DAY" -> Pattern(e.a)
    [] m = "SHAPE_COLOR"    -> Shape(e.a, e.b, e.c)
    [] m = "JACKPOT"        -> [type |-> "none"]
    [] m = "ENTROPY_BATTLE" -> Entropy(IF e.a = 1 THEN "chain"
                                       ELSE IF e.a = 2 THEN "sensor" ELSE "tee")
    [] m = "STREAK_METER"   -> Streak(e.a)
    [] m = "COMMUNITY_SEED" -> Community(e.a)

\* Mutated form: a range that ends before its last number.
Below(s, v) == v >= s.min /\ v < s.max

Contains(s, v) == v >= s.min /\ v <= s.max

\* The worker's judgement of the record, on the attested outcome o.
checkBetWon(s, o) ==
  \/ s.type = "range"     /\ Contains(s, o.value)
  \/ s.type = "single"    /\ o.value = s.value
  \/ s.type = "parity"    /\ s.value = IF o.value % 2 = 0 THEN "even" ELSE "odd"
  \/ s.type = "digit"     /\ o.value % 10 = s.value
  \/ s.type = "modulo"    /\ o.value % 3 = s.value
  \/ s.type = "shape"     /\ s.shape = o.shape /\ (s.color = 0 \/ s.color = o.color)
  \/ s.type = "pattern"   /\ s.patternId = o.pattern_id
  \/ s.type = "entropy"   /\ parseEntropySource[s.source] = o.winner
  \/ s.type = "community" /\ s.byte = o.final_byte

-----------------------------------------------------------------------------
(* The engine *)

isPrime(n) == n > 1 /\ \A d \in 2 .. 31 : d * d <= n => n % d # 0
isFibonacci(n) == n \in {0, 1, 2, 3, 5, 8, 13, 21, 34, 55, 89, 144, 233, 377, 610, 987}
isPerfectSquare(n) == \E r \in 0 .. 31 : r * r = n
isPalindrome(n) ==
  n < 10 \/ (n < 100 /\ n % 11 = 0) \/ (n >= 100 /\ n \div 100 = n % 10)

\* The first of the patterns, in this order, that the value has.
PatternOf(n) ==
  LET has == <<isPrime(n), isFibonacci(n), isPerfectSquare(n), n % 10 = 7,
               isPalindrome(n), n % 2 = 0, TRUE>> IN
  (CHOOSE i \in 1 .. 7 : has[i] /\ \A j \in 1 .. i - 1 : ~has[j]) - 1

PatternOutcomes == {[pattern_id |-> PatternOf(n), matched_value |-> n] : n \in 0 .. 999}

\* The engine gives a tie to the first of the tied sides.
determineEntropyWinner(tee, chain, sensor) ==
  IF tee >= chain /\ tee >= sensor THEN 0
  ELSE IF chain >= tee /\ chain >= sensor THEN 1 ELSE 2

\* What generateOutcome may draw.  prepareOutcome hands it no seeds, so the
\* byte of a community is 0; of a streak it draws nothing.
buildOutcomeForMarket(m) ==
  CASE m = "PICK_RANGE"     -> [value : 1 .. 100]
    [] m = "EVEN_ODD"       -> [value : 0 .. 1]
    [] m = "LAST_DIGIT"     -> [value : 0 .. 9]
    [] m = "MODULO_THREE"   -> [value : 0 .. 2]
    [] m = "JACKPOT"        -> [value : 0 .. 99]
    [] m = "PATTERN_OF_DAY" -> PatternOutcomes
    [] m = "SHAPE_COLOR"    -> [shape : 0 .. 3, color : 0 .. 5, size : 0 .. 2]
    [] m = "ENTROPY_BATTLE" ->
         {[tee |-> t, chain |-> c, sensor |-> s,
           winner |-> determineEntropyWinner(t, c, s)] : t, c, s \in Scores}
    [] m = "COMMUNITY_SEED" -> [final_byte : {0}]
    [] m = "STREAK_METER"   -> {}

-----------------------------------------------------------------------------
(* The chain *)

\* The chain finds the winner of a battle itself, and the sensor has a tie.
determine_entropy_winner(o) ==
  CASE o.tee > o.chain /\ o.tee > o.sensor   -> 0
    [] o.chain > o.tee /\ o.chain > o.sensor -> 1
    [] OTHER                                 -> 2

\* Bits in which two bytes differ.
calculate_hamming_distance(x, y) ==
  Cardinality({bit \in {1, 2, 4, 8, 16, 32, 64, 128} : (x \div bit) % 2 # (y \div bit) % 2})

Numeric == {"PICK_RANGE", "EVEN_ODD", "LAST_DIGIT", "MODULO_THREE", "JACKPOT"}

\* By the kind of the selection e and of the outcome o, which is its market's.
evaluate_winner(m, e, o) ==
  LET Is(field, value) == field = 255 \/ field = value IN
  \/ /\ m \in Numeric
     /\ \/ e.kind = 0 /\ o.value >= e.a /\ o.value <= e.b
        \/ e.kind = 1 /\ o.value = e.a
        \/ e.kind = 2 /\ (o.value % 2 = 0) = (e.a = 0)
        \/ e.kind = 3 /\ o.value % 10 = e.a % 10
        \/ e.kind = 4 /\ o.value % 3 = e.a % 3
  \/ m = "PATTERN_OF_DAY" /\ e.kind = 5 /\ e.a = o.pattern_id /\ o.matched_value > 0
  \/ m = "SHAPE_COLOR" /\ e.kind = 6 /\ Is(e.a, o.shape) /\ Is(e.b, o.color) /\ Is(e.c, o.size)
  \/ m = "ENTROPY_BATTLE" /\ e.kind = 7 /\ e.a = determine_entropy_winner(o)
  \/ /\ m = "COMMUNITY_SEED" /\ e.kind = 9
     /\ calculate_hamming_distance(e.a % 256, o.final_byte) <= e.b % 256

\* What settle_bet pays, in base units.
Payout(won, stake, odds) == IF won THEN (stake * odds) \div 100 ELSE 0

-----------------------------------------------------------------------------
(* The bet's way *)

Init ==
  /\ market \in {[type |-> t, partitions |-> 4] : t \in Markets}
       \cup {[type |-> t, partitions |-> n] : t \in Markets \cap {"PICK_RANGE"}, n \in Partitions}
  /\ chainEdge \in Edges
  /\ configEdge = chainEdge
  /\ changes = 0
  /\ stage = "new"
  /\ option = None
  /\ selection = None
  /\ bet = None
  /\ doc = None
  /\ outcome = None

\* The player opens the round and picks one of its options.
Choose ==
  /\ stage = "new"
  /\ \E o \in buildRoundOptions(market, configEdge) :
       /\ option' = [selection |-> o.selection, odds |-> o.odds, edge |-> configEdge]
       /\ selection' = o.selection
  /\ stage' = "chosen"
  /\ UNCHANGED <<market, house, bet, doc, outcome>>

\* Another client asks for a bet.
Request ==
  /\ stage = "new"
  /\ selection' \in Requested(market.type)
  /\ stage' = "chosen"
  /\ UNCHANGED <<market, house, option, bet, doc, outcome>>

\* The player changes the selection; the option, and its odds, stay on view.
Adjust ==
  /\ stage = "chosen"
  /\ option # None
  /\ selection = option.selection
  /\ selection' \in Adjusted(selection) \ {selection}
  /\ UNCHANGED <<market, house, stage, option, bet, doc, outcome>>

\* createBetTransaction refuses the selection.
Refuse ==
  /\ stage = "chosen"
  /\ ~validateSelection(market.type, selection)
  /\ stage' = "refused"
  /\ UNCHANGED <<market, house, option, selection, bet, doc, outcome>>

\* The instruction, which looks at the market only to price the selection.
place_bet(e, stake) ==
  /\ WidthFits(market.type, e)
  /\ bet' = [selection |-> e, stake |-> stake, edge |-> chainEdge, won |-> FALSE, payout |-> 0,
             odds |-> compute_odds_bps(market.type, e, chainEdge)]
  /\ stage' = "placed"
  /\ UNCHANGED <<market, house, option, selection, doc, outcome>>

\* createBetTransaction encodes the selection, the player signs and the chain
\* executes the instruction.
PlaceBet ==
  /\ stage = "chosen"
  /\ validateSelection(market.type, selection)
  /\ \E stake \in Stakes :
       place_bet(placeBetData(encodeSelection(market.type, selection)), stake)

\* A wallet sends an instruction of its own.
PlaceBetItself ==
  /\ stage = "new"
  /\ \E e \in Encodings, stake \in Stakes : place_bet(e, stake)

\* processBetConfirmation records what it decodes from the account.
ConfirmBet ==
  /\ stage = "placed"
  /\ LET s == decodeSelection(market.type, bet.selection) IN
       doc' = [selection |-> s, stake |-> bet.stake, edge |-> configEdge,
               won |-> FALSE, payout |-> 0,
               odds |-> calculateOdds(market.type, s, configEdge)]
  /\ stage' = "confirmed"
  /\ UNCHANGED <<market, house, option, selection, bet, outcome>>

Draw ==
  /\ stage = "confirmed"
  /\ outcome' \in buildOutcomeForMarket(market.type)
  /\ stage' = "drawn"
  /\ UNCHANGED <<market, house, option, selection, bet, doc>>

\* StreakMeter: generateOutcome throws, and no attestation is prepared.
NoDraw ==
  /\ stage = "confirmed"
  /\ buildOutcomeForMarket(market.type) = {}
  /\ stage' = "undrawn"
  /\ UNCHANGED <<market, house, option, selection, bet, doc, outcome>>

\* processSettlement: the worker judges, the chain settles, the record is
\* written, with the product of stake and odds as it is: in hundredths.
Settle ==
  /\ stage = "drawn"
  /\ LET won == checkBetWon(doc.selection, outcome)
         won_on_chain == evaluate_winner(market.type, bet.selection, outcome) IN
       /\ bet' = [bet EXCEPT !.won = won_on_chain,
                             !.payout = Payout(won_on_chain, bet.stake, bet.odds)]
       /\ doc' = [doc EXCEPT !.won = won, !.payout = IF won THEN doc.stake * doc.odds ELSE 0]
  /\ stage' = "settled"
  /\ UNCHANGED <<market, house, option, selection, outcome>>

\* updateHouseEdgeBps, on the chain.  No later step of the bet than its
\* record reads the edge: changes after it are left out.
SetHouseEdgeBps ==
  /\ stage \in {"new", "chosen", "placed"}
  /\ changes < MaxChanges
  /\ chainEdge = configEdge
  /\ chainEdge' \in Edges \ {chainEdge}
  /\ changes' = changes + 1
  /\ UNCHANGED <<market, configEdge, stage, option, selection, bet, doc, outcome>>

\* ... and then, unless the server stops between, in the market's document.
SaveHouseEdgeBps ==
  /\ stage \in {"new", "chosen", "placed"}
  /\ configEdge # chainEdge
  /\ configEdge' = chainEdge
  /\ UNCHANGED <<market, chainEdge, changes, stage, option, selection, bet, doc, outcome>>

Next ==
  \/ Choose \/ Request \/ Adjust \/ Refuse
  \/ PlaceBet \/ PlaceBetItself \/ ConfirmBet
  \/ Draw \/ NoDraw \/ Settle
  \/ SetHouseEdgeBps \/ SaveHouseEdgeBps

Spec == Init /\ [][Next]_vars

-----------------------------------------------------------------------------
(* Properties *)

\* The state keeps its shape: the account holds bytes and 16-bit numbers, the
\* odds among them, whatever a player typed or a wallet sent.
TypeOK ==
  /\ market \in [type : Markets, partitions : Partitions \cup {4}]
  /\ {chainEdge, configEdge} \subseteq Edges
  /\ changes \in 0 .. MaxChanges
  /\ stage \in {"new", "chosen", "refused", "placed", "confirmed", "drawn", "undrawn", "settled"}
  /\ bet # None => bet \in [selection : [kind : Byte, a : U16, b : U16, c : U16], stake : Stakes,
                           edge : Edges, won : BOOLEAN, payout : Nat, odds : U16]
  /\ stage \in {"drawn", "settled"} => outcome \in buildOutcomeForMarket(market.type)

ByServer == selection # None
ByPage == option # None

\* The server looks at the number of a PICK_RANGE selection only if it calls
\* itself a range or a single number, and builds a bet on a number from any.
Unchecked == market.type = "PICK_RANGE" /\ selection.type = "other"

\* What a player chose survives the way to the chain and back: the record of a
\* bet the server built has the selection it was asked for, so that no number
\* it let through is cut to another one by the masks of the instruction.
RecordedAsAsked ==
  stage = "confirmed" /\ ByServer /\ ~Unchecked => doc.selection = selection

\* The values of two records that differ: a shape, whose open fields the
\* record takes for values; the number 0, which the chain counts as no match
\* of a pattern; and a tie of entropy, which goes to another side.
Differs ==
  \/ market.type = "SHAPE_COLOR"
  \/ market.type = "PATTERN_OF_DAY" /\ outcome.matched_value = 0
  \/ market.type = "ENTROPY_BATTLE"
       /\ outcome.winner # determine_entropy_winner(outcome)

\* The worker's record of a bet the server built says what the chain did with
\* it: it was won on both or on neither, but for Differs.  When the edge did
\* not change between the two, the recorded payout is never less than what was
\* paid, and more by less than one unit, which the chain rounds away, unless
\* the chain pays less than the stake, which the record takes for the least.
RecordsAgree ==
  stage = "settled" /\ ByServer /\ ~Differs =>
    /\ doc.won = bet.won
    /\ doc.edge = bet.edge =>
         /\ 100 * bet.payout <= doc.payout
         /\ doc.payout < 100 * (bet.payout + 1) \/ bet.odds < 100

\* The markets whose outcomes are all as likely as each other.
Uniform == Numeric \cup {"PATTERN_OF_DAY", "SHAPE_COLOR"}

\* The kind of selection that the price of a market is made for, where the
\* chain asks neither for it when it prices nor when it judges.
PricedKind == [m \in Numeric \ {"PICK_RANGE"} |->
  CASE m = "JACKPOT" -> 1 [] m = "EVEN_ODD" -> 2 [] m = "LAST_DIGIT" -> 3 [] m = "MODULO_THREE" -> 4]

Mispriced ==
  market.type \in DOMAIN PricedKind /\ bet.selection.kind # PricedKind[market.type]

\* The chain's odds are the bet's chances: over all outcomes the engine may
\* draw, a bet pays back at most what was staked on it less the edge, whoever
\* sent it, with whatever numbers, if its kind is the one its market prices.
\* One the server built pays back no less either, but for the rounding of its
\* odds, for the one Fibonacci number the chain does not count, and for what a
\* client other than the page made of it that no outcome matches.
FairPrice ==
  stage = "placed" /\ market.type \in Uniform =>
    LET drawn == buildOutcomeForMarket(market.type)
        wins == Cardinality({o \in drawn : evaluate_winner(market.type, bet.selection, o)})
        less_edge == (Cardinality(drawn) * 1000000) \div (10000 + bet.edge)
    IN /\ wins * bet.odds <= less_edge \/ Mispriced
       /\ ByServer => \/ wins * (bet.odds + 1) > less_edge
                      \/ market.type = "PATTERN_OF_DAY" /\ selection.patternId = 1
                      \/ ~ByPage /\ wins = 0

\* A player who leaves an option as it is and wins receives what the page
\* offered for it, in whole units, if the edge did not change meanwhile: except
\* where the page's least odds of one hide a lower price, and for a community,
\* whose tolerance the server does not encode.
PaidAsShown ==
  stage = "settled" /\ ByPage /\ bet.won /\ selection = option.selection
  /\ bet.edge = option.edge /\ market.type # "COMMUNITY_SEED" =>
    \/ bet.payout = (bet.stake * option.odds) \div 100
    \/ bet.odds < 100 /\ option.odds = 100

=============================================================================
