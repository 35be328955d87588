--------------------------- MODULE BetRules_proofs ---------------------------
(***************************************************************************)
(* Theorems about BetRules, for every set of markets, edges, partitions,   *)
(* typed numbers, selections of wallets, stakes and entropy scores.  The   *)
(* rules are constant operators: a lemma says of each what it does in      *)
(* every market with any selection that fits an account, and RulesInv says *)
(* of each stage which of them computed what the bet, its record and the   *)
(* option on the page hold.                                                *)
(***************************************************************************)
EXTENDS BetRules, FiniteSetTheorems, TLAPS

-----------------------------------------------------------------------------
(* What the server may be asked for, and what it lets through *)

Ranges == [type : {"range"}, min : Int, max : Int]

\* Selections a client may send for a market of type t.
Sent(t) ==
  CASE t = "PICK_RANGE"     -> Ranges \cup [type : {"single", "other"}, value : Int]
    [] t = "EVEN_ODD"       -> [type : {"parity"}, value : {"even", "odd", "other"}]
    [] t = "LAST_DIGIT"     -> [type : {"digit"}, value : Int]
    [] t = "MODULO_THREE"   -> [type : {"modulo"}, value : Int]
    [] t = "PATTERN_OF_DAY" -> [type : {"pattern"}, patternId : Int]
    [] t = "SHAPE_COLOR"    -> [type : {"shape"}, shape : Int, color : Int, size : Int]
    [] t = "JACKPOT"        -> [type : {"single"}, value : Int]
    [] t = "ENTROPY_BATTLE" -> [type : {"entropy"}, source : Sources \cup {"other"}]
    [] t = "STREAK_METER"   -> [type : {"streak"}, target : Int]
    [] t = "COMMUNITY_SEED" -> [type : {"community"}, byte : Int]

\* Those the page may send: what an option is, or what the inputs make of it.
Offered(t) ==
  CASE t = "PICK_RANGE"     -> Ranges
    [] t = "SHAPE_COLOR"    -> {Shape(255, 0, 255), Shape(0, 0, 255), Shape(0, 0, 0)}
    [] t \in AllMarkets \ {"PICK_RANGE", "SHAPE_COLOR"} -> Sent(t)

\* Those the server lets through.
Valid(t) == {s \in Sent(t) : validateSelection(t, s)}

\* What the chain has of them.
OnChain(t, s) == placeBetData(encodeSelection(t, s))

Market == [type : Markets, partitions : Partitions \cup {4}]

Account == [kind : Byte, a : U16, b : U16, c : U16]

\* The assumption on the constants, one conjunct at a time.
LEMMA MarketsKnown == Markets \subseteq AllMarkets
  BY RulesAssumption

LEMMA PartitionsBounded == \A n \in Partitions \cup {4} : n \in 1 .. 20
<1>1. Partitions \subseteq 1 .. 20
  BY RulesAssumption
<1>2. 4 \in 1 .. 20
  BY SMT
<1> QED
  BY <1>1, <1>2, Zenon

LEMMA EdgesBounded == Edges \subseteq 0 .. 10000
  BY EdgesAssumption

LEMMA TypedIntegers == Typed \subseteq Int
  BY RulesAssumption

LEMMA EncodingsFit == Encodings \subseteq Account
  BY RulesAssumption, Zenon DEF Account

LEMMA StakesNatural == \A x \in Stakes : x \in Nat
<1>1. Stakes \subseteq Nat \ {0}
  BY RulesAssumption
<1> QED
  BY <1>1, Zenon

LEMMA StreaksBounded == MaxStreak \in U16
  BY RulesAssumption

\* A market has a type and at most twenty partitions.
LEMMA MarketType ==
  ASSUME NEW m \in Market
  PROVE  m.type \in AllMarkets /\ m.type \in Markets /\ m.partitions \in 1 .. 20
<1>1. m.type \in Markets /\ m.partitions \in Partitions \cup {4}
  BY SMT DEF Market
<1>2. m.partitions \in 1 .. 20
  BY <1>1, PartitionsBounded, Zenon
<1> QED
  BY SMT, <1>1, <1>2, MarketsKnown

\* A range is a pair of integers.
LEMMA RangeType ==
  ASSUME NEW lo \in Int, NEW hi \in Int
  PROVE  Interval(lo, hi) \in Ranges
  BY SMT DEF Interval, Ranges

\* An option of PICK_RANGE is a pair of integers.
LEMMA PartType ==
  ASSUME NEW n \in 1 .. 20, NEW i \in 0 .. n - 1
  PROVE  Part(i, n) \in Ranges
<1> DEFINE w == 100 \div n
<1>1. w \in Int
  BY SMT
<1>2. i * w + 1 \in Int /\ (i + 1) * w \in Int
  BY <1>1
<1>3. (IF i = n - 1 THEN 100 ELSE (i + 1) * w) \in Int
  BY <1>2
<1> DEFINE lo == i * w + 1
           hi == IF i = n - 1 THEN 100 ELSE (i + 1) * w
<1>4. Part(i, n) = Interval(lo, hi)
  BY DEF Part
<1>5. lo \in Int /\ hi \in Int
  BY <1>2, <1>3
<1> HIDE DEF w, lo, hi
<1> QED
  BY <1>4, <1>5, RangeType

\* The options of a market are selections of its type.
LEMMA OptionsOffered ==
  ASSUME NEW m \in Market, NEW edge \in Edges, NEW o \in buildRoundOptions(m, edge)
  PROVE  o.selection \in Offered(m.type)
<1>0. m.type \in AllMarkets /\ m.partitions \in 1 .. 20
  BY SMT, MarketType
<1>1. CASE m.type = "PICK_RANGE"
  <2>1. PICK i \in 0 .. m.partitions - 1 : o.selection = Part(i, m.partitions)
    BY SMT, <1>1 DEF buildRoundOptions, Choice
  <2>2. o.selection \in Ranges
    <3> DEFINE n == m.partitions
    <3>1. n \in 1 .. 20 /\ i \in 0 .. n - 1
      BY SMT, <1>0
    <3> HIDE DEF n
    <3>2. Part(i, n) \in Ranges
      BY ONLY <3>1, PartType, Zenon
    <3> QED
      BY SMT, <2>1, <3>2 DEF n
  <2>3. Offered("PICK_RANGE") = Ranges
    BY SMT DEF Offered
  <2> QED
    BY <1>1, <2>2, <2>3
<1>2. CASE m.type = "EVEN_ODD"
  BY SMT, <1>2 DEF buildRoundOptions, Choice, Offered, AllMarkets, Sent, Valued
<1>3. CASE m.type = "LAST_DIGIT"
  BY SMT, <1>3 DEF buildRoundOptions, Choice, Offered, AllMarkets, Sent, Valued
<1>4. CASE m.type = "MODULO_THREE"
  BY SMT, <1>4 DEF buildRoundOptions, Choice, Offered, AllMarkets, Sent, Valued
<1>5. CASE m.type = "PATTERN_OF_DAY"
  BY SMT, <1>5 DEF buildRoundOptions, Choice, Offered, AllMarkets, Sent, Pattern
<1>6. CASE m.type = "SHAPE_COLOR"
  BY SMT, <1>6 DEF buildRoundOptions, Choice, Offered
<1>7. CASE m.type = "JACKPOT"
  BY SMT, <1>7 DEF buildRoundOptions, Choice, Offered, AllMarkets, Sent, Valued
<1>8. CASE m.type = "ENTROPY_BATTLE"
  BY SMT, <1>8 DEF buildRoundOptions, Choice, Offered, AllMarkets, Sent, Entropy
<1>9. CASE m.type = "STREAK_METER"
  BY SMT, <1>9 DEF buildRoundOptions, Choice, Offered, AllMarkets, Sent, Streak
<1>10. CASE m.type = "COMMUNITY_SEED"
  BY SMT, <1>10 DEF buildRoundOptions, Choice, Offered, AllMarkets, Sent, Community
<1> QED
  BY SMT, <1>0, <1>1, <1>2, <1>3, <1>4, <1>5, <1>6, <1>7, <1>8, <1>9, <1>10 DEF AllMarkets

\* The inputs beside an option keep the type of its selection.
LEMMA AdjustedOffered ==
  ASSUME NEW t \in AllMarkets, NEW s \in Offered(t), NEW x \in Adjusted(s)
  PROVE  x \in Offered(t)
<1>0. Typed \subseteq Int
  BY TypedIntegers
<1> USE DEF Offered, AllMarkets
<1>1. CASE t = "PICK_RANGE"
  BY SMT, <1>0, <1>1 DEF Adjusted, Ranges
<1>2. CASE t = "EVEN_ODD"
  BY SMT, <1>2 DEF Adjusted, Sent
<1>3. CASE t = "LAST_DIGIT"
  BY SMT, <1>0, <1>3 DEF Adjusted, Sent, Valued
<1>4. CASE t = "MODULO_THREE"
  BY SMT, <1>0, <1>4 DEF Adjusted, Sent, Valued
<1>5. CASE t = "PATTERN_OF_DAY"
  BY SMT, <1>5 DEF Adjusted, Sent, Pattern
<1>6. CASE t = "SHAPE_COLOR"
  BY SMT, <1>6 DEF Adjusted, Shape
<1>7. CASE t = "JACKPOT"
  BY SMT, <1>0, <1>7 DEF Adjusted, Sent, Valued
<1>8. CASE t = "ENTROPY_BATTLE"
  BY SMT, <1>8 DEF Adjusted, Sent, Entropy
<1>9. CASE t = "STREAK_METER"
  BY SMT, <1>9 DEF Adjusted, Sent
<1>10. CASE t = "COMMUNITY_SEED"
  BY SMT, <1>0, <1>10 DEF Adjusted, Sent, Community
<1> QED
  BY SMT, <1>1, <1>2, <1>3, <1>4, <1>5, <1>6, <1>7, <1>8, <1>9, <1>10

\* What the page offers, a client may send.
LEMMA OfferedSent ==
  ASSUME NEW t \in AllMarkets, NEW s \in Offered(t)
  PROVE  s \in Sent(t)
<1>1. CASE t = "PICK_RANGE"
  BY SMT, <1>1 DEF Offered, Sent
<1>2. CASE t = "SHAPE_COLOR"
  BY SMT, <1>2 DEF Offered, Sent, Shape
<1>3. CASE t \in AllMarkets \ {"PICK_RANGE", "SHAPE_COLOR"}
  <2>1. Offered(t) = Sent(t)
    BY SMT, <1>3 DEF Offered
  <2> QED
    BY <2>1
<1> QED
  BY <1>1, <1>2, <1>3

\* So is what another client asks for.
LEMMA RequestedSent ==
  ASSUME NEW t \in AllMarkets, NEW s \in Requested(t)
  PROVE  s \in Sent(t)
<1>0. Typed \subseteq Int
  BY TypedIntegers
<1>1. CASE t = "PICK_RANGE"
  BY SMT, <1>0, <1>1 DEF Requested, Sent, Ranges, Interval, Valued
<1>2. CASE t = "EVEN_ODD"
  BY SMT, <1>2 DEF Requested, Sent, Valued
<1>3. CASE t = "LAST_DIGIT"
  BY SMT, <1>0, <1>3 DEF Requested, Sent, Valued
<1>4. CASE t = "MODULO_THREE"
  BY SMT, <1>0, <1>4 DEF Requested, Sent, Valued
<1>5. CASE t = "PATTERN_OF_DAY"
  BY SMT, <1>0, <1>5 DEF Requested, Sent, Pattern
<1>6. CASE t = "SHAPE_COLOR"
  BY SMT, <1>0, <1>6 DEF Requested, Sent, Shape
<1>7. CASE t = "JACKPOT"
  BY SMT, <1>0, <1>7 DEF Requested, Sent, Valued
<1>8. CASE t = "ENTROPY_BATTLE"
  BY SMT, <1>8 DEF Requested, Sent, Entropy
<1>9. CASE t = "STREAK_METER"
  BY SMT, <1>0, <1>9 DEF Requested, Sent, Streak
<1>10. CASE t = "COMMUNITY_SEED"
  BY SMT, <1>0, <1>10 DEF Requested, Sent, Community
<1> QED
  BY SMT, <1>1, <1>2, <1>3, <1>4, <1>5, <1>6, <1>7, <1>8, <1>9, <1>10 DEF AllMarkets

-----------------------------------------------------------------------------
(* What the server builds *)

\* Selections the server builds for a market of type t.
Built(t, e) ==
  /\ t = "PICK_RANGE"     => e.kind = 1 \/ (e.kind = 0 /\ 1 <= e.a /\ e.a <= e.b /\ e.b <= 100)
  /\ t = "EVEN_ODD"       => e.kind = 2 /\ e.a \in 0 .. 1
  /\ t = "LAST_DIGIT"     => e.kind = 3 /\ e.a \in 0 .. 9
  /\ t = "MODULO_THREE"   => e.kind = 4 /\ e.a \in 0 .. 2
  /\ t = "PATTERN_OF_DAY" => e.kind = 5 /\ e.a \in 0 .. 6
  /\ t = "SHAPE_COLOR"    => e.kind = 6
  /\ t # "JACKPOT"
  /\ t = "ENTROPY_BATTLE" => e.kind = 7 /\ e.a \in 0 .. 2
  /\ t = "COMMUNITY_SEED" => e.kind = 9 /\ e.a \in Byte /\ e.b = 0

\* Those among them that are of what the page sent.
BuiltForPage(t, e) ==
  /\ t = "PICK_RANGE"  => e.kind = 0
  /\ t = "SHAPE_COLOR" => /\ e.a = 255 \/ e.a \in 0 .. 3
                          /\ e.b = 255 \/ e.b \in 0 .. 5
                          /\ e.c = 255 \/ e.c \in 0 .. 2

LEMMA Remainder ==
  ASSUME NEW m \in Nat \ {0}, NEW n \in Nat, n < m
  PROVE  n % m = n
  BY SMT

\* Intervals without their literals, which the provers would list.
LEMMA UpToIs ==
  ASSUME NEW m \in Nat
  PROVE  \A n : n \in 0 .. m <=> n \in Nat /\ n <= m
  BY SMT

\* What a byte and a field hold.
LEMMA ByteIs ==
  /\ \A n \in Byte : n \in Nat /\ n <= 255
  /\ \A n \in Nat : n <= 255 => n \in Byte
<1>1. PICK m \in Nat : m = 255
  OBVIOUS
<1>2. Byte = 0 .. m
  BY SMT, <1>1 DEF Byte
<1>3. /\ \A n \in Byte : n \in Nat /\ n <= m
      /\ \A n \in Nat : n <= m => n \in Byte
  BY Zenon, <1>2, UpToIs
<1> QED
  BY SMT, <1>1, <1>3

LEMMA U16Is ==
  /\ \A n \in U16 : n \in Nat /\ n <= 65535
  /\ \A n \in Nat : n <= 65535 => n \in U16
<1>1. PICK m \in Nat : m = 65535
  OBVIOUS
<1>2. U16 = 0 .. m
  BY SMT, <1>1 DEF U16
<1>3. /\ \A n \in U16 : n \in Nat /\ n <= m
      /\ \A n \in Nat : n <= m => n \in U16
  BY Zenon, <1>2, UpToIs
<1> QED
  BY SMT, <1>1, <1>3

LEMMA FieldBound ==
  ASSUME NEW n \in U16
  PROVE  n \in Nat /\ n < 65536
  BY SMT, U16Is

LEMMA FieldHolds ==
  ASSUME NEW n \in Nat, n < 65536
  PROVE  n \in U16
  BY SMT, U16Is

LEMMA Wide == 65536 \in Nat \ {0}
  BY SMT

\* The masks of the instruction leave what fits an account as it is.
LEMMA Unchanged ==
  ASSUME NEW kind \in Byte, NEW a \in U16, NEW b \in U16, NEW c \in U16
  PROVE  /\ placeBetData(Encoded(kind, a, b, c)) = Encoded(kind, a, b, c)
         /\ Encoded(kind, a, b, c) \in Account
<1>1. kind % 256 = kind
  BY SMT, Remainder DEF Byte
<1>2. \A n \in U16 : n % 65536 = n
  BY SMT, FieldBound, Wide, Remainder
<1>3. placeBetData(Encoded(kind, a, b, c)) = Encoded(kind % 256, a % 65536, b % 65536, c % 65536)
  BY SMT DEF placeBetData, Encoded
<1>4. Encoded(kind, a, b, c) \in Account
  BY Zenon DEF Encoded, Account
<1> QED
  BY <1>1, <1>2, <1>3, <1>4

\* Numbers the server compares with a bound of a byte fit a field.
LEMMA ByteType ==
  ASSUME NEW n \in Byte
  PROVE  n \in U16
<1>1. n \in Nat /\ n < 65536
  BY SMT DEF Byte
<1> QED
  BY <1>1, FieldHolds

LEMMA Kinds ==
  /\ 0 \in Byte /\ 1 \in Byte /\ 2 \in Byte /\ 3 \in Byte /\ 4 \in Byte
  /\ 5 \in Byte /\ 6 \in Byte /\ 7 \in Byte /\ 8 \in Byte /\ 9 \in Byte
  BY SMT DEF Byte

\* So does a small one.
LEMMA FieldEncodes ==
  ASSUME NEW kind \in Byte, NEW a \in Byte, NEW b \in Byte, NEW c \in Byte
  PROVE  /\ placeBetData(Encoded(kind, a, b, c)) = Encoded(kind, a, b, c)
         /\ Encoded(kind, a, b, c) \in Account
<1>1. a \in U16 /\ b \in U16 /\ c \in U16
  BY ByteType
<1> QED
  BY <1>1, Unchanged

LEMMA WideEncodes ==
  ASSUME NEW kind \in Byte, NEW a \in U16
  PROVE  /\ placeBetData(Encoded(kind, a, 0, 0)) = Encoded(kind, a, 0, 0)
         /\ Encoded(kind, a, 0, 0) \in Account
<1>1. 0 \in U16
  BY Kinds, ByteType
<1> QED
  BY <1>1, Unchanged

\* Whatever is masked fits.
LEMMA Masked ==
  ASSUME NEW n \in Int
  PROVE  n % 65536 \in U16
<1>1. n % 65536 \in Nat /\ n % 65536 < 65536
  BY SMT
<1> QED
  BY <1>1, FieldHolds

\* A selection encoded in small numbers reaches the chain as it is.
LEMMA ReachesChain ==
  ASSUME NEW t, NEW s, NEW kind \in Byte, NEW a \in Byte, NEW b \in Byte, NEW c \in Byte,
         encodeSelection(t, s) = Encoded(kind, a, b, c)
  PROVE  OnChain(t, s) = Encoded(kind, a, b, c) /\ OnChain(t, s) \in Account
  BY FieldEncodes DEF OnChain

\* What the server lets through is built, decodes to what it was, unless the
\* server did not look at it, and keeps within what the page offers.
Encodes(t, s) ==
  /\ OnChain(t, s) \in Account
  /\ Built(t, OnChain(t, s))
  /\ ~(t = "PICK_RANGE" /\ s.type = "other") => decodeSelection(t, OnChain(t, s)) = s
  /\ s \in Offered(t) => BuiltForPage(t, OnChain(t, s))
  /\ t = "PATTERN_OF_DAY" => OnChain(t, s).a = s.patternId

LEMMA RangeEncodes ==
  ASSUME NEW s \in Valid("PICK_RANGE")
  PROVE  Encodes("PICK_RANGE", s)
<1>1. CASE s \in Ranges
  <2>1. /\ s.min \in 1 .. 100 /\ s.max \in 1 .. 100 /\ s.min <= s.max
        /\ encodeSelection("PICK_RANGE", s) = Encoded(0, s.min, s.max, 0)
    BY SMT, <1>1 DEF Valid, Ranges, validateSelection, encodeSelection
  <2>2. s.min \in Byte /\ s.max \in Byte
    BY SMT, <2>1 DEF Byte
  <2>3. OnChain("PICK_RANGE", s) = Encoded(0, s.min, s.max, 0) /\ OnChain("PICK_RANGE", s) \in Account
    BY SMTT(30), <2>1, <2>2, ReachesChain, Kinds
  <2> QED
    BY SMT, <1>1, <2>1, <2>3 DEF Encodes, Built, BuiltForPage, Encoded, decodeSelection, Interval, Ranges
<1>2. CASE s \notin Ranges
  <2>1. /\ s \in [type : {"single", "other"}, value : Int]
        /\ encodeSelection("PICK_RANGE", s) = Encoded(1, s.value, 0, 0)
        /\ s.type = "single" => s.value \in 1 .. 100
    BY SMT, <1>2 DEF Valid, Sent, validateSelection, encodeSelection
  <2>2. PICK n : n = s.value % 65536
    OBVIOUS
  <2>3. n \in U16
    BY <2>1, <2>2, Masked
  <2>4. s.type = "single" => n = s.value
    BY SMTT(60), <2>1, <2>2, Remainder
  <2>5. OnChain("PICK_RANGE", s) = Encoded(1, n, 0, 0)
    <3>1. 1 % 256 = 1 /\ 0 % 65536 = 0
      BY SMT
    <3> QED
      BY SMT, <2>1, <2>2, <3>1 DEF OnChain, placeBetData, Encoded
  <2>6. OnChain("PICK_RANGE", s) \in Account
    BY <2>3, <2>5, WideEncodes, Kinds
  <2>7. s \notin Offered("PICK_RANGE")
    BY SMT, <1>2 DEF Offered
  <2>8. OnChain("PICK_RANGE", s).kind = 1 /\ OnChain("PICK_RANGE", s).a = n
    BY SMT, <2>5 DEF Encoded
  <2>9. s.type = "single" => decodeSelection("PICK_RANGE", OnChain("PICK_RANGE", s)) = s
    <3>1. decodeSelection("PICK_RANGE", OnChain("PICK_RANGE", s)) = Valued("single", n)
      BY SMT, <2>8 DEF decodeSelection
    <3> QED
      BY SMT, <2>1, <2>4, <3>1 DEF Valued
  <2>10. s.type = "single" \/ s.type = "other"
    BY SMT, <2>1
  <2> QED
    <3>1. \A e : e.kind = 1 => Built("PICK_RANGE", e)
      BY SMT DEF Built
    <3> QED
      BY Zenon, <2>6, <2>7, <2>8, <2>9, <2>10, <3>1 DEF Encodes
<1> QED
  BY <1>1, <1>2

LEMMA ServerEncodes ==
  ASSUME NEW t \in AllMarkets, NEW s \in Valid(t)
  PROVE  Encodes(t, s)
<1>1. CASE t = "PICK_RANGE"
  BY <1>1, RangeEncodes
<1>2. CASE t = "EVEN_ODD"
  <2>1. PICK n \in 0 .. 1 :
          /\ n = IF s.value = "even" THEN 0 ELSE 1
          /\ encodeSelection(t, s) = Encoded(2, n, 0, 0)
    BY SMT, <1>2 DEF encodeSelection
  <2>2. n \in Byte
    BY SMT, <2>1 DEF Byte
  <2>3. OnChain(t, s) = Encoded(2, n, 0, 0) /\ OnChain(t, s) \in Account
    BY <2>1, <2>2, ReachesChain, Kinds
  <2>4. s = Valued("parity", IF n = 0 THEN "even" ELSE "odd")
    BY SMT, <1>2, <2>1 DEF Valid, Sent, validateSelection, Valued
  <2> QED
    BY SMT, <1>2, <2>1, <2>3, <2>4 DEF Encodes, Built, BuiltForPage, Encoded, decodeSelection
<1>3. CASE t = "LAST_DIGIT"
  <2>1. /\ s.value \in 0 .. 9 /\ s = Valued("digit", s.value)
        /\ encodeSelection(t, s) = Encoded(3, s.value, 0, 0)
    BY SMT, <1>3 DEF Valid, Sent, validateSelection, UpTo, encodeSelection, Valued
  <2>2. s.value \in Byte
    BY SMT, <2>1 DEF Byte
  <2>3. OnChain(t, s) = Encoded(3, s.value, 0, 0) /\ OnChain(t, s) \in Account
    BY <2>1, <2>2, ReachesChain, Kinds
  <2> QED
    BY SMT, <1>3, <2>1, <2>3 DEF Encodes, Built, BuiltForPage, Encoded, decodeSelection
<1>4. CASE t = "MODULO_THREE"
  <2>1. /\ s.value \in 0 .. 2 /\ s = Valued("modulo", s.value)
        /\ encodeSelection(t, s) = Encoded(4, s.value, 0, 0)
    BY SMT, <1>4 DEF Valid, Sent, validateSelection, UpTo, encodeSelection, Valued
  <2>2. s.value \in Byte
    BY SMT, <2>1 DEF Byte
  <2>3. OnChain(t, s) = Encoded(4, s.value, 0, 0) /\ OnChain(t, s) \in Account
    BY <2>1, <2>2, ReachesChain, Kinds
  <2> QED
    BY SMT, <1>4, <2>1, <2>3 DEF Encodes, Built, BuiltForPage, Encoded, decodeSelection
<1>5. CASE t = "PATTERN_OF_DAY"
  <2>1. /\ s.patternId \in 0 .. 6 /\ s = Pattern(s.patternId)
        /\ encodeSelection(t, s) = Encoded(5, s.patternId, 0, 0)
    BY SMT, <1>5 DEF Valid, Sent, validateSelection, UpTo, encodeSelection, Pattern
  <2>2. s.patternId \in Byte
    BY SMT, <2>1 DEF Byte
  <2>3. OnChain(t, s) = Encoded(5, s.patternId, 0, 0) /\ OnChain(t, s) \in Account
    BY <2>1, <2>2, ReachesChain, Kinds
  <2> QED
    BY SMT, <1>5, <2>1, <2>3 DEF Encodes, Built, BuiltForPage, Encoded, decodeSelection
<1>6. CASE t = "SHAPE_COLOR"
  <2>1. /\ s.shape \in Byte /\ s.color \in Byte /\ s.size \in Byte
        /\ s = Shape(s.shape, s.color, s.size)
        /\ encodeSelection(t, s) = Encoded(6, s.shape, s.color, s.size)
    BY SMT, <1>6 DEF Byte, Valid, Sent, validateSelection, UpTo, encodeSelection, Shape
  <2>3. OnChain(t, s) = Encoded(6, s.shape, s.color, s.size) /\ OnChain(t, s) \in Account
    BY SMTT(30), <2>1, ReachesChain, Kinds
  <2>4. s \in Offered(t) => /\ s.shape = 255 \/ s.shape \in 0 .. 3
                            /\ s.color \in 0 .. 5
                            /\ s.size = 255 \/ s.size \in 0 .. 2
    BY SMT, <1>6 DEF Offered, Shape
  <2> QED
    BY SMT, <1>6, <2>1, <2>3, <2>4 DEF Encodes, Built, BuiltForPage, Encoded, decodeSelection
<1>7. CASE t = "ENTROPY_BATTLE"
  <2>1. PICK n \in 0 .. 2 :
          /\ n = parseEntropySource[s.source]
          /\ encodeSelection(t, s) = Encoded(7, n, 0, 0)
          /\ s = Entropy(IF n = 1 THEN "chain" ELSE IF n = 2 THEN "sensor" ELSE "tee")
    BY SMT, <1>7 DEF Valid, Sent, Sources, validateSelection, parseEntropySource, encodeSelection, Entropy
  <2>2. n \in Byte
    BY SMT, <2>1, ByteIs
  <2>3. OnChain(t, s) = Encoded(7, n, 0, 0) /\ OnChain(t, s) \in Account
    BY <2>1, <2>2, ReachesChain, Kinds
  <2> QED
    BY SMT, <1>7, <2>1, <2>3 DEF Encodes, Built, BuiltForPage, Encoded, decodeSelection
<1>8. CASE t = "STREAK_METER"
  <2>0. MaxStreak \in Nat /\ MaxStreak < 65536
    BY StreaksBounded, FieldBound
  <2>1. /\ s.target \in Nat /\ s.target < 65536 /\ s = Streak(s.target)
        /\ encodeSelection(t, s) = Encoded(8, s.target, 0, 0)
    BY SMT, <1>8, <2>0 DEF Valid, Sent, validateSelection, encodeSelection, Streak
  <2>2. s.target \in U16
    BY <2>1, FieldHolds
  <2>3. OnChain(t, s) = Encoded(8, s.target, 0, 0) /\ OnChain(t, s) \in Account
    BY <2>1, <2>2, WideEncodes, Kinds DEF OnChain
  <2> QED
    BY SMT, <1>8, <2>1, <2>3 DEF Encodes, Built, BuiltForPage, Encoded, decodeSelection
<1>9. CASE t = "COMMUNITY_SEED"
  <2>1. /\ s.byte \in Byte /\ s = Community(s.byte)
        /\ encodeSelection(t, s) = Encoded(9, s.byte, 0, 0)
    BY SMT, <1>9 DEF Byte, Valid, Sent, validateSelection, UpTo, encodeSelection, Community
  <2>3. OnChain(t, s) = Encoded(9, s.byte, 0, 0) /\ OnChain(t, s) \in Account
    BY <2>1, ReachesChain, Kinds
  <2> QED
    BY SMT, <1>9, <2>1, <2>3 DEF Encodes, Built, BuiltForPage, Encoded, decodeSelection
<1>10. t # "JACKPOT"
  <2>1. ~validateSelection("JACKPOT", s)
    BY SMT DEF validateSelection
  <2> QED
    BY <2>1, Zenon DEF Valid
<1> QED
  BY SMT, <1>1, <1>2, <1>3, <1>4, <1>5, <1>6, <1>7, <1>8, <1>9, <1>10 DEF AllMarkets

-----------------------------------------------------------------------------
(* Odds *)

\* The quotient of an integer division.
LEMMA Quotient ==
  ASSUME NEW a \in Nat, NEW b \in Nat \ {0}
  PROVE  /\ a \div b \in Nat
         /\ b * (a \div b) <= a
         /\ a < b * ((a \div b) + 1)
  BY SMT

LEMMA Times ==
  ASSUME NEW x \in Nat, NEW y \in Nat
  PROVE  x * y \in Nat
  BY SMT

LEMMA TimesMonotone ==
  ASSUME NEW x \in Nat, NEW y \in Nat, NEW z \in Nat, x <= y
  PROVE  x * z <= y * z
  BY SMT

\* What bounds a quotient.
LEMMA QuotientBound ==
  ASSUME NEW a \in Nat, NEW b \in Nat \ {0}, NEW k \in Nat, a <= k * b
  PROVE  a \div b \in 0 .. k
<1> DEFINE q == a \div b
<1>1. q \in Nat /\ b * q <= a
  BY SMT, Quotient
<1> HIDE DEF q
<1>2. ASSUME k + 1 <= q
      PROVE  FALSE
  <2>1. (k + 1) * b <= q * b
    BY SMT, <1>1, <1>2, TimesMonotone
  <2>2. (k + 1) * b = k * b + b /\ q * b = b * q
    BY SMT, <1>1
  <2>3. k * b \in Nat /\ b * q \in Nat
    BY SMT, <1>1, Times
  <2> QED
    BY SMT, <1>1, <2>1, <2>2, <2>3
<1> QED
  BY SMT, <1>1, <1>2 DEF q

\* Chances no smaller than one of 256.
Ratio(num, den) == num \in Nat \ {0} /\ den \in 1 .. 1000 /\ den <= 256 * num

\* The odds of such a chance fit 16 bits.
LEMMA OddsType ==
  ASSUME NEW num, NEW den, Ratio(num, den), NEW edge \in Edges
  PROVE  Odds(num, den, edge) \in U16
<1>0. num \in Nat /\ 1 <= num /\ den \in 1 .. 1000 /\ den <= 256 * num /\ edge \in 0 .. 10000
  BY SMTT(30), EdgesBounded DEF Ratio
<1> DEFINE a == den * 1000000
           e == 10000 + edge
           b == num * e
           q == a \div b
<1>1. /\ a \in Nat /\ a <= 256000000 * num
      /\ e \in Nat /\ 10000 <= e
  BY SMT, <1>0
<1>2. b \in Nat /\ num * 10000 <= b
  <2> HIDE DEF e
  <2>1. num \in Nat /\ 10000 \in Nat
    BY SMT, <1>0
  <2>2. num * e \in Nat
    BY SMT, <1>1, <2>1, Times
  <2>3. 10000 * num <= e * num
    BY SMT, <1>1, <2>1, TimesMonotone
  <2>4. e * num = num * e /\ 10000 * num = num * 10000
    BY SMT, <1>1, <2>1
  <2> QED
    BY SMT, <2>2, <2>3, <2>4
<1>3. b \in Nat \ {0} /\ a <= 25600 * b
  <2> HIDE DEF a, e, b
  <2>1. num * 10000 \in Nat /\ 10000 <= num * 10000
    BY SMT, <1>0
  <2>2. 256000000 * num = 25600 * (num * 10000)
    BY SMTT(30), <1>0
  <2>3. b \in Nat \ {0}
    BY SMTT(30), <1>2, <2>1
  <2> QED
    BY SMT, <1>1, <1>2, <2>1, <2>2, <2>3
<1>4. q \in Nat /\ q <= 25600
  <2> HIDE DEF a, e, b
  <2>1. PICK k \in Nat : k = 25600
    BY SMT
  <2>2. a \in Nat /\ b \in Nat \ {0} /\ k \in Nat /\ a <= k * b
    BY SMT, <1>1, <1>3, <2>1
  <2>3. q \in 0 .. k
    BY SMT, <2>2, QuotientBound
  <2> HIDE DEF q
  <2> QED
    BY SMTT(30), <2>1, <2>3, UpToIs
<1>5. Odds(num, den, edge) = q
  BY SMT DEF Odds
<1> HIDE DEF q
<1>6. q \in U16
  BY SMT, <1>4, U16Is
<1> QED
  BY <1>5, <1>6, Zenon

\* The tables of the patterns and of the community's tolerances.
LEMMA Tables ==
  /\ PatternCounts[0] = 168 /\ PatternCounts[1] = 10 /\ PatternCounts[2] = 29
  /\ PatternCounts[3] = 52 /\ PatternCounts[4] = 73 /\ PatternCounts[5] = 437
  /\ PatternCounts[6] = 231
  /\ Within[0] = 1
  BY SMT DEF PatternCounts, Within

LEMMA PatternCountsType ==
  ASSUME NEW p \in 0 .. 6
  PROVE  PatternCounts[p] \in 10 .. 437
<1>1. p = 0 \/ p = 1 \/ p = 2 \/ p = 3 \/ p = 4 \/ p = 5 \/ p = 6
  BY SMT
<1> QED
  BY SMT, <1>1, Tables

LEMMA WithinType ==
  ASSUME NEW d \in 0 .. 8
  PROVE  Within[d] \in 1 .. 256
<1>1. d = 0 \/ d = 1 \/ d = 2 \/ d = 3 \/ d = 4 \/ d = 5 \/ d = 6 \/ d = 7 \/ d = 8
  BY SMT
<1> QED
  BY SMTT(30), <1>1 DEF Within

-----------------------------------------------------------------------------
(* One ratio, the chances of a selection, behind the four programs' odds *)

\* The pattern and the tolerance a selection is priced for.
PricedPattern(e) == IF e.a < 7 THEN e.a ELSE 6
PricedTolerance(e) == IF e.b % 256 < 8 THEN e.b % 256 ELSE 8

\* A selection of a market of type t is priced at Num chances of Den: one of
\* PICK_RANGE that is neither a range nor a number at half of them.
Num(t, e) ==
  CASE t = "PICK_RANGE"     -> IF e.kind = 0 THEN e.b - e.a + 1
                               ELSE IF e.kind = 1 THEN 1 ELSE 50
    [] t = "SHAPE_COLOR"    -> Matched(e)
    [] t = "PATTERN_OF_DAY" -> PatternCounts[PricedPattern(e)]
    [] t = "COMMUNITY_SEED" -> Within[PricedTolerance(e)]
    [] OTHER                -> 1

Den(t) ==
  CASE t \in {"PICK_RANGE", "JACKPOT"}         -> 100
    [] t \in {"MODULO_THREE", "ENTROPY_BATTLE"} -> 3
    [] t = "LAST_DIGIT"                         -> 10
    [] t = "SHAPE_COLOR"                        -> 72
    [] t = "PATTERN_OF_DAY"                     -> 1000
    [] t = "COMMUNITY_SEED"                     -> 256
    [] OTHER                                    -> 2

\* A selection the chain takes and gives odds of more than 0.
Priced(t, e) == WidthFits(t, e) /\ ~Inverted(t, e)

\* The ratios are of numbers the odds' arithmetic was bounded for.
LEMMA RatioType ==
  ASSUME NEW t \in AllMarkets, NEW e \in Account, Priced(t, e)
  PROVE  Ratio(Num(t, e), Den(t))
<1>0. e.kind \in Nat /\ e.a \in Nat /\ e.b \in Nat /\ e.c \in Nat
  <2>1. e.kind \in Byte /\ e.a \in U16 /\ e.b \in U16 /\ e.c \in U16
    BY Zenon DEF Account
  <2>2. e.kind \in Nat
    BY SMT, <2>1 DEF Byte
  <2> QED
    BY <2>1, <2>2, FieldBound
<1> USE DEF Ratio
<1>1. CASE t = "PICK_RANGE"
  BY SMT, <1>0, <1>1 DEF Priced, Inverted, Num, Den
<1>2. CASE t = "PATTERN_OF_DAY"
  <2>1. PricedPattern(e) \in 0 .. 6
    BY SMT, <1>0 DEF PricedPattern
  <2>2. Num(t, e) = PatternCounts[PricedPattern(e)] /\ Den(t) = 1000
    BY SMT, <1>2 DEF Num, Den
  <2>3. Num(t, e) \in 10 .. 437
    BY SMT, <2>1, <2>2, PatternCountsType
  <2> QED
    BY SMT, <2>2, <2>3
<1>3. CASE t = "SHAPE_COLOR"
  BY SMT, <1>3 DEF Num, Den, Matched
<1>4. CASE t = "COMMUNITY_SEED"
  <2>1. PricedTolerance(e) \in 0 .. 8
    BY SMT, <1>0 DEF PricedTolerance
  <2>2. Num(t, e) = Within[PricedTolerance(e)] /\ Den(t) = 256
    BY SMT, <1>4 DEF Num, Den
  <2>3. Num(t, e) \in 1 .. 256
    BY SMT, <2>1, <2>2, WithinType
  <2> QED
    BY SMT, <2>2, <2>3
<1>5. CASE t \in AllMarkets \ {"PICK_RANGE", "PATTERN_OF_DAY", "SHAPE_COLOR", "COMMUNITY_SEED"}
  <2>1. Num(t, e) = 1
    BY SMT, <1>5 DEF Num, AllMarkets
  <2>2. Den(t) \in {2, 3, 10, 100}
    BY SMT, <1>5 DEF Den, AllMarkets
  <2> QED
    BY SMT, <2>1, <2>2
<1> QED
  BY SMT, <1>1, <1>2, <1>3, <1>4, <1>5

\* A quotient is the one number its bounds leave.
LEMMA QuotientIs ==
  ASSUME NEW a \in Nat, NEW b \in Nat \ {0}, NEW q \in Nat, b * q <= a, a < b * (q + 1)
  PROVE  a \div b = q
<1> DEFINE p == a \div b
<1>1. p \in Nat /\ b * p <= a /\ a < b * (p + 1)
  BY Quotient
<1> HIDE DEF p
<1>2. \A x, y \in Nat : x <= y => b * x <= b * y
  BY SMT, TimesMonotone
<1>3. \A x \in Nat : b * x \in Nat
  BY SMT, Times
<1>4. ASSUME p + 1 <= q
      PROVE  FALSE
  <2>1. b * (p + 1) <= b * q
    BY SMT, <1>1, <1>2, <1>4
  <2>2. b * (p + 1) \in Nat /\ b * q \in Nat
    BY SMT, <1>1, <1>3
  <2> QED
    BY SMT, <1>1, <2>1, <2>2
<1>5. ASSUME q + 1 <= p
      PROVE  FALSE
  <2>1. b * (q + 1) <= b * p
    BY SMT, <1>1, <1>2, <1>5
  <2>2. b * (q + 1) \in Nat /\ b * p \in Nat
    BY SMT, <1>1, <1>3
  <2> QED
    BY SMT, <1>1, <2>1, <2>2
<1> QED
  BY SMT, <1>1, <1>4, <1>5 DEF p

\* One of two is fifty of a hundred.
LEMMA Half ==
  ASSUME NEW edge \in Edges
  PROVE  Odds(50, 100, edge) = Odds(1, 2, edge)
<1> DEFINE e == 10000 + edge
           q == 2000000 \div e
<1>1. e \in Nat \ {0}
  <2>1. edge \in 0 .. 10000
    BY EdgesBounded
  <2> QED
    BY SMTT(30), <2>1
<1>2. q \in Nat /\ e * q <= 2000000 /\ 2000000 < e * (q + 1)
  <2> HIDE DEF e
  <2>1. 2000000 \in Nat
    BY SMT
  <2> QED
    BY <1>1, <2>1, Quotient
<1>3. Odds(50, 100, edge) = 100000000 \div (50 * e) /\ Odds(1, 2, edge) = q
  <2>1. 100 * 1000000 = 100000000 /\ 2 * 1000000 = 2000000
    BY SMT
  <2>2. 1 * e = e
    BY SMT, <1>1
  <2>3. Odds(50, 100, edge) = (100 * 1000000) \div (50 * e) /\ Odds(1, 2, edge) = (2 * 1000000) \div (1 * e)
    BY DEF Odds
  <2> HIDE DEF e
  <2> QED
    BY <2>1, <2>2, <2>3
<1> HIDE DEF e, q
<1>4. (50 * e) * q <= 100000000 /\ 100000000 < (50 * e) * (q + 1)
  <2>1. PICK u \in Nat, v \in Nat : u = e * q /\ v = e * (q + 1)
    BY <1>1, <1>2, Times
  <2>2. (50 * e) * q = 50 * u /\ (50 * e) * (q + 1) = 50 * v
    BY SMT, <1>1, <1>2, <2>1
  <2> QED
    BY SMT, <1>2, <2>1, <2>2
<1>5. 100000000 \in Nat /\ 50 * e \in Nat \ {0}
  BY SMT, <1>1
<1> QED
  BY <1>2, <1>3, <1>4, <1>5, QuotientIs

\* The chain's odds are those of the ratio.
LEMMA OddsOnChain ==
  ASSUME NEW t \in AllMarkets, NEW e \in Account, NEW edge \in Edges, Priced(t, e)
  PROVE  compute_odds_bps(t, e, edge) = Odds(Num(t, e), Den(t), edge)
<1>0. e.kind \in Nat /\ e.a \in Nat /\ e.b \in Nat
  <2>1. e.kind \in Byte /\ e.a \in U16 /\ e.b \in U16
    BY Zenon DEF Account
  <2>2. e.kind \in Nat
    BY SMT, <2>1 DEF Byte
  <2> QED
    BY <2>1, <2>2, FieldBound
<1>1. CASE t = "PICK_RANGE"
  BY SMT, <1>0, <1>1, Half DEF Priced, Inverted, Num, Den, compute_odds_bps
<1>2. CASE t = "PATTERN_OF_DAY"
  BY SMT, <1>2 DEF Num, Den, PricedPattern, compute_odds_bps, Inverted
<1>3. CASE t = "SHAPE_COLOR"
  BY SMT, <1>3 DEF Num, Den, compute_odds_bps, Inverted
<1>4. CASE t = "COMMUNITY_SEED"
  BY SMT, <1>4 DEF Num, Den, PricedTolerance, compute_odds_bps, Inverted
<1>5. CASE t \in {"EVEN_ODD", "STREAK_METER", "MODULO_THREE", "ENTROPY_BATTLE", "LAST_DIGIT", "JACKPOT"}
  BY SMT, <1>5 DEF Num, Den, compute_odds_bps, Inverted
<1> QED
  BY SMT, <1>1, <1>2, <1>3, <1>4, <1>5 DEF AllMarkets

\* They fit the account, whatever was sent.
LEMMA OddsFit ==
  ASSUME NEW t \in AllMarkets, NEW e \in Account, NEW edge \in Edges, WidthFits(t, e)
  PROVE  compute_odds_bps(t, e, edge) \in U16
<1>1. CASE Inverted(t, e)
  <2>0. e.a \in Nat /\ e.b \in Nat
    <3>1. e.a \in U16 /\ e.b \in U16
      BY Zenon DEF Account
    <3> QED
      BY <3>1, FieldBound
  <2>1. compute_odds_bps(t, e, edge) = 0
    BY SMT, <1>1, <2>0 DEF Inverted, compute_odds_bps
  <2> QED
    BY <2>1, Kinds, ByteType
<1>2. CASE ~Inverted(t, e)
  <2>1. compute_odds_bps(t, e, edge) = Odds(Num(t, e), Den(t), edge)
    BY <1>2, OddsOnChain DEF Priced
  <2>2. Ratio(Num(t, e), Den(t))
    BY <1>2, RatioType DEF Priced
  <2>3. Odds(Num(t, e), Den(t), edge) \in U16
    BY <2>2, OddsType, Zenon
  <2> QED
    BY <2>1, <2>3
<1> QED
  BY <1>1, <1>2

\* What the server builds is priced.
LEMMA BuiltPriced ==
  ASSUME NEW t \in AllMarkets, NEW e \in Account, Built(t, e)
  PROVE  Priced(t, e)
<1>1. e.a \in Nat /\ e.b \in Nat
  <2>1. e.a \in U16 /\ e.b \in U16
    BY Zenon DEF Account
  <2> QED
    BY <2>1, FieldBound
<1> QED
  BY SMT, <1>1 DEF Built, Priced, WidthFits, Inverted

\* The record's odds of what it decodes are those of the ratio too, but for
\* shapes.
LEMMA OddsOnRecord ==
  ASSUME NEW t \in AllMarkets \ {"SHAPE_COLOR"}, NEW e \in Account, Built(t, e), NEW edge \in Edges
  PROVE  calculateOdds(t, decodeSelection(t, e), edge) = AtLeastOne(Odds(Num(t, e), Den(t), edge))
<1> DEFINE d == decodeSelection(t, e)
<1>0. e.a \in Nat /\ e.b \in Nat
  <2>1. e.a \in U16 /\ e.b \in U16
    BY Zenon DEF Account
  <2> QED
    BY <2>1, FieldBound
<1>1. CASE t = "PICK_RANGE" /\ e.kind = 0
  <2>1. d.type = "range" /\ d.min = e.a /\ d.max = e.b /\ e.a <= e.b
    BY SMT, <1>1 DEF decodeSelection, Interval, Built
  <2> HIDE DEF d
  <2>2. calculateOdds(t, d, edge) = AtLeastOne(Odds(d.max - d.min + 1, 100, edge))
    BY SMT, <1>0, <1>1, <2>1 DEF calculateOdds
  <2>3. Num(t, e) = e.b - e.a + 1 /\ Den(t) = 100
    BY SMT, <1>1 DEF Num, Den
  <2> QED
    BY <2>1, <2>2, <2>3 DEF d
<1>2. CASE t = "PICK_RANGE" /\ e.kind # 0
  <2>1. d.type = "single"
    BY SMT, <1>2 DEF decodeSelection, Valued
  <2> HIDE DEF d
  <2>2. calculateOdds(t, d, edge) = AtLeastOne(Odds(1, 100, edge))
    BY SMT, <1>2, <2>1 DEF calculateOdds
  <2>3. Num(t, e) = 1 /\ Den(t) = 100
    BY SMT, <1>2 DEF Num, Den, Built
  <2> QED
    BY <2>2, <2>3 DEF d
<1>3. CASE t = "PATTERN_OF_DAY"
  <2>1. d.type = "pattern" /\ d.patternId = e.a
    BY SMT, <1>3 DEF decodeSelection, Pattern
  <2> HIDE DEF d
  <2>2. calculateOdds(t, d, edge) =
          AtLeastOne(Odds(PatternCounts[IF d.patternId < 7 THEN d.patternId ELSE 6], 1000, edge))
    BY SMT, <1>3, <2>1 DEF calculateOdds
  <2>3. Num(t, e) = PatternCounts[IF e.a < 7 THEN e.a ELSE 6] /\ Den(t) = 1000
    BY SMT, <1>3 DEF Num, Den, PricedPattern
  <2> QED
    BY <2>1, <2>2, <2>3 DEF d
<1>4. CASE t = "COMMUNITY_SEED"
  <2>1. d.type = "community"
    BY SMT, <1>4 DEF decodeSelection, Community
  <2> HIDE DEF d
  <2>2. calculateOdds(t, d, edge) = AtLeastOne(Odds(Within[0], 256, edge))
    BY SMT, <1>4, <2>1 DEF calculateOdds
  <2>3. Num(t, e) = Within[0] /\ Den(t) = 256
    BY SMT, <1>4 DEF Num, Den, PricedTolerance, Built
  <2> QED
    BY <2>2, <2>3 DEF d
<1>5. CASE t \in {"EVEN_ODD", "STREAK_METER", "MODULO_THREE", "ENTROPY_BATTLE", "LAST_DIGIT"}
  <2>1. d.type # "range"
    BY SMT, <1>5 DEF decodeSelection, Valued, Entropy, Streak
  <2> HIDE DEF d
  <2>2. calculateOdds(t, d, edge) = AtLeastOne(Odds(Num(t, e), Den(t), edge))
    BY SMT, <1>5, <2>1 DEF calculateOdds, Num, Den
  <2> QED
    BY <2>2 DEF d
<1>6. t # "JACKPOT"
  BY Zenon DEF Built
<1> QED
  BY SMT, <1>1, <1>2, <1>3, <1>4, <1>5, <1>6 DEF AllMarkets

\* The three shapes the page offers match twelve, three and one of 72.
LEMMA ShapesMatched ==
  ASSUME NEW e
  PROVE  /\ e.a = 255 /\ e.b = 0 /\ e.c = 255 => Matched(e) = 12
         /\ e.a = 0 /\ e.b = 0 /\ e.c = 255 => Matched(e) = 3
         /\ e.a = 0 /\ e.b = 0 /\ e.c = 0 => Matched(e) = 1
  BY SMT DEF Matched

\* The page's odds of an option the server lets through are those the chain
\* has of it, except for a community, offered with a tolerance, and for
\* streaks, offered at odds of their own.
LEMMA OddsOnPage ==
  ASSUME NEW m \in Market, NEW edge \in Edges, NEW o \in buildRoundOptions(m, edge),
         o.selection \in Valid(m.type), m.type \notin {"COMMUNITY_SEED", "STREAK_METER"}
  PROVE  o.odds = AtLeastOne(Odds(Num(m.type, OnChain(m.type, o.selection)), Den(m.type), edge))
<1> DEFINE t == m.type
           s == o.selection
           e == OnChain(t, s)
<1>0. t \in AllMarkets /\ s \in Offered(t)
  BY MarketType, OptionsOffered
<1>a. e \in Account /\ Built(t, e) /\ BuiltForPage(t, e)
  BY <1>0, ServerEncodes DEF Encodes
<1>b. t # "PICK_RANGE" => decodeSelection(t, e) = s
  BY <1>0, ServerEncodes DEF Encodes
<1>c. t = "PICK_RANGE" /\ s.type # "other" => decodeSelection(t, e) = s
  BY <1>0, ServerEncodes DEF Encodes
<1>d. e.a \in Nat /\ e.b \in Nat
  <2>1. e.a \in U16 /\ e.b \in U16
    BY <1>a, Zenon DEF Account
  <2> QED
    BY <2>1, FieldBound
<1> HIDE DEF e
<1>1. CASE t = "PICK_RANGE"
  <2>1. PICK x : o = Choice(x, Odds(x.max - x.min + 1, 100, edge))
    BY SMT, <1>1 DEF buildRoundOptions
  <2>2. s = x /\ o.odds = AtLeastOne(Odds(x.max - x.min + 1, 100, edge))
    BY SMT, <2>1 DEF Choice
  <2>3. s \in Ranges
    BY SMT, <1>0, <1>1 DEF Offered
  <2>4. e.kind = 0
    BY <1>1, <1>a DEF BuiltForPage
  <2>5. s = Interval(e.a, e.b)
    BY SMT, <1>1, <1>c, <2>3, <2>4 DEF Ranges, decodeSelection
  <2>6. x.min = e.a /\ x.max = e.b
    BY SMT, <2>2, <2>5 DEF Interval
  <2>7. Num(t, e) = e.b - e.a + 1 /\ Den(t) = 100
    BY SMT, <1>1, <2>4 DEF Num, Den
  <2> QED
    BY <2>2, <2>6, <2>7 DEF e
<1>2. CASE t = "PATTERN_OF_DAY"
  <2>1. PICK p \in 0 .. 6 : o = Choice(Pattern(p), Odds(PatternCounts[p], 1000, edge))
    BY SMT, <1>2 DEF buildRoundOptions
  <2>2. s = Pattern(p) /\ o.odds = AtLeastOne(Odds(PatternCounts[p], 1000, edge))
    BY SMT, <2>1 DEF Choice
  <2>3. s = Pattern(e.a)
    BY SMT, <1>2, <1>b DEF decodeSelection
  <2>4. e.a = p
    BY SMT, <2>2, <2>3 DEF Pattern
  <2>5. Num(t, e) = PatternCounts[p] /\ Den(t) = 1000
    BY SMT, <1>2, <2>4 DEF Num, Den, PricedPattern
  <2> QED
    BY <2>2, <2>5 DEF e
<1>3. CASE t = "SHAPE_COLOR"
  <2>1. s = Shape(e.a, e.b, e.c)
    BY SMT, <1>3, <1>b DEF decodeSelection
  <2>2. \/ o = Choice(Shape(255, 0, 255), Odds(12, 72, edge))
        \/ o = Choice(Shape(0, 0, 255), Odds(3, 72, edge))
        \/ o = Choice(Shape(0, 0, 0), Odds(1, 72, edge))
    BY SMT, <1>3 DEF buildRoundOptions
  <2>3. Num(t, e) = Matched(e) /\ Den(t) = 72
    BY SMT, <1>3 DEF Num, Den
  <2>4. \/ Matched(e) = 12 /\ o.odds = AtLeastOne(Odds(12, 72, edge))
        \/ Matched(e) = 3 /\ o.odds = AtLeastOne(Odds(3, 72, edge))
        \/ Matched(e) = 1 /\ o.odds = AtLeastOne(Odds(1, 72, edge))
    BY SMT, <2>1, <2>2, ShapesMatched DEF Choice, Shape
  <2> QED
    BY <2>3, <2>4 DEF e
<1>4. CASE t = "EVEN_ODD"
  BY SMT, <1>4 DEF buildRoundOptions, Choice, Num, Den
<1>5. CASE t = "LAST_DIGIT"
  BY SMT, <1>5 DEF buildRoundOptions, Choice, Num, Den
<1>6. CASE t = "MODULO_THREE"
  BY SMT, <1>6 DEF buildRoundOptions, Choice, Num, Den
<1>7. CASE t = "JACKPOT"
  BY SMT, <1>7 DEF buildRoundOptions, Choice, Num, Den
<1>8. CASE t = "ENTROPY_BATTLE"
  BY SMTT(30), <1>8 DEF buildRoundOptions, Choice, Num, Den
<1> QED
  BY SMT, <1>0, <1>1, <1>2, <1>3, <1>4, <1>5, <1>6, <1>7, <1>8 DEF AllMarkets

-----------------------------------------------------------------------------
(* Judging *)

Bits == {1, 2, 4, 8, 16, 32, 64, 128}

\* A byte differs from 0 in no bit only if it is 0.
LEMMA NoDistance ==
  ASSUME NEW x \in Byte
  PROVE  calculate_hamming_distance(x, 0) <= 0 <=> x = 0
<1> DEFINE D == {bit \in Bits : (x \div bit) % 2 # (0 \div bit) % 2}
<1>1. calculate_hamming_distance(x, 0) = Cardinality(D)
  BY DEF calculate_hamming_distance, Bits
<1>2. IsFiniteSet(D)
  <2>1. IsFiniteSet(Bits)
    <3>1. IsFiniteSet(Byte)
      <4>1. 0 \in Int /\ 255 \in Int
        BY SMT
      <4> QED
        BY ZenonT(30), <4>1, FS_Interval DEF Byte
    <3>2. Bits \subseteq Byte
      BY SMT DEF Bits, Byte
    <3> QED
      BY <3>1, <3>2, FS_Subset
  <2>2. D \subseteq Bits
    OBVIOUS
  <2> QED
    BY <2>1, <2>2, FS_Subset
<1>3. D = {} <=> x = 0
  <2>1. \A bit \in Bits : (0 \div bit) % 2 = 0
    BY SMT DEF Bits
  <2>2. x = 0 => \A bit \in Bits : (x \div bit) % 2 = 0
    BY SMT DEF Bits
  <2>3. x # 0 => \E bit \in Bits : (x \div bit) % 2 = 1
    <3> SUFFICES ASSUME x # 0, \A bit \in Bits : (x \div bit) % 2 # 1 PROVE FALSE
      OBVIOUS
    <3>1. /\ (x \div 1) % 2 # 1 /\ (x \div 2) % 2 # 1 /\ (x \div 4) % 2 # 1 /\ (x \div 8) % 2 # 1
          /\ (x \div 16) % 2 # 1 /\ (x \div 32) % 2 # 1 /\ (x \div 64) % 2 # 1 /\ (x \div 128) % 2 # 1
      BY DEF Bits
    <3> QED
      BY SMTT(30), <3>1 DEF Byte
  <2> QED
    BY <2>1, <2>2, <2>3
<1>4. Cardinality(D) \in Nat /\ (Cardinality(D) = 0 <=> D = {})
  BY <1>2, FS_CardinalityType, FS_EmptySet
<1> HIDE DEF D
<1>5. Cardinality(D) <= 0 <=> x = 0
  BY SMT, <1>3, <1>4
<1> QED
  BY <1>1, <1>5

\* On an outcome of none of the values Differs names, the worker's verdict on
\* what the server built is the chain's.
LEMMA SameVerdict ==
  ASSUME NEW t \in AllMarkets \ {"SHAPE_COLOR"}, NEW e \in Account, Built(t, e),
         NEW o \in buildOutcomeForMarket(t),
         t = "PATTERN_OF_DAY" => o.matched_value # 0,
         t = "ENTROPY_BATTLE" => o.winner = determine_entropy_winner(o)
  PROVE  checkBetWon(decodeSelection(t, e), o) <=> evaluate_winner(t, e, o)
<1> DEFINE d == decodeSelection(t, e)
<1>1. CASE t = "PICK_RANGE" /\ e.kind = 0
  <2>1. d = Interval(e.a, e.b)
    BY SMT, <1>1 DEF decodeSelection
  <2> HIDE DEF d
  <2>2. checkBetWon(d, o) <=> (o.value >= e.a /\ o.value <= e.b)
    BY SMT, <2>1 DEF checkBetWon, Interval, Contains
  <2>3. evaluate_winner(t, e, o) <=> (o.value >= e.a /\ o.value <= e.b)
    BY SMT, <1>1 DEF evaluate_winner, Numeric
  <2> QED
    BY <2>2, <2>3 DEF d
<1>2. CASE t = "PICK_RANGE" /\ e.kind # 0
  <2>1. d = Valued("single", e.a) /\ e.kind = 1
    BY SMT, <1>2 DEF decodeSelection, Built
  <2> HIDE DEF d
  <2>2. checkBetWon(d, o) <=> (o.value = e.a)
    BY SMT, <2>1 DEF checkBetWon, Valued
  <2>3. evaluate_winner(t, e, o) <=> (o.value = e.a)
    BY SMT, <1>2, <2>1 DEF evaluate_winner, Numeric
  <2> QED
    BY <2>2, <2>3 DEF d
<1>3. CASE t = "EVEN_ODD"
  <2>1. d = Valued("parity", IF e.a = 0 THEN "even" ELSE "odd") /\ e.kind = 2
    BY SMT, <1>3 DEF decodeSelection, Built
  <2> HIDE DEF d
  <2>2. checkBetWon(d, o) <=> (o.value % 2 = 0 <=> e.a = 0)
    BY SMT, <2>1 DEF checkBetWon, Valued
  <2>3. evaluate_winner(t, e, o) <=> (o.value % 2 = 0 <=> e.a = 0)
    BY SMT, <1>3, <2>1 DEF evaluate_winner, Numeric
  <2> QED
    BY <2>2, <2>3 DEF d
<1>4. CASE t = "LAST_DIGIT"
  <2>1. d = Valued("digit", e.a) /\ e.kind = 3 /\ e.a \in 0 .. 9
    BY SMT, <1>4 DEF decodeSelection, Built
  <2>2. e.a % 10 = e.a
    BY SMT, <2>1
  <2> HIDE DEF d
  <2>3. checkBetWon(d, o) <=> (o.value % 10 = e.a)
    BY SMT, <2>1 DEF checkBetWon, Valued
  <2>4. evaluate_winner(t, e, o) <=> (o.value % 10 = e.a)
    BY SMT, <1>4, <2>1, <2>2 DEF evaluate_winner, Numeric
  <2> QED
    BY <2>3, <2>4 DEF d
<1>5. CASE t = "MODULO_THREE"
  <2>1. d = Valued("modulo", e.a) /\ e.kind = 4 /\ e.a \in 0 .. 2
    BY SMT, <1>5 DEF decodeSelection, Built
  <2>2. e.a % 3 = e.a
    BY SMT, <2>1
  <2> HIDE DEF d
  <2>3. checkBetWon(d, o) <=> (o.value % 3 = e.a)
    BY SMT, <2>1 DEF checkBetWon, Valued
  <2>4. evaluate_winner(t, e, o) <=> (o.value % 3 = e.a)
    BY SMT, <1>5, <2>1, <2>2 DEF evaluate_winner, Numeric
  <2> QED
    BY <2>3, <2>4 DEF d
<1>6. CASE t = "PATTERN_OF_DAY"
  <2>1. d = Pattern(e.a) /\ e.kind = 5
    BY SMT, <1>6 DEF decodeSelection, Built
  <2>2. PICK n \in 0 .. 999 : o = [pattern_id |-> PatternOf(n), matched_value |-> n]
    BY SMT, <1>6 DEF buildOutcomeForMarket, PatternOutcomes
  <2>3. o.matched_value > 0
    BY SMT, <1>6, <2>2
  <2> HIDE DEF d
  <2>4. checkBetWon(d, o) <=> (e.a = o.pattern_id)
    BY SMT, <2>1 DEF checkBetWon, Pattern
  <2>5. evaluate_winner(t, e, o) <=> (e.a = o.pattern_id)
    BY SMT, <1>6, <2>1, <2>3 DEF evaluate_winner, Numeric
  <2> QED
    BY <2>4, <2>5 DEF d
<1>7. CASE t = "ENTROPY_BATTLE"
  <2>1. PICK x \in Sources : d = Entropy(x) /\ parseEntropySource[x] = e.a
    BY SMT, <1>7 DEF decodeSelection, Built, Sources, parseEntropySource
  <2>2. e.kind = 7
    BY <1>7 DEF Built
  <2> HIDE DEF d
  <2>3. checkBetWon(d, o) <=> (e.a = o.winner)
    <3>1. d.type = "entropy" /\ d.source = x
      BY SMT, <2>1 DEF Entropy
    <3> QED
      BY SMT, <2>1, <3>1 DEF checkBetWon
  <2>4. evaluate_winner(t, e, o) <=> (e.a = o.winner)
    BY SMT, <1>7, <2>2 DEF evaluate_winner, Numeric
  <2> QED
    BY <2>3, <2>4 DEF d
<1>8. CASE t = "COMMUNITY_SEED"
  <2>1. d = Community(e.a) /\ e.kind = 9 /\ e.a \in Byte /\ e.b = 0
    BY SMT, <1>8 DEF decodeSelection, Built
  <2>2. o.final_byte = 0
    BY SMT, <1>8 DEF buildOutcomeForMarket
  <2> HIDE DEF d
  <2>3. checkBetWon(d, o) <=> (e.a = 0)
    BY SMT, <2>1, <2>2 DEF checkBetWon, Community
  <2>4. evaluate_winner(t, e, o) <=> (calculate_hamming_distance(e.a % 256, 0) <= e.b % 256)
    BY SMT, <1>8, <2>1, <2>2 DEF evaluate_winner, Numeric
  <2>5. e.a % 256 = e.a /\ e.b % 256 = 0
    BY SMT, <2>1 DEF Byte
  <2>6. calculate_hamming_distance(e.a, 0) <= 0 <=> e.a = 0
    BY <2>1, NoDistance
  <2> QED
    BY <2>3, <2>4, <2>5, <2>6 DEF d
<1>9. t # "JACKPOT"
  BY Zenon DEF Built
<1>10. t # "STREAK_METER"
  BY SMT DEF buildOutcomeForMarket
<1> QED
  BY SMT, <1>1, <1>2, <1>3, <1>4, <1>5, <1>6, <1>7, <1>8, <1>9, <1>10 DEF AllMarkets

-----------------------------------------------------------------------------
(* What the stages of a bet hold *)

BetAccount == [selection : Account, stake : Stakes, edge : Edges, won : BOOLEAN,
               payout : Nat, odds : U16]

Before == {"new", "chosen", "refused"}
After == {"placed", "confirmed", "drawn", "undrawn", "settled"}

\* The option on view is one the page built at the edge it notes.
OptionKept ==
  option # None =>
    /\ option.edge \in Edges
    /\ \E o \in buildRoundOptions(market, option.edge) :
         option.selection = o.selection /\ option.odds = o.odds

\* What the server is asked for is a selection of the market's type, and one
\* the page may send if there is a page.
SelectionKept ==
  /\ stage = "new" => selection = None /\ option = None
  /\ stage \in {"chosen", "refused"} => selection \in Sent(market.type)
  /\ option # None => selection \in Offered(market.type)

\* An account fits, at the odds of the edge it was placed at.  If the server
\* built it, it is of a selection the server let through, as it encodes it.
AccountKept ==
  /\ stage \in Before => bet = None
  /\ stage \in After =>
       /\ bet \in BetAccount
       /\ WidthFits(market.type, bet.selection)
       /\ bet.odds = compute_odds_bps(market.type, bet.selection, bet.edge)
       /\ selection # None \/ option # None =>
            /\ selection \in Valid(market.type)
            /\ bet.selection = OnChain(market.type, selection)

\* The record is of the selection the account decodes to, at the odds of the
\* edge it was made at.
RecordKept ==
  LET s == decodeSelection(market.type, bet.selection) IN
  /\ stage \in {"confirmed", "drawn", "undrawn"} =>
       \E edge \in Edges :
         doc = [selection |-> s, stake |-> bet.stake, edge |-> edge, won |-> FALSE, payout |-> 0,
                odds |-> calculateOdds(market.type, s, edge)]
  /\ stage = "settled" =>
       /\ doc.edge \in Edges
       /\ doc.odds = calculateOdds(market.type, s, doc.edge)

\* A settled bet was judged on the outcome by the chain and, in the record,
\* by the worker.
VerdictKept ==
  stage = "settled" =>
    /\ bet.won = evaluate_winner(market.type, bet.selection, outcome)
    /\ bet.payout = Payout(bet.won, bet.stake, bet.odds)
    /\ doc.won = checkBetWon(decodeSelection(market.type, bet.selection), outcome)
    /\ doc.payout = IF doc.won THEN bet.stake * doc.odds ELSE 0

RulesInv == TypeOK /\ OptionKept /\ SelectionKept /\ AccountKept /\ RecordKept /\ VerdictKept

LEMMA TypeFacts ==
  ASSUME TypeOK
  PROVE  /\ market \in Market /\ market.type \in AllMarkets
         /\ chainEdge \in Edges /\ configEdge \in Edges
<1>1. market \in Market
  BY SMT DEF TypeOK, Market
<1>2. market.type \in AllMarkets
  BY SMT, <1>1, MarketType
<1>3. chainEdge \in Edges /\ configEdge \in Edges
  BY SMT DEF TypeOK
<1> QED
  BY <1>1, <1>2, <1>3

LEMMA InitKept == Init => RulesInv
<1> SUFFICES ASSUME Init PROVE RulesInv
  OBVIOUS
<1>1. stage = "new" /\ bet = None /\ option = None /\ selection = None
  BY DEF Init
<1>2. TypeOK
  <2>1. market \in [type : Markets, partitions : Partitions \cup {4}]
    BY SMT DEF Init
  <2>2. {chainEdge, configEdge} \subseteq Edges
    BY SMT DEF Init
  <2>3. changes \in 0 .. MaxChanges
    <3>1. MaxChanges \in Nat
      BY RulesAssumption
    <3> QED
      BY SMT, <3>1 DEF Init
  <2> QED
    BY SMT, <1>1, <2>1, <2>2, <2>3 DEF TypeOK
<1>3. OptionKept /\ SelectionKept
  BY SMT, <1>1 DEF OptionKept, SelectionKept
<1>4. AccountKept /\ RecordKept /\ VerdictKept
  BY SMT, <1>1 DEF After, AccountKept, RecordKept, VerdictKept
<1> QED
  BY <1>2, <1>3, <1>4 DEF RulesInv

LEMMA ChooseKeeps ==
  ASSUME RulesInv, Choose
  PROVE  RulesInv'
<1>1. /\ stage = "new" /\ stage' = "chosen" /\ market' = market
      /\ chainEdge' = chainEdge /\ configEdge' = configEdge /\ changes' = changes
      /\ bet' = bet /\ bet = None
  BY DEF Choose, house, RulesInv, AccountKept, Before
<1>2. TypeOK /\ market \in Market /\ market.type \in AllMarkets /\ configEdge \in Edges
  BY TypeFacts DEF RulesInv
<1>3. TypeOK'
  BY SMT, <1>1, <1>2 DEF TypeOK
<1>4. PICK o \in buildRoundOptions(market, configEdge) :
        /\ option' = [selection |-> o.selection, odds |-> o.odds, edge |-> configEdge]
        /\ selection' = o.selection
  BY DEF Choose
<1>5. OptionKept'
  <2>1. /\ option'.edge = configEdge /\ option'.selection = o.selection
        /\ option'.odds = o.odds
    BY SMT, <1>4
  <2> QED
    BY <1>1, <1>2, <1>4, <2>1, Zenon DEF OptionKept
<1>6. SelectionKept'
  <2>1. o.selection \in Offered(market.type)
    BY <1>2, OptionsOffered
  <2>2. o.selection \in Sent(market.type)
    BY <1>2, <2>1, OfferedSent
  <2> QED
    BY <1>1, <1>4, <2>1, <2>2 DEF SelectionKept
<1>7. AccountKept' /\ RecordKept' /\ VerdictKept'
  BY SMT, <1>1 DEF After, AccountKept, RecordKept, VerdictKept
<1> QED
  BY <1>3, <1>5, <1>6, <1>7 DEF RulesInv

LEMMA RequestKeeps ==
  ASSUME RulesInv, Request
  PROVE  RulesInv'
<1>1. /\ stage = "new" /\ stage' = "chosen" /\ market' = market
      /\ chainEdge' = chainEdge /\ configEdge' = configEdge /\ changes' = changes
      /\ option' = option /\ bet' = bet /\ bet = None
  BY DEF Request, house, RulesInv, AccountKept, Before
<1>2. TypeOK /\ OptionKept /\ SelectionKept /\ market.type \in AllMarkets
  BY TypeFacts DEF RulesInv
<1>3. TypeOK'
  BY SMT, <1>1, <1>2 DEF TypeOK
<1>4. OptionKept'
  BY <1>1, <1>2, Zenon DEF OptionKept
<1>5. SelectionKept'
  <2>1. selection' \in Requested(market.type)
    BY DEF Request
  <2>2. selection' \in Sent(market.type)
    BY <1>2, <2>1, RequestedSent
  <2> QED
    BY <1>1, <1>2, <2>2 DEF SelectionKept
<1>6. AccountKept' /\ RecordKept' /\ VerdictKept'
  BY SMT, <1>1 DEF After, AccountKept, RecordKept, VerdictKept
<1> QED
  BY <1>3, <1>4, <1>5, <1>6 DEF RulesInv

LEMMA AdjustKeeps ==
  ASSUME RulesInv, Adjust
  PROVE  RulesInv'
<1>1. /\ stage = "chosen" /\ stage' = stage /\ market' = market
      /\ chainEdge' = chainEdge /\ configEdge' = configEdge /\ changes' = changes
      /\ option' = option /\ option # None /\ bet' = bet /\ bet = None
  BY DEF Adjust, house, RulesInv, AccountKept, Before
<1>2. TypeOK /\ OptionKept /\ SelectionKept /\ market.type \in AllMarkets
  BY TypeFacts DEF RulesInv
<1>3. TypeOK'
  BY SMT, <1>1, <1>2 DEF TypeOK
<1>4. OptionKept'
  BY <1>1, <1>2, Zenon DEF OptionKept
<1>5. SelectionKept'
  <2>1. selection \in Offered(market.type) /\ selection' \in Adjusted(selection)
    BY <1>1, <1>2 DEF Adjust, SelectionKept
  <2>2. selection' \in Offered(market.type)
    BY <1>2, <2>1, AdjustedOffered
  <2>3. selection' \in Sent(market.type)
    BY <1>2, <2>2, OfferedSent
  <2> QED
    BY <1>1, <2>2, <2>3 DEF SelectionKept
<1>6. AccountKept' /\ RecordKept' /\ VerdictKept'
  BY SMT, <1>1 DEF After, AccountKept, RecordKept, VerdictKept
<1> QED
  BY <1>3, <1>4, <1>5, <1>6 DEF RulesInv

LEMMA RefuseKeeps ==
  ASSUME RulesInv, Refuse
  PROVE  RulesInv'
<1>1. /\ stage = "chosen" /\ stage' = "refused" /\ market' = market
      /\ chainEdge' = chainEdge /\ configEdge' = configEdge /\ changes' = changes
      /\ option' = option /\ selection' = selection /\ bet' = bet /\ bet = None
  BY DEF Refuse, house, RulesInv, AccountKept, Before
<1>2. TypeOK /\ OptionKept /\ SelectionKept
  BY DEF RulesInv
<1>3. TypeOK'
  BY SMT, <1>1, <1>2 DEF TypeOK
<1>4. OptionKept'
  BY <1>1, <1>2, Zenon DEF OptionKept
<1>5. SelectionKept'
  BY <1>1, <1>2 DEF SelectionKept
<1>6. AccountKept' /\ RecordKept' /\ VerdictKept'
  BY SMT, <1>1 DEF After, AccountKept, RecordKept, VerdictKept
<1> QED
  BY <1>3, <1>4, <1>5, <1>6 DEF RulesInv

\* Whoever sent it, the chain makes an account of a selection that fits; what
\* the server built must be what it let through.
LEMMA place_betKeeps ==
  ASSUME RulesInv, NEW e \in Account, NEW stake \in Stakes, place_bet(e, stake),
         stage \in Before,
         selection # None \/ option # None =>
           selection \in Valid(market.type) /\ e = OnChain(market.type, selection)
  PROVE  RulesInv'
<1>1. /\ stage' = "placed" /\ market' = market
      /\ chainEdge' = chainEdge /\ configEdge' = configEdge /\ changes' = changes
      /\ option' = option /\ selection' = selection
  BY DEF place_bet, house
<1>2. /\ TypeOK /\ OptionKept /\ SelectionKept
      /\ market.type \in AllMarkets /\ chainEdge \in Edges
  BY TypeFacts DEF RulesInv
<1>3. PICK odds : odds = compute_odds_bps(market.type, e, chainEdge)
  OBVIOUS
<1>4. WidthFits(market.type, e)
  BY DEF place_bet
<1>5. bet' = [selection |-> e, stake |-> stake, edge |-> chainEdge, won |-> FALSE,
              payout |-> 0, odds |-> odds]
  BY <1>3 DEF place_bet
<1>6. odds \in U16
  BY <1>2, <1>3, <1>4, OddsFit
<1>7. bet' \in BetAccount
  BY SMT, <1>2, <1>5, <1>6 DEF BetAccount
<1>8. TypeOK'
  <2>1. bet' # None => bet' \in [selection : [kind : Byte, a : U16, b : U16, c : U16], stake : Stakes,
                                edge : Edges, won : BOOLEAN, payout : Nat, odds : U16]
    BY <1>7, Zenon DEF BetAccount, Account
  <2> QED
    BY SMT, <1>1, <1>2, <2>1 DEF TypeOK
<1>9. OptionKept'
  BY <1>1, <1>2, Zenon DEF OptionKept
<1>10. SelectionKept'
  BY <1>1, <1>2 DEF SelectionKept
<1>11. AccountKept'
  <2>1. bet'.selection = e /\ bet'.odds = odds /\ bet'.edge = chainEdge
    BY SMT, <1>5
  <2>2. "placed" \notin Before
    BY DEF Before
  <2> QED
    BY <1>1, <1>3, <1>4, <1>7, <2>1, <2>2, Zenon DEF AccountKept
<1>12. RecordKept' /\ VerdictKept'
  BY SMT, <1>1 DEF RecordKept, VerdictKept
<1> QED
  BY <1>8, <1>9, <1>10, <1>11, <1>12 DEF RulesInv

LEMMA PlaceBetKeeps ==
  ASSUME RulesInv, PlaceBet
  PROVE  RulesInv'
<1>1. stage = "chosen" /\ validateSelection(market.type, selection)
  BY DEF PlaceBet
<1>2. PICK stake \in Stakes : place_bet(OnChain(market.type, selection), stake)
  BY DEF PlaceBet, OnChain
<1>3. selection \in Valid(market.type)
  BY <1>1 DEF RulesInv, SelectionKept, Valid
<1>4. OnChain(market.type, selection) \in Account
  BY <1>3, TypeFacts, ServerEncodes DEF RulesInv, Encodes
<1>5. stage \in Before
  BY <1>1 DEF Before
<1> QED
  BY <1>2, <1>3, <1>4, <1>5, place_betKeeps

LEMMA PlaceBetItselfKeeps ==
  ASSUME RulesInv, PlaceBetItself
  PROVE  RulesInv'
<1>1. stage = "new"
  BY DEF PlaceBetItself
<1>2. PICK e \in Encodings, stake \in Stakes : place_bet(e, stake)
  BY DEF PlaceBetItself
<1>3. selection = None /\ option = None
  BY <1>1 DEF RulesInv, SelectionKept
<1>4. e \in Account
  BY EncodingsFit
<1>5. stage \in Before
  BY <1>1 DEF Before
<1> QED
  BY <1>2, <1>3, <1>4, <1>5, place_betKeeps

\* A later stage leaves the account's part of the invariant as it is.
LEMMA LaterKeepsAccount ==
  ASSUME AccountKept, stage \in After, stage' \in After, market' = market,
         option' = option, selection' = selection, bet' = bet
  PROVE  AccountKept'
<1>1. stage' \notin Before
  BY DEF Before, After
<1> QED
  BY <1>1, Zenon DEF AccountKept

LEMMA ConfirmBetKeeps ==
  ASSUME RulesInv, ConfirmBet
  PROVE  RulesInv'
<1>1. /\ stage = "placed" /\ stage' = "confirmed" /\ market' = market
      /\ chainEdge' = chainEdge /\ configEdge' = configEdge /\ changes' = changes
      /\ option' = option /\ selection' = selection /\ bet' = bet
  BY DEF ConfirmBet, house
<1>2. TypeOK /\ OptionKept /\ SelectionKept /\ AccountKept /\ configEdge \in Edges
  BY TypeFacts DEF RulesInv
<1>3. TypeOK'
  BY SMT, <1>1, <1>2 DEF TypeOK
<1>4. OptionKept'
  BY <1>1, <1>2, Zenon DEF OptionKept
<1>5. SelectionKept'
  BY <1>1, <1>2 DEF SelectionKept
<1>6. AccountKept'
  <2>1. stage \in After /\ stage' \in After
    BY <1>1 DEF After
  <2> QED
    BY <1>1, <1>2, <2>1, LaterKeepsAccount
<1>7. RecordKept'
  <2>1. PICK s : s = decodeSelection(market.type, bet.selection)
    OBVIOUS
  <2>2. doc' = [selection |-> s, stake |-> bet.stake, edge |-> configEdge, won |-> FALSE,
                payout |-> 0, odds |-> calculateOdds(market.type, s, configEdge)]
    BY <2>1 DEF ConfirmBet
  <2> QED
    BY <1>1, <1>2, <2>1, <2>2, Zenon DEF RecordKept
<1>8. VerdictKept'
  BY SMT, <1>1 DEF VerdictKept
<1> QED
  BY <1>3, <1>4, <1>5, <1>6, <1>7, <1>8 DEF RulesInv

LEMMA DrawKeeps ==
  ASSUME RulesInv, Draw \/ NoDraw
  PROVE  RulesInv'
<1>1. /\ stage = "confirmed" /\ stage' \in {"drawn", "undrawn"} /\ market' = market
      /\ chainEdge' = chainEdge /\ configEdge' = configEdge /\ changes' = changes
      /\ option' = option /\ selection' = selection /\ bet' = bet /\ doc' = doc
  BY DEF Draw, NoDraw, house
<1>2. stage' = "drawn" => outcome' \in buildOutcomeForMarket(market.type)
  BY DEF Draw, NoDraw
<1>3. TypeOK /\ OptionKept /\ SelectionKept /\ AccountKept /\ RecordKept
  BY DEF RulesInv
<1>4. TypeOK'
  BY SMT, <1>1, <1>2, <1>3 DEF TypeOK
<1>5. OptionKept'
  BY <1>1, <1>3, Zenon DEF OptionKept
<1>6. SelectionKept'
  BY <1>1, <1>3 DEF SelectionKept
<1>7. AccountKept'
  <2>1. stage \in After /\ stage' \in After
    BY <1>1 DEF After
  <2> QED
    BY <1>1, <1>3, <2>1, LaterKeepsAccount
<1>8. RecordKept'
  BY <1>1, <1>3, Zenon DEF RecordKept
<1>9. VerdictKept'
  BY SMT, <1>1 DEF VerdictKept
<1> QED
  BY <1>4, <1>5, <1>6, <1>7, <1>8, <1>9 DEF RulesInv

Settled(b, won, payout) == [b EXCEPT !.won = won, !.payout = payout]

\* What the chain pays is a number.
LEMMA PayoutType ==
  ASSUME NEW stake \in Nat, NEW odds \in Nat, NEW won
  PROVE  Payout(won, stake, odds) \in Nat
<1>1. stake * odds \in Nat
  BY Times
<1>2. PICK p \in Nat : p = stake * odds
  BY <1>1
<1>3. p \div 100 \in Nat
  BY SMT
<1> QED
  BY SMT, <1>2, <1>3 DEF Payout

\* Settling writes the verdict and the payout.
LEMMA SettledAccount ==
  ASSUME NEW b \in BetAccount, NEW won \in BOOLEAN, NEW payout \in Nat
  PROVE  /\ Settled(b, won, payout) \in BetAccount
         /\ Settled(b, won, payout).selection = b.selection
         /\ Settled(b, won, payout).stake = b.stake
         /\ Settled(b, won, payout).edge = b.edge
         /\ Settled(b, won, payout).odds = b.odds
         /\ Settled(b, won, payout).won = won
         /\ Settled(b, won, payout).payout = payout
<1> DEFINE c == Settled(b, won, payout)
<1>1. c \in BetAccount
  BY Zenon DEF BetAccount, Settled
<1>2. c.selection = b.selection /\ c.stake = b.stake /\ c.edge = b.edge /\ c.odds = b.odds
  BY Zenon DEF BetAccount, Settled
<1>3. c.won = won
  BY Zenon DEF BetAccount, Settled
<1>4. c.payout = payout
  BY Zenon DEF BetAccount, Settled
<1> QED
  BY <1>1, <1>2, <1>3, <1>4

\* ... in the record as in the account.
LEMMA SettledRecord ==
  ASSUME NEW s, NEW stake, NEW edge, NEW odds, NEW won, NEW amount, NEW d,
         d = [selection |-> s, stake |-> stake, edge |-> edge, won |-> FALSE, payout |-> 0,
              odds |-> odds]
  PROVE  /\ Settled(d, won, amount).edge = edge
         /\ Settled(d, won, amount).odds = odds
         /\ Settled(d, won, amount).won = won
         /\ Settled(d, won, amount).payout = amount
<1>1. Settled(d, won, amount).edge = edge
  BY Zenon DEF Settled
<1>2. Settled(d, won, amount).odds = odds
  BY Zenon DEF Settled
<1>3. Settled(d, won, amount).won = won
  BY Zenon DEF Settled
<1>4. Settled(d, won, amount).payout = amount
  BY Zenon DEF Settled
<1> QED
  BY <1>1, <1>2, <1>3, <1>4

LEMMA SettleKeeps ==
  ASSUME RulesInv, Settle
  PROVE  RulesInv'
<1>1. /\ stage = "drawn" /\ stage' = "settled" /\ market' = market
      /\ chainEdge' = chainEdge /\ configEdge' = configEdge /\ changes' = changes
      /\ option' = option /\ selection' = selection /\ outcome' = outcome
  BY DEF Settle, house
<1>2. TypeOK /\ OptionKept /\ SelectionKept /\ AccountKept /\ RecordKept
  BY DEF RulesInv
<1>3. /\ bet \in BetAccount
      /\ WidthFits(market.type, bet.selection)
      /\ bet.odds = compute_odds_bps(market.type, bet.selection, bet.edge)
      /\ selection # None \/ option # None =>
           /\ selection \in Valid(market.type)
           /\ bet.selection = OnChain(market.type, selection)
  <2>1. stage \in After
    BY <1>1 DEF After
  <2> QED
    BY <1>2, <2>1, Zenon DEF AccountKept
<1>4. outcome \in buildOutcomeForMarket(market.type)
  BY <1>1, <1>2, Zenon DEF TypeOK
<1>5. PICK s : s = decodeSelection(market.type, bet.selection)
  OBVIOUS
<1>6. PICK edge \in Edges :
        doc = [selection |-> s, stake |-> bet.stake, edge |-> edge, won |-> FALSE, payout |-> 0,
               odds |-> calculateOdds(market.type, s, edge)]
  BY <1>1, <1>2, <1>5, Zenon DEF RecordKept
<1>7. PICK won_on_chain : won_on_chain = evaluate_winner(market.type, bet.selection, outcome)
  OBVIOUS
<1>8. PICK won : won = checkBetWon(s, outcome)
  OBVIOUS
<1>9. won_on_chain \in BOOLEAN
  BY <1>7 DEF evaluate_winner
<1>10. PICK paid : paid = Payout(won_on_chain, bet.stake, bet.odds)
  OBVIOUS
<1>11. paid \in Nat
  <2>1. bet.stake \in Stakes /\ bet.odds \in U16
    BY <1>3, Zenon DEF BetAccount
  <2>2. bet.stake \in Nat /\ bet.odds \in Nat
    BY <2>1, StakesNatural, FieldBound
  <2> QED
    BY <1>10, <2>2, PayoutType
<1>12. bet' = Settled(bet, won_on_chain, paid)
  BY <1>7, <1>10 DEF Settle, Settled
<1>13. doc.selection = s /\ doc.stake = bet.stake /\ doc.edge = edge
       /\ doc.odds = calculateOdds(market.type, s, edge)
  BY SMT, <1>6
<1>14. doc' = Settled(doc, won, IF won THEN doc.stake * doc.odds ELSE 0)
  BY <1>8, <1>13 DEF Settle, Settled
<1>15. /\ bet' \in BetAccount /\ bet'.selection = bet.selection /\ bet'.stake = bet.stake
       /\ bet'.edge = bet.edge /\ bet'.odds = bet.odds /\ bet'.won = won_on_chain
       /\ bet'.payout = paid
  BY <1>3, <1>9, <1>11, <1>12, SettledAccount
<1>16. /\ doc'.edge = edge /\ doc'.odds = doc.odds /\ doc'.won = won
       /\ doc'.payout = IF won THEN doc.stake * doc.odds ELSE 0
  <2>1. PICK amount : amount = IF won THEN doc.stake * doc.odds ELSE 0
    OBVIOUS
  <2>2. doc' = Settled(doc, won, amount)
    BY <1>14, <2>1
  <2>3. PICK odds : odds = calculateOdds(market.type, s, edge)
    OBVIOUS
  <2>4. doc = [selection |-> s, stake |-> bet.stake, edge |-> edge, won |-> FALSE, payout |-> 0,
               odds |-> odds]
    BY <1>6, <2>3
  <2>5. /\ Settled(doc, won, amount).edge = edge
        /\ Settled(doc, won, amount).odds = odds
        /\ Settled(doc, won, amount).won = won
        /\ Settled(doc, won, amount).payout = amount
    BY <2>4, SettledRecord
  <2> QED
    BY <1>13, <2>1, <2>2, <2>3, <2>5, Zenon
<1>17. TypeOK'
  <2>1. bet' # None => bet' \in [selection : [kind : Byte, a : U16, b : U16, c : U16], stake : Stakes,
                                edge : Edges, won : BOOLEAN, payout : Nat, odds : U16]
    BY <1>15, Zenon DEF BetAccount, Account
  <2> QED
    BY SMT, <1>1, <1>2, <1>4, <2>1 DEF TypeOK
<1>18. OptionKept'
  BY <1>1, <1>2, Zenon DEF OptionKept
<1>19. SelectionKept'
  BY <1>1, <1>2 DEF SelectionKept
<1>20. AccountKept'
  <2>1. stage' \notin Before
    BY <1>1 DEF Before
  <2> QED
    BY <1>1, <1>3, <1>15, <2>1, Zenon DEF AccountKept
<1>21. RecordKept'
  BY <1>1, <1>5, <1>13, <1>15, <1>16, Zenon DEF RecordKept
<1>22. VerdictKept'
  BY <1>1, <1>5, <1>7, <1>8, <1>10, <1>13, <1>15, <1>16, Zenon DEF VerdictKept
<1> QED
  BY <1>17, <1>18, <1>19, <1>20, <1>21, <1>22 DEF RulesInv

LEMMA HouseKeeps ==
  ASSUME RulesInv, SetHouseEdgeBps \/ SaveHouseEdgeBps
  PROVE  RulesInv'
<1>1. /\ stage' = stage /\ stage \in {"new", "chosen", "placed"} /\ market' = market
      /\ option' = option /\ selection' = selection /\ bet' = bet
  BY DEF SetHouseEdgeBps, SaveHouseEdgeBps
<1>2. TypeOK /\ OptionKept /\ SelectionKept /\ AccountKept /\ chainEdge \in Edges /\ configEdge \in Edges
  BY TypeFacts DEF RulesInv
<1>3. chainEdge' \in Edges /\ configEdge' \in Edges
  BY <1>2 DEF SetHouseEdgeBps, SaveHouseEdgeBps
<1>4. changes' \in 0 .. MaxChanges
  <2>1. MaxChanges \in Nat
    BY RulesAssumption
  <2>2. changes \in 0 .. MaxChanges
    BY <1>2 DEF TypeOK
  <2> QED
    BY SMT, <2>1, <2>2 DEF SetHouseEdgeBps, SaveHouseEdgeBps
<1>5. TypeOK'
  BY SMT, <1>1, <1>2, <1>3, <1>4 DEF TypeOK
<1>6. OptionKept'
  BY <1>1, <1>2, Zenon DEF OptionKept
<1>7. SelectionKept' /\ AccountKept'
  BY <1>1, <1>2, Zenon DEF SelectionKept, AccountKept
<1>8. RecordKept' /\ VerdictKept'
  BY SMT, <1>1 DEF RecordKept, VerdictKept
<1> QED
  BY <1>5, <1>6, <1>7, <1>8 DEF RulesInv

\* RulesInv is inductive.
LEMMA RulesInvariant == Spec => []RulesInv
<1>1. RulesInv /\ UNCHANGED vars => RulesInv'
  BY ZenonT(60) DEF vars, RulesInv, TypeOK, OptionKept, SelectionKept, AccountKept, RecordKept, VerdictKept
<1>2. RulesInv /\ Next => RulesInv'
  BY ChooseKeeps, RequestKeeps, AdjustKeeps, RefuseKeeps, PlaceBetKeeps, PlaceBetItselfKeeps,
     ConfirmBetKeeps, DrawKeeps, SettleKeeps, HouseKeeps, Zenon DEF Next
<1> QED
  BY <1>1, <1>2, InitKept, PTL DEF Spec

-----------------------------------------------------------------------------
(* Theorems *)

\* The shape of the state, which is more than a type: the fields of a selection
\* and its odds stay 16-bit numbers, though a player types any number, the
\* server lets numbers through that it does not look at, and a wallet sends
\* what it likes to an instruction that only prices it.
THEOREM TypeCorrect == Spec => []TypeOK
<1>1. RulesInv => TypeOK
  BY DEF RulesInv
<1> QED
  BY <1>1, RulesInvariant, PTL

\* What the account of a bet holds, if the server built it.
LEMMA ServerBuilt ==
  ASSUME RulesInv, stage \in After, ByServer
  PROVE  /\ market.type \in AllMarkets
         /\ selection \in Valid(market.type)
         /\ bet.selection = OnChain(market.type, selection)
         /\ Encodes(market.type, selection)
<1>1. selection # None
  BY DEF ByServer
<1>2. selection \in Valid(market.type) /\ bet.selection = OnChain(market.type, selection)
  BY <1>1, Zenon DEF RulesInv, AccountKept
<1>3. market.type \in AllMarkets
  BY TypeFacts DEF RulesInv
<1> QED
  BY <1>2, <1>3, ServerEncodes

\* The selection a player chose comes back from the chain as it was: every
\* number validateSelection looks at passes the masks of the instruction.
THEOREM SelectionSurvives == Spec => []RecordedAsAsked
<1>1. RulesInv => RecordedAsAsked
  <2> SUFFICES ASSUME RulesInv, stage = "confirmed", ByServer, ~Unchecked
               PROVE  doc.selection = selection
    BY DEF RecordedAsAsked
  <2>1. stage \in After
    BY DEF After
  <2>2. bet.selection = OnChain(market.type, selection) /\ Encodes(market.type, selection)
    BY <2>1, ServerBuilt
  <2>3. decodeSelection(market.type, bet.selection) = selection
    BY <2>2, Zenon DEF Encodes, Unchecked
  <2>4. PICK edge \in Edges :
          doc = [selection |-> decodeSelection(market.type, bet.selection), stake |-> bet.stake,
                 edge |-> edge, won |-> FALSE, payout |-> 0,
                 odds |-> calculateOdds(market.type, decodeSelection(market.type, bet.selection), edge)]
    BY Zenon DEF RulesInv, RecordKept
  <2>5. doc.selection = decodeSelection(market.type, bet.selection)
    BY ONLY <2>4, Zenon
  <2> QED
    BY <2>3, <2>5
<1> QED
  BY <1>1, RulesInvariant, PTL

\* What is known of a settled bet.
LEMMA SettledFacts ==
  ASSUME RulesInv, stage = "settled"
  PROVE  /\ market \in Market /\ market.type \in AllMarkets
         /\ outcome \in buildOutcomeForMarket(market.type)
         /\ bet.selection \in Account /\ bet.stake \in Nat /\ bet.edge \in Edges
         /\ bet.odds \in Nat
         /\ bet.odds = compute_odds_bps(market.type, bet.selection, bet.edge)
         /\ bet.won = evaluate_winner(market.type, bet.selection, outcome)
         /\ bet.payout = Payout(bet.won, bet.stake, bet.odds)
         /\ doc.odds = calculateOdds(market.type, decodeSelection(market.type, bet.selection), doc.edge)
         /\ doc.won = checkBetWon(decodeSelection(market.type, bet.selection), outcome)
         /\ doc.payout = IF doc.won THEN bet.stake * doc.odds ELSE 0
<1>1. TypeOK /\ AccountKept /\ RecordKept /\ VerdictKept
  BY DEF RulesInv
<1>2. market \in Market /\ market.type \in AllMarkets
  BY <1>1, TypeFacts
<1>3. outcome \in buildOutcomeForMarket(market.type)
  BY <1>1, Zenon DEF TypeOK
<1>4. stage \in After
  BY DEF After
<1>5. /\ bet \in BetAccount
      /\ bet.odds = compute_odds_bps(market.type, bet.selection, bet.edge)
  BY <1>1, <1>4, Zenon DEF AccountKept
<1>6. bet.selection \in Account /\ bet.stake \in Stakes /\ bet.edge \in Edges /\ bet.odds \in U16
  BY <1>5, Zenon DEF BetAccount
<1>7. bet.stake \in Nat /\ bet.odds \in Nat
  BY <1>6, StakesNatural, FieldBound
<1>8. doc.odds = calculateOdds(market.type, decodeSelection(market.type, bet.selection), doc.edge)
  BY <1>1, Zenon DEF RecordKept
<1> QED
  BY <1>1, <1>2, <1>3, <1>5, <1>6, <1>7, <1>8, Zenon DEF VerdictKept

\* The floor the chain takes of a product, against the product of odds that
\* are at least as high and differ only below one.
LEMMA PayoutFloor ==
  ASSUME NEW stake \in Nat, NEW odds \in Nat, NEW won \in BOOLEAN, NEW shown,
         shown = AtLeastOne(odds)
  PROVE  /\ 100 * Payout(won, stake, odds) <= IF won THEN stake * shown ELSE 0
         /\ \/ (IF won THEN stake * shown ELSE 0) < 100 * (Payout(won, stake, odds) + 1)
            \/ odds < 100
<1>1. PICK p \in Nat : p = stake * odds
  BY Times
<1>2. PICK q \in Nat : q = p \div 100
  BY SMT
<1>3. 100 * q <= p /\ p < 100 * (q + 1)
  BY SMT, <1>2
<1>4. shown \in Nat /\ odds <= shown /\ (odds < 100 \/ shown = odds)
  BY SMT DEF AtLeastOne
<1>5. PICK r \in Nat : r = stake * shown
  BY <1>4, Times
<1>6. p <= r
  <2>1. odds * stake <= shown * stake
    BY <1>4, TimesMonotone
  <2>2. odds * stake = stake * odds /\ shown * stake = stake * shown
    BY SMT, <1>4
  <2> QED
    BY <1>1, <1>5, <2>1, <2>2
<1>7. odds < 100 \/ r = p
  BY <1>1, <1>4, <1>5
<1>8. CASE won
  <2>1. Payout(won, stake, odds) = q
    BY <1>1, <1>2, <1>8 DEF Payout
  <2>2. 100 * q <= r /\ (r < 100 * (q + 1) \/ odds < 100)
    BY SMT, <1>3, <1>6, <1>7
  <2> QED
    BY <1>5, <1>8, <2>1, <2>2
<1>9. CASE ~won
  <2>1. Payout(won, stake, odds) = 0
    BY <1>9 DEF Payout
  <2> QED
    BY SMT, <1>9, <2>1
<1> QED
  BY <1>8, <1>9

\* The worker, judging a decoded copy of the selection, writes down what the
\* chain did: with the same verdict in every market but for Differs, and with a
\* payout the chain's floor is within a unit of, at any stake and any edge.
THEOREM RecordsMatch == Spec => []RecordsAgree
<1>1. RulesInv => RecordsAgree
  <2> SUFFICES ASSUME RulesInv, stage = "settled", ByServer, ~Differs
               PROVE  /\ doc.won = bet.won
                      /\ doc.edge = bet.edge =>
                           /\ 100 * bet.payout <= doc.payout
                           /\ doc.payout < 100 * (bet.payout + 1) \/ bet.odds < 100
    BY DEF RecordsAgree
  <2>1. PICK t \in AllMarkets, e \in Account : t = market.type /\ e = bet.selection
    BY SettledFacts
  <2>2. Built(t, e)
    <3>1. stage \in After
      BY DEF After
    <3> QED
      BY <2>1, <3>1, ServerBuilt DEF Encodes
  <2>3. t \in AllMarkets \ {"SHAPE_COLOR"}
    BY <2>1, Zenon DEF Differs
  <2>4. outcome \in buildOutcomeForMarket(t)
    BY <2>1, SettledFacts
  <2>5. /\ t = "PATTERN_OF_DAY" => outcome.matched_value # 0
        /\ t = "ENTROPY_BATTLE" => outcome.winner = determine_entropy_winner(outcome)
    BY <2>1, Zenon DEF Differs
  <2>6. checkBetWon(decodeSelection(t, e), outcome) <=> evaluate_winner(t, e, outcome)
    BY <2>2, <2>3, <2>4, <2>5, SameVerdict
  <2>7. bet.won = evaluate_winner(t, e, outcome) /\ doc.won = checkBetWon(decodeSelection(t, e), outcome)
    BY <2>1, SettledFacts
  <2>8. bet.won \in BOOLEAN /\ doc.won = bet.won
    <3>1. bet.won \in BOOLEAN
      BY <2>7, Zenon DEF evaluate_winner
    <3>2. doc.won \in BOOLEAN
      BY <2>7, Zenon DEF checkBetWon
    <3>3. doc.won <=> bet.won
      BY <2>6, <2>7
    <3> QED
      BY <3>1, <3>2, <3>3
  <2>9. ASSUME doc.edge = bet.edge
        PROVE  /\ 100 * bet.payout <= doc.payout
               /\ doc.payout < 100 * (bet.payout + 1) \/ bet.odds < 100
    <3>1. PICK edge \in Edges : edge = bet.edge
      BY SettledFacts
    <3>2. bet.odds = Odds(Num(t, e), Den(t), edge)
      <4>1. Priced(t, e)
        BY <2>2, BuiltPriced
      <4> QED
        BY <2>1, <3>1, <4>1, SettledFacts, OddsOnChain
    <3>3. doc.odds = AtLeastOne(bet.odds)
      <4>1. doc.odds = calculateOdds(t, decodeSelection(t, e), edge)
        BY <2>1, <2>9, <3>1, SettledFacts
      <4> QED
        BY <2>2, <2>3, <3>2, <4>1, OddsOnRecord
    <3>4. PICK stake \in Nat, odds \in Nat : stake = bet.stake /\ odds = bet.odds
      BY SettledFacts
    <3>5. PICK won \in BOOLEAN : won = bet.won
      BY <2>8
    <3>6. bet.payout = Payout(won, stake, odds)
      BY <3>4, <3>5, SettledFacts
    <3>7. doc.payout = IF won THEN stake * doc.odds ELSE 0
      BY <2>8, <3>4, <3>5, SettledFacts
    <3> QED
      BY <3>3, <3>4, <3>6, <3>7, PayoutFloor
  <2> QED
    BY <2>8, <2>9
<1> QED
  BY <1>1, RulesInvariant, PTL

\* A winner who took an option as the page shows it receives, at any stake, the
\* odds on view: those of the page, computed at the edge of the market's
\* document, are those of the chain at its own edge when the two are equal.
THEOREM ShownIsPaid == Spec => []PaidAsShown
<1>1. RulesInv => PaidAsShown
  <2> SUFFICES ASSUME RulesInv, stage = "settled", ByPage, bet.won, selection = option.selection,
                      bet.edge = option.edge, market.type # "COMMUNITY_SEED"
               PROVE  \/ bet.payout = (bet.stake * option.odds) \div 100
                      \/ bet.odds < 100 /\ option.odds = 100
    BY DEF PaidAsShown
  <2>1. option # None
    BY DEF ByPage
  <2>2. stage \in After
    BY DEF After
  <2>3. selection \in Valid(market.type) /\ bet.selection = OnChain(market.type, selection)
    BY <2>1, <2>2, Zenon DEF RulesInv, AccountKept
  <2>4. PICK o \in buildRoundOptions(market, option.edge) :
          option.selection = o.selection /\ option.odds = o.odds
    BY <2>1, Zenon DEF RulesInv, OptionKept
  <2>5. market \in Market /\ market.type \in AllMarkets /\ option.edge \in Edges
    BY SettledFacts
  <2>6. market.type # "STREAK_METER"
    <3>1. outcome \in buildOutcomeForMarket(market.type)
      BY SettledFacts
    <3>2. buildOutcomeForMarket("STREAK_METER") = {}
      BY SMT DEF buildOutcomeForMarket
    <3> QED
      BY <3>1, <3>2
  <2>7. option.odds = AtLeastOne(Odds(Num(market.type, bet.selection), Den(market.type), option.edge))
    <3>1. o.selection \in Valid(market.type) /\ bet.selection = OnChain(market.type, o.selection)
      BY <2>3, <2>4
    <3>2. o.odds = AtLeastOne(Odds(Num(market.type, OnChain(market.type, o.selection)),
                                   Den(market.type), option.edge))
      BY <2>4, <2>5, <2>6, <3>1, OddsOnPage
    <3> QED
      BY <2>4, <3>1, <3>2
  <2>8. bet.odds = Odds(Num(market.type, bet.selection), Den(market.type), bet.edge)
    <3>1. Built(market.type, bet.selection) /\ bet.selection \in Account
      BY <2>3, <2>5, ServerEncodes DEF Encodes
    <3>2. Priced(market.type, bet.selection)
      BY <2>5, <3>1, BuiltPriced
    <3> QED
      BY <2>5, <3>1, <3>2, OddsOnChain, SettledFacts
  <2>9. option.odds = AtLeastOne(bet.odds)
    BY <2>7, <2>8
  <2>10. bet.payout = (bet.stake * bet.odds) \div 100
    BY SettledFacts DEF Payout
  <2> QED
    BY SMT, <2>9, <2>10 DEF AtLeastOne
<1> QED
  BY <1>1, RulesInvariant, PTL

-----------------------------------------------------------------------------
(* The price of a selection *)

LEMMA TimesAssociative ==
  ASSUME NEW x \in Nat, NEW y \in Nat, NEW z \in Nat
  PROVE  (x * y) * z = y * (x * z)
  BY SMT

\* A quotient by a product, multiplied back by one of its factors, is the
\* quotient by the other less than that factor too low.
LEMMA QuotientTimes ==
  ASSUME NEW a \in Nat, NEW b \in Nat \ {0}, NEW k \in Nat \ {0}
  PROVE  /\ k * (a \div (k * b)) <= a \div b
         /\ k * ((a \div (k * b)) + 1) > a \div b
<1> DEFINE c == k * b
           q == a \div c
           p == a \div b
<1>1. c \in Nat \ {0}
  <2>1. 1 * b <= k * b
    BY SMT, TimesMonotone
  <2> QED
    BY SMT, <2>1, Times
<1>2. q \in Nat /\ c * q <= a /\ a < c * (q + 1)
  <2> HIDE DEF c
  <2> QED
    BY <1>1, Quotient
<1>3. p \in Nat /\ b * p <= a /\ a < b * (p + 1)
  BY Quotient
<1> HIDE DEF p, q
<1>4. k * q \in Nat /\ k * (q + 1) \in Nat /\ c * q = b * (k * q) /\ c * (q + 1) = b * (k * (q + 1))
  <2>1. k * q \in Nat /\ k * (q + 1) \in Nat
    BY SMT, <1>2, Times
  <2>2. c * q = b * (k * q) /\ c * (q + 1) = b * (k * (q + 1))
    BY SMT, <1>2, TimesAssociative
  <2> QED
    BY <2>1, <2>2
<1> HIDE DEF c
<1>5. \A x, y \in Nat : x <= y => b * x <= b * y
  BY SMT, TimesMonotone
<1>6. PICK u \in Nat, v \in Nat : u = k * q /\ v = k * (q + 1)
  BY <1>4
<1>7. b * u <= a /\ a < b * v
  BY SMT, <1>2, <1>4, <1>6
<1>8. u <= p
  <2>1. ASSUME p + 1 <= u
        PROVE  FALSE
    <3>1. b * (p + 1) <= b * u
      BY SMT, <1>3, <1>5, <2>1
    <3>2. b * (p + 1) \in Nat /\ b * u \in Nat
      BY SMT, <1>3, Times
    <3> QED
      BY SMT, <1>3, <1>7, <3>1, <3>2
  <2> QED
    BY SMT, <1>3, <2>1
<1>9. v > p
  <2>1. ASSUME v <= p
        PROVE  FALSE
    <3>1. b * v <= b * p
      BY SMT, <1>3, <1>5, <2>1
    <3>2. b * v \in Nat /\ b * p \in Nat
      BY SMT, <1>3, Times
    <3> QED
      BY SMT, <1>3, <1>7, <3>1, <3>2
  <2> QED
    BY SMT, <1>3, <2>1
<1> QED
  BY <1>6, <1>8, <1>9 DEF p, q, c

-----------------------------------------------------------------------------
(* Counting *)

\* A one-to-one function onto a set counts it.
LEMMA SameCount ==
  ASSUME NEW S, IsFiniteSet(S), NEW T, NEW g \in [S -> T],
         \A x, y \in S : g[x] = g[y] => x = y,
         \A t \in T : \E x \in S : g[x] = t
  PROVE  IsFiniteSet(T) /\ Cardinality(T) = Cardinality(S)
<1>1. g \in Bijection(S, T)
  BY Zenon DEF Bijection, Injection, Surjection, IsInjective
<1>2. ExistsBijection(S, T)
  BY <1>1, Zenon DEF ExistsBijection
<1> QED
  BY <1>2, FS_Bijection

\* So does a table without repetitions.
LEMMA TableCount ==
  ASSUME NEW n \in Nat, NEW f, NEW S,
         \A i \in 1 .. n : f[i] \in S,
         \A x \in S : \E i \in 1 .. n : f[i] = x,
         \A i, j \in 1 .. n : f[i] = f[j] => i = j
  PROVE  IsFiniteSet(S) /\ Cardinality(S) = n
<1> DEFINE D == 1 .. n
           g == [i \in D |-> f[i]]
<1>1. IsFiniteSet(D) /\ Cardinality(D) = n
  BY SMT, FS_Interval
<1> HIDE DEF D
<1>2. g \in [D -> S] /\ \A i \in D : g[i] = f[i]
  BY Zenon DEF D
<1>3. /\ \A x, y \in D : g[x] = g[y] => x = y
      /\ \A t \in S : \E x \in D : g[x] = t
  BY <1>2, Zenon DEF D
<1> HIDE DEF g
<1>4. IsFiniteSet(S) /\ Cardinality(S) = Cardinality(D)
  BY <1>1, <1>2, <1>3, SameCount, ZenonT(60)
<1> QED
  BY <1>1, <1>4

LEMMA DisjointCount ==
  ASSUME NEW S, IsFiniteSet(S), NEW T, IsFiniteSet(T), S \cap T = {}
  PROVE  IsFiniteSet(S \cup T) /\ Cardinality(S \cup T) = Cardinality(S) + Cardinality(T)
<1>1. /\ IsFiniteSet(S \cup T)
      /\ Cardinality(S \cup T) = Cardinality(S) + Cardinality(T) - Cardinality(S \cap T)
  BY FS_Union
<1>2. Cardinality(S \cap T) = 0 /\ Cardinality(S) \in Nat /\ Cardinality(T) \in Nat
  BY FS_EmptySet, FS_CardinalityType
<1> QED
  BY SMT, <1>1, <1>2

\* A record of one value is as one of many as the value.
LEMMA ValueCount ==
  ASSUME NEW S, IsFiniteSet(S)
  PROVE  Cardinality([value : S]) = Cardinality(S)
<1> DEFINE T == [value : S]
           g == [x \in S |-> [value |-> x]]
<1>1. g \in [S -> T]
  BY SMT
<1>2. \A x, y \in S : g[x] = g[y] => x = y
  BY SMT
<1>3. \A t \in T : \E x \in S : g[x] = t
  BY SMT
<1> HIDE DEF g, T
<1>4. Cardinality(T) = Cardinality(S)
  BY <1>1, <1>2, <1>3, SameCount, Zenon
<1> QED
  BY <1>4 DEF T

\* Shapes are counted by their fields.
LEMMA ShapeCount ==
  ASSUME NEW A, IsFiniteSet(A), NEW B, IsFiniteSet(B), NEW C, IsFiniteSet(C)
  PROVE  Cardinality([shape : A, color : B, size : C])
           = (Cardinality(A) * Cardinality(B)) * Cardinality(C)
<1> DEFINE P == (A \X B) \X C
           T == [shape : A, color : B, size : C]
           g == [x \in P |-> [shape |-> x[1][1], color |-> x[1][2], size |-> x[2]]]
<1>1. IsFiniteSet(P) /\ Cardinality(P) = (Cardinality(A) * Cardinality(B)) * Cardinality(C)
  <2>1. IsFiniteSet(A \X B) /\ Cardinality(A \X B) = Cardinality(A) * Cardinality(B)
    BY FS_Product
  <2>2. PICK Q : Q = A \X B
    OBVIOUS
  <2>3. IsFiniteSet(Q \X C) /\ Cardinality(Q \X C) = Cardinality(Q) * Cardinality(C)
    BY <2>1, <2>2, FS_Product, Zenon
  <2> QED
    BY <2>1, <2>2, <2>3
<1>2. g \in [P -> T]
  BY SMT
<1>3. \A x, y \in P : g[x] = g[y] => x = y
  BY SMT
<1>4. \A t \in T : \E x \in P : g[x] = t
  <2> SUFFICES ASSUME NEW t \in T PROVE \E x \in P : g[x] = t
    OBVIOUS
  <2> DEFINE x == <<<<t.shape, t.color>>, t.size>>
  <2>1. x \in P /\ g[x] = t
    BY SMT
  <2> QED
    BY <2>1
<1> HIDE DEF g, P, T
<1>5. Cardinality(T) = Cardinality(P)
  BY <1>1, <1>2, <1>3, <1>4, SameCount, Zenon
<1> QED
  BY <1>1, <1>5 DEF T


-----------------------------------------------------------------------------
(* The outcomes a selection wins on *)

Wins(t, e) == {o \in buildOutcomeForMarket(t) : evaluate_winner(t, e, o)}

\* The outcomes of a market are as many as the chances it is priced with, and
\* a selection wins on at most as many as its price is made for: on exactly as
\* many if the server built it, except that of the Fibonacci numbers 0 is not
\* paid, and that another client than the page may have chosen what no outcome
\* matches.
Counted(t, e) ==
  /\ Cardinality(buildOutcomeForMarket(t)) = Den(t)
  /\ Cardinality(Wins(t, e)) \in Nat
  /\ Cardinality(Wins(t, e)) <= Num(t, e)
  /\ Built(t, e) =>
       \/ Cardinality(Wins(t, e)) = Num(t, e)
       \/ Cardinality(Wins(t, e)) = 0 /\ ~BuiltForPage(t, e)
       \/ t = "PATTERN_OF_DAY" /\ e.a = 1

LEMMA AccountFields ==
  ASSUME NEW e \in Account
  PROVE  e.kind \in Nat /\ e.a \in Nat /\ e.b \in Nat /\ e.c \in Nat
<1>1. e.kind \in Byte /\ e.a \in U16 /\ e.b \in U16 /\ e.c \in U16
  BY Zenon DEF Account
<1>2. e.kind \in Nat
  BY SMT, <1>1 DEF Byte
<1> QED
  BY <1>1, <1>2, FieldBound

\* Outcomes that are one value.
Drawn(R) == [value : R]

\* Of these, a selection wins on those with a value of V.
WonBy(t, e, R, V) ==
  /\ IsFiniteSet(R) /\ V \subseteq R
  /\ buildOutcomeForMarket(t) = Drawn(R)
  /\ \A o \in Drawn(R) : evaluate_winner(t, e, o) <=> o.value \in V

LEMMA ValueWins ==
  ASSUME NEW t, NEW e, NEW R, NEW V, WonBy(t, e, R, V)
  PROVE  /\ Cardinality(buildOutcomeForMarket(t)) = Cardinality(R)
         /\ IsFiniteSet(V) /\ Cardinality(Wins(t, e)) = Cardinality(V)
<1>1. \A o \in Drawn(R) : o \in Drawn(V) <=> o.value \in V
  BY SMT DEF Drawn
<1>2. Drawn(V) \subseteq Drawn(R)
  <2>1. V \subseteq R
    BY Zenon DEF WonBy
  <2> QED
    BY SMT, <2>1 DEF Drawn
<1>3. Wins(t, e) = Drawn(V)
  BY <1>1, <1>2, Zenon DEF Wins, WonBy
<1>4. IsFiniteSet(R) /\ IsFiniteSet(V)
  BY FS_Subset DEF WonBy
<1>5. buildOutcomeForMarket(t) = Drawn(R)
  BY DEF WonBy
<1> QED
  BY <1>3, <1>4, <1>5, ValueCount, Zenon DEF Drawn

\* Numbers in a row are counted by their ends.
LEMMA IntervalCount ==
  ASSUME NEW lo \in Int, NEW hi \in Int, lo <= hi
  PROVE  IsFiniteSet(lo .. hi) /\ Cardinality(lo .. hi) = hi - lo + 1
  BY SMT, FS_Interval

LEMMA UpToCount ==
  ASSUME NEW n \in Nat
  PROVE  IsFiniteSet(0 .. n) /\ Cardinality(0 .. n) = n + 1
  BY SMT, FS_Interval

\* Numbers of which no two are next to each other are at most half of all.
LEMMA ApartCount ==
  ASSUME NEW n \in Nat, NEW V, V \subseteq 1 .. 2 * n,
         \A x, y \in V : x < y => x + 1 < y
  PROVE  IsFiniteSet(V) /\ Cardinality(V) <= n
<1> DEFINE T == 1 .. n
           g == [x \in V |-> (x + 1) \div 2]
<1>1. IsFiniteSet(T) /\ Cardinality(T) = n
  BY SMT, FS_Interval
<1>2. \A x \in V : x \in Int /\ 1 <= x /\ x <= 2 * n
  BY SMT
<1>3. ASSUME NEW x \in V
      PROVE  (x + 1) \div 2 \in T
  <2>1. PICK y \in Int : y = x /\ 1 <= y /\ y <= 2 * n
    BY <1>2
  <2>2. (y + 1) \div 2 \in 1 .. n
    BY SMT, <2>1
  <2> QED
    BY <2>1, <2>2
<1>4. ASSUME NEW x \in V, NEW y \in V, (x + 1) \div 2 = (y + 1) \div 2
      PROVE  x = y
  <2>1. x \in Int /\ y \in Int
    BY <1>2
  <2>2. (x < y => x + 1 < y) /\ (y < x => y + 1 < x)
    OBVIOUS
  <2>3. PICK u \in Int, v \in Int : u = x /\ v = y
    BY <2>1
  <2>4. u = v
    BY ONLY <1>4, <2>2, <2>3, SMT
  <2> QED
    BY <2>3, <2>4
<1> HIDE DEF T
<1>5. g \in [V -> T] /\ \A x, y \in V : g[x] = g[y] => x = y
  BY <1>3, <1>4, Zenon
<1> HIDE DEF g
<1>6. g \in Injection(V, T)
  BY <1>5, Zenon DEF Injection, IsInjective
<1> QED
  BY <1>1, <1>6, FS_Injection

LEMMA RangeOutcomes == \A n, one \in Nat : n = 100 /\ one = 1 =>
                         buildOutcomeForMarket("PICK_RANGE") = Drawn(one .. n)
<1> SUFFICES ASSUME NEW n \in Nat, NEW one \in Nat, n = 100, one = 1
             PROVE  buildOutcomeForMarket("PICK_RANGE") = Drawn(one .. n)
  OBVIOUS
<1>1. \A o : o \in buildOutcomeForMarket("PICK_RANGE") <=> o \in Drawn(one .. n)
  BY SMT DEF buildOutcomeForMarket, Drawn
<1> QED
  BY <1>1, Zenon

\* A range wins on its width, cut to the numbers that are drawn; a number on
\* itself; and what is neither, priced at a half, on no two numbers in a row.
LEMMA RangeWins ==
  ASSUME NEW e \in Account, Priced("PICK_RANGE", e)
  PROVE  Counted("PICK_RANGE", e)
<1>1. PICK n \in Nat, one \in Nat, half \in Nat : n = 100 /\ one = 1 /\ half = 50
  OBVIOUS
<1>2. PICK kind \in Nat, a \in Nat, b \in Nat : kind = e.kind /\ a = e.a /\ b = e.b
  BY AccountFields
<1>3. kind = 0 => a <= b
  BY SMT, <1>2 DEF Priced, Inverted
<1> DEFINE t == "PICK_RANGE"
           R == one .. n
           Wanted(v) == \/ kind = 0 /\ v >= a /\ v <= b
                        \/ kind = 1 /\ v = a
                        \/ kind = 2 /\ (v % 2 = 0 <=> a = 0)
                        \/ kind = 3 /\ v % 10 = a % 10
                        \/ kind = 4 /\ v % 3 = a % 3
           V == {v \in R : Wanted(v)}
<1> SUFFICES Counted(t, e)
  OBVIOUS
<1>4. \A o : evaluate_winner(t, e, o) <=> Wanted(o.value)
  BY SMT, <1>2 DEF evaluate_winner, Numeric
<1>5. \A v \in R : v \in Int /\ one <= v /\ v <= n
  BY SMT
<1>6. IsFiniteSet(R) /\ Cardinality(R) = n
  <2>1. one <= n /\ one \in Int /\ n \in Int
    BY SMT, <1>1
  <2>2. IsFiniteSet(R) /\ Cardinality(R) = n - one + 1
    BY <2>1, IntervalCount
  <2> HIDE DEF R
  <2> QED
    BY SMT, <1>1, <2>2
<1>7. buildOutcomeForMarket(t) = Drawn(R)
  BY <1>1, RangeOutcomes
<1>8. \A v \in Int : v >= one /\ v <= n => v \in R
  BY SMT
<1> HIDE DEF t, R, Wanted
<1>9. \A v : v \in V <=> v \in R /\ Wanted(v)
  BY Zenon
<1>10. V \subseteq R
  BY Zenon
<1> HIDE DEF V
<1>11. \A o \in Drawn(R) : evaluate_winner(t, e, o) <=> o.value \in V
  <2>1. \A o \in Drawn(R) : o.value \in R
    BY Zenon DEF Drawn
  <2> QED
    BY <1>4, <1>9, <2>1, Zenon
<1>12. /\ Cardinality(buildOutcomeForMarket(t)) = n
       /\ IsFiniteSet(V) /\ Cardinality(Wins(t, e)) = Cardinality(V)
  <2>1. /\ Cardinality(buildOutcomeForMarket(t)) = Cardinality(R)
        /\ IsFiniteSet(V) /\ Cardinality(Wins(t, e)) = Cardinality(V)
    <3>1. WonBy(t, e, R, V)
      BY <1>6, <1>7, <1>10, <1>11, Zenon DEF WonBy
    <3> QED
      BY <3>1, ValueWins, Zenon
  <2> QED
    BY <1>6, <2>1
<1>13. PICK w \in Nat : w = Cardinality(Wins(t, e)) /\ w = Cardinality(V)
  BY <1>12, FS_CardinalityType
<1>14. Num(t, e) = (IF kind = 0 THEN b - a + 1 ELSE IF kind = 1 THEN 1 ELSE half) /\ Den(t) = n
  BY SMT, <1>1, <1>2 DEF Num, Den, t
<1>15. CASE kind = 0
  <2>1. \A v \in Int : Wanted(v) <=> v >= a /\ v <= b
    BY SMT, <1>15 DEF Wanted
  <2>2. IsFiniteSet(a .. b) /\ Cardinality(a .. b) = b - a + 1
    BY <1>3, <1>15, IntervalCount
  <2>3. V \subseteq a .. b
    BY SMT, <1>5, <1>9, <2>1
  <2>4. w <= b - a + 1
    BY <1>13, <2>2, <2>3, FS_Subset
  <2>5. Built(t, e) => w = b - a + 1
    <3>1. ASSUME 1 <= a, b <= 100
          PROVE  V = a .. b
      <4>1. \A v \in a .. b : v \in Int /\ v >= one /\ v <= n /\ v >= a /\ v <= b
        BY SMT, <1>1, <3>1
      <4>2. a .. b \subseteq V
        BY <1>8, <1>9, <2>1, <4>1
      <4> QED
        BY <2>3, <4>2
    <3>2. Built(t, e) => 1 <= a /\ b <= 100
      BY SMT, <1>2, <1>15 DEF Built, t
    <3> QED
      BY <1>13, <2>2, <3>1, <3>2
  <2>6. Num(t, e) = b - a + 1
    BY <1>14, <1>15
  <2> QED
    BY <1>12, <1>13, <1>14, <2>4, <2>5, <2>6, Zenon DEF Counted
<1>16. CASE kind = 1
  <2>1. IsFiniteSet({a}) /\ Cardinality({a}) = 1
    BY FS_Singleton
  <2>2. \A v \in Int : Wanted(v) <=> v = a
    BY SMT, <1>16 DEF Wanted
  <2>3. V \subseteq {a}
    BY <1>5, <1>9, <2>2
  <2>4. w <= 1
    BY <1>13, <2>1, <2>3, FS_Subset
  <2>5. ~BuiltForPage(t, e)
    BY SMT, <1>2, <1>16 DEF BuiltForPage, t
  <2>6. w = 0 \/ w = 1
    BY SMT, <2>4
  <2>7. Num(t, e) = 1
    BY SMT, <1>14, <1>16
  <2> QED
    BY <1>12, <1>13, <1>14, <2>4, <2>5, <2>6, <2>7, Zenon DEF Counted
<1>17. CASE kind > 1
  <2>1. ASSUME NEW x \in V, NEW y \in V, x < y
        PROVE  x + 1 < y
    <3>1. PICK u \in Int, v \in Int : u = x /\ v = y
      BY <1>5, <1>9
    <3>2. u < v /\ Wanted(u) /\ Wanted(v)
      BY <1>9, <2>1, <3>1
    <3>3. u + 1 # v
      BY SMT, <1>17, <3>2 DEF Wanted
    <3>4. u + 1 < v
      BY SMT, <3>2, <3>3
    <3> QED
      BY <3>1, <3>4
  <2>2. V \subseteq 1 .. 2 * half
    BY SMT, <1>1, <1>5, <1>10
  <2>3. w <= half
    BY <1>13, <2>1, <2>2, ApartCount
  <2>4. ~Built(t, e)
    BY SMT, <1>2, <1>17 DEF Built, t
  <2>5. Num(t, e) = half
    BY SMT, <1>14, <1>17
  <2> QED
    BY <1>12, <1>13, <1>14, <2>3, <2>4, <2>5, Zenon DEF Counted
<1>18. kind = 0 \/ kind = 1 \/ kind > 1
  BY SMT
<1> QED
  BY <1>15, <1>16, <1>17, <1>18

\* A range the wrong way round, which is given odds of 0, wins on nothing.
LEMMA InvertedWins ==
  ASSUME NEW e \in Account, Inverted("PICK_RANGE", e)
  PROVE  Wins("PICK_RANGE", e) = {} /\ Cardinality(buildOutcomeForMarket("PICK_RANGE")) = 100
<1>1. PICK n \in Nat, one \in Nat : n = 100 /\ one = 1
  OBVIOUS
<1>2. buildOutcomeForMarket("PICK_RANGE") = Drawn(one .. n)
  BY <1>1, RangeOutcomes
<1>3. Wins("PICK_RANGE", e) = {}
  <2>1. e.kind = 0 /\ e.b < e.a /\ e.a \in Nat /\ e.b \in Nat
    BY AccountFields DEF Inverted
  <2>2. ASSUME NEW o \in Drawn(one .. n)
        PROVE  ~evaluate_winner("PICK_RANGE", e, o)
    <3>1. o.value \in Int
      BY SMT DEF Drawn
    <3> QED
      BY SMT, <2>1, <3>1 DEF evaluate_winner, Numeric
  <2> QED
    BY <1>2, <2>2 DEF Wins
<1>4. Cardinality(Drawn(one .. n)) = 100
  <2>1. one \in Int /\ n \in Int /\ one <= n
    BY SMT, <1>1
  <2>2. IsFiniteSet(one .. n) /\ Cardinality(one .. n) = n - one + 1
    BY <2>1, IntervalCount
  <2>3. Cardinality(Drawn(one .. n)) = n - one + 1
    BY <2>2, ValueCount, Zenon DEF Drawn
  <2> QED
    BY SMT, <1>1, <2>3
<1> QED
  BY <1>2, <1>3, <1>4

\* The values 0 to n, and at most one of them.
LEMMA OneOf ==
  ASSUME NEW t, NEW n \in Nat, buildOutcomeForMarket(t) = Drawn(0 .. n), NEW v, NEW e,
         \A o \in Drawn(0 .. n) : evaluate_winner(t, e, o) <=> o.value = v
  PROVE  /\ Cardinality(buildOutcomeForMarket(t)) = n + 1
         /\ Cardinality(Wins(t, e)) = IF v \in 0 .. n THEN 1 ELSE 0
<1> DEFINE R == 0 .. n
           V == {x \in R : x = v}
<1>1. IsFiniteSet(R) /\ Cardinality(R) = n + 1
  BY SMT, FS_Interval
<1>2. \A o \in Drawn(R) : evaluate_winner(t, e, o) <=> o.value \in V
  <2>1. \A o \in Drawn(R) : o.value \in R
    BY Zenon DEF Drawn
  <2>2. \A x : x \in V <=> x \in R /\ x = v
    BY Zenon
  <2>3. \A o \in Drawn(R) : evaluate_winner(t, e, o) <=> o.value = v
    OBVIOUS
  <2> HIDE DEF R, V
  <2> QED
    BY <2>1, <2>2, <2>3, Zenon
<1>3. V = (IF v \in R THEN {v} ELSE {})
  BY Zenon
<1>4. V \subseteq R
  BY Zenon
<1> HIDE DEF V, R
<1>5. Cardinality(V) = IF v \in R THEN 1 ELSE 0
  BY <1>3, FS_Singleton, FS_EmptySet
<1>6. buildOutcomeForMarket(t) = Drawn(R)
  BY DEF R
<1>7. /\ Cardinality(buildOutcomeForMarket(t)) = Cardinality(R)
      /\ Cardinality(Wins(t, e)) = Cardinality(V)
  <2>1. WonBy(t, e, R, V)
    BY <1>1, <1>2, <1>4, <1>6, Zenon DEF WonBy
  <2> QED
    BY <2>1, ValueWins, Zenon
<1> QED
  BY <1>1, <1>5, <1>7 DEF R

\* A market of the values 0 to n, priced at one of them, of the kind it is
\* priced for.
LEMMA OneCounted ==
  ASSUME NEW t, NEW n \in Nat, buildOutcomeForMarket(t) = Drawn(0 .. n), NEW v, NEW e,
         \A o \in Drawn(0 .. n) : evaluate_winner(t, e, o) <=> o.value = v,
         Num(t, e) = 1, Den(t) = n + 1, Built(t, e) => v \in 0 .. n
  PROVE  Counted(t, e)
<1>1. PICK one \in Nat : one = 1
  OBVIOUS
<1>2. /\ Cardinality(buildOutcomeForMarket(t)) = n + 1
      /\ Cardinality(Wins(t, e)) = IF v \in 0 .. n THEN one ELSE 0
  <2>1. /\ Cardinality(buildOutcomeForMarket(t)) = n + 1
        /\ Cardinality(Wins(t, e)) = IF v \in 0 .. n THEN 1 ELSE 0
    BY OneOf, Zenon
  <2> QED
    BY <1>1, <2>1
<1>3. one <= one /\ 0 <= one
  BY SMT, <1>1
<1> QED
  BY <1>1, <1>2, <1>3 DEF Counted

\* Even or odd wins on one of two.
LEMMA ParityWins ==
  ASSUME NEW e \in Account, e.kind = 2
  PROVE  Counted("EVEN_ODD", e)
<1>1. PICK n \in Nat, bit \in Nat : n = 1 /\ bit = IF e.a = 0 THEN 0 ELSE 1
  OBVIOUS
<1> DEFINE t == "EVEN_ODD"
<1>2. buildOutcomeForMarket(t) = Drawn(0 .. n)
  <2>1. \A o : o \in buildOutcomeForMarket(t) <=> o \in Drawn(0 .. n)
    BY SMT, <1>1 DEF buildOutcomeForMarket, Drawn
  <2> QED
    BY <2>1, Zenon
<1>3. ASSUME NEW o \in Drawn(0 .. n)
      PROVE  evaluate_winner(t, e, o) <=> o.value = bit
  <2>1. evaluate_winner(t, e, o) <=> (o.value % 2 = 0 <=> e.a = 0)
    BY SMT DEF evaluate_winner, Numeric
  <2>2. o.value = 0 \/ o.value = 1
    BY SMT, <1>1 DEF Drawn
  <2> QED
    BY SMT, <1>1, <2>1, <2>2
<1>4. Num(t, e) = 1 /\ Den(t) = n + 1
  BY SMT, <1>1 DEF Num, Den
<1>5. bit \in 0 .. n
  BY SMT, <1>1
<1> HIDE DEF t
<1>6. Counted(t, e)
  BY <1>2, <1>3, <1>4, <1>5, OneCounted
<1> QED
  BY <1>6 DEF t

\* A digit wins on one of ten.
LEMMA DigitWins ==
  ASSUME NEW e \in Account, e.kind = 3
  PROVE  Counted("LAST_DIGIT", e)
<1>1. PICK n \in Nat, a \in Nat : n = 9 /\ a = e.a
  BY AccountFields
<1>2. PICK d \in Nat : d = a % 10
  BY SMT
<1> DEFINE t == "LAST_DIGIT"
<1>3. buildOutcomeForMarket(t) = Drawn(0 .. n)
  <2>1. \A o : o \in buildOutcomeForMarket(t) <=> o \in Drawn(0 .. n)
    BY SMT, <1>1 DEF buildOutcomeForMarket, Drawn
  <2> QED
    BY <2>1, Zenon
<1>4. ASSUME NEW o \in Drawn(0 .. n)
      PROVE  evaluate_winner(t, e, o) <=> o.value = d
  <2>1. evaluate_winner(t, e, o) <=> o.value % 10 = d
    BY SMT, <1>1, <1>2 DEF evaluate_winner, Numeric
  <2>2. PICK v \in 0 .. 9 : v = o.value
    BY SMT, <1>1 DEF Drawn
  <2>3. v % 10 = v
    BY SMT
  <2> QED
    BY <2>1, <2>2, <2>3
<1>5. Num(t, e) = 1 /\ Den(t) = n + 1
  BY SMT, <1>1 DEF Num, Den
<1>6. d \in 0 .. n
  BY SMT, <1>1, <1>2
<1> HIDE DEF t
<1>7. Counted(t, e)
  BY <1>3, <1>4, <1>5, <1>6, OneCounted
<1> QED
  BY <1>7 DEF t

\* A remainder wins on one of three.
LEMMA RemainderWins ==
  ASSUME NEW e \in Account, e.kind = 4
  PROVE  Counted("MODULO_THREE", e)
<1>1. PICK n \in Nat, a \in Nat : n = 2 /\ a = e.a
  BY AccountFields
<1>2. PICK d \in Nat : d = a % 3
  BY SMT
<1> DEFINE t == "MODULO_THREE"
<1>3. buildOutcomeForMarket(t) = Drawn(0 .. n)
  <2>1. \A o : o \in buildOutcomeForMarket(t) <=> o \in Drawn(0 .. n)
    BY SMT, <1>1 DEF buildOutcomeForMarket, Drawn
  <2> QED
    BY <2>1, Zenon
<1>4. ASSUME NEW o \in Drawn(0 .. n)
      PROVE  evaluate_winner(t, e, o) <=> o.value = d
  <2>1. evaluate_winner(t, e, o) <=> o.value % 3 = d
    BY SMT, <1>1, <1>2 DEF evaluate_winner, Numeric
  <2>2. PICK v \in 0 .. 2 : v = o.value
    BY SMT, <1>1 DEF Drawn
  <2>3. v % 3 = v
    BY SMT
  <2> QED
    BY <2>1, <2>2, <2>3
<1>5. Num(t, e) = 1 /\ Den(t) = n + 1
  BY SMT, <1>1 DEF Num, Den
<1>6. d \in 0 .. n
  BY SMT, <1>1, <1>2
<1> HIDE DEF t
<1>7. Counted(t, e)
  BY <1>3, <1>4, <1>5, <1>6, OneCounted
<1> QED
  BY <1>7 DEF t

\* A number wins a jackpot on itself, if it is drawn.
LEMMA JackpotWins ==
  ASSUME NEW e \in Account, e.kind = 1
  PROVE  Counted("JACKPOT", e)
<1>1. PICK n \in Nat, a \in Nat : n = 99 /\ a = e.a
  BY AccountFields
<1> DEFINE t == "JACKPOT"
<1>2. buildOutcomeForMarket(t) = Drawn(0 .. n)
  <2>1. \A o : o \in buildOutcomeForMarket(t) <=> o \in Drawn(0 .. n)
    BY SMT, <1>1 DEF buildOutcomeForMarket, Drawn
  <2> QED
    BY <2>1, Zenon
<1>3. ASSUME NEW o \in Drawn(0 .. n)
      PROVE  evaluate_winner(t, e, o) <=> o.value = a
  BY SMT, <1>1 DEF evaluate_winner, Numeric
<1>4. Num(t, e) = 1 /\ Den(t) = n + 1
  BY SMT, <1>1 DEF Num, Den
<1>5. ~Built(t, e)
  BY Zenon DEF Built
<1> HIDE DEF t
<1>6. Counted(t, e)
  BY <1>2, <1>3, <1>4, <1>5, OneCounted
<1> QED
  BY <1>6 DEF t

\* The values of a field of a shape a selection's field matches.
Open(field, R) == {x \in R : field = 255 \/ field = x}

\* They are as many as they are priced at, or none.
LEMMA FieldCount ==
  ASSUME NEW field, NEW n \in Nat
  PROVE  /\ IsFiniteSet(Open(field, 0 .. n))
         /\ \/ Cardinality(Open(field, 0 .. n)) = IF field = 255 THEN n + 1 ELSE 1
            \/ /\ Cardinality(Open(field, 0 .. n)) = 0
               /\ field # 255 /\ field \notin 0 .. n
<1> DEFINE R == 0 .. n
<1>1. IsFiniteSet(R) /\ Cardinality(R) = n + 1
  BY UpToCount
<1> HIDE DEF R
<1>2. CASE field = 255
  <2>1. Open(field, R) = R
    BY Zenon, <1>2 DEF Open
  <2> QED
    BY <1>1, <1>2, <2>1 DEF R
<1>3. CASE field # 255 /\ field \in R
  <2>1. Open(field, R) = {field}
    BY Zenon, <1>3 DEF Open
  <2>2. IsFiniteSet(Open(field, R)) /\ Cardinality(Open(field, R)) = 1
    BY Zenon, <2>1, FS_Singleton
  <2> QED
    BY Zenon, <1>3, <2>2 DEF R
<1>4. CASE field # 255 /\ field \notin R
  <2>1. Open(field, R) = {}
    BY Zenon, <1>4 DEF Open
  <2> QED
    BY <1>4, <2>1, FS_EmptySet DEF R
<1> QED
  BY <1>2, <1>3, <1>4

\* Products of three such numbers: the matched shapes, or none.
LEMMA ShapeProduct ==
  ASSUME NEW a \in {4, 1, 0}, NEW b \in {6, 1, 0}, NEW c \in {3, 1, 0},
         NEW x \in {4, 1}, NEW y \in {6, 1}, NEW z \in {3, 1},
         a = x \/ a = 0, b = y \/ b = 0, c = z \/ c = 0
  PROVE  /\ (a * b) * c \in Nat
         /\ (a * b) * c <= (x * y) * z
         /\ (a * b) * c = 0 \/ (a = x /\ b = y /\ c = z /\ (a * b) * c = (x * y) * z)
  BY SMT

\* Shapes of some values of each field.
Shapes(R, G, B) == [shape : R, color : G, size : B]

\* A shape wins on what each of its fields matches.
LEMMA ShapesWon ==
  ASSUME NEW e, NEW R, NEW G, NEW B, buildOutcomeForMarket("SHAPE_COLOR") = Shapes(R, G, B),
         e.kind = 6
  PROVE  Wins("SHAPE_COLOR", e) = Shapes(Open(e.a, R), Open(e.b, G), Open(e.c, B))
<1> DEFINE A == Open(e.a, R)
           H == Open(e.b, G)
           C == Open(e.c, B)
<1>1. ASSUME NEW o \in Shapes(R, G, B)
      PROVE  evaluate_winner("SHAPE_COLOR", e, o) <=> o.shape \in A /\ o.color \in H /\ o.size \in C
  <2>1. evaluate_winner("SHAPE_COLOR", e, o) <=> /\ e.a = 255 \/ e.a = o.shape
                                                 /\ e.b = 255 \/ e.b = o.color
                                                 /\ e.c = 255 \/ e.c = o.size
    <3>1. "SHAPE_COLOR" \notin Numeric
      BY SMT DEF Numeric
    <3> QED
      BY <3>1, Zenon DEF evaluate_winner
  <2>2. o.shape \in R /\ o.color \in G /\ o.size \in B
    BY Zenon DEF Shapes
  <2>3. o.shape \in A <=> e.a = 255 \/ e.a = o.shape
    BY <2>2, Zenon DEF Open
  <2>4. o.color \in H <=> e.b = 255 \/ e.b = o.color
    BY <2>2, Zenon DEF Open
  <2>5. o.size \in C <=> e.c = 255 \/ e.c = o.size
    BY <2>2, Zenon DEF Open
  <2> HIDE DEF A, H, C
  <2> QED
    BY <2>1, <2>3, <2>4, <2>5
<1>2. A \subseteq R /\ H \subseteq G /\ C \subseteq B
  BY Zenon DEF Open
<1> HIDE DEF A, H, C
<1>3. \A o \in Shapes(R, G, B) :
        o \in Shapes(A, H, C) <=> o.shape \in A /\ o.color \in H /\ o.size \in C
  BY SMT DEF Shapes
<1>4. Shapes(A, H, C) \subseteq Shapes(R, G, B)
  BY SMT, <1>2 DEF Shapes
<1>5. Wins("SHAPE_COLOR", e) = Shapes(A, H, C)
  <2>1. Wins("SHAPE_COLOR", e) =
          {o \in Shapes(R, G, B) : evaluate_winner("SHAPE_COLOR", e, o)}
    BY DEF Wins
  <2> QED
    BY <1>1, <1>3, <1>4, <2>1, Zenon
<1> QED
  BY <1>5 DEF A, H, C

\* A shape is counted by the fields it leaves open; of a field with a value
\* that is not drawn there are none.
LEMMA ShapeWins ==
  ASSUME NEW e \in Account
  PROVE  Counted("SHAPE_COLOR", e)
<1>1. PICK i \in Nat, j \in Nat, k \in Nat : i = 3 /\ j = 5 /\ k = 2
  OBVIOUS
<1> DEFINE t == "SHAPE_COLOR"
           R == 0 .. i
           G == 0 .. j
           B == 0 .. k
           A == Open(e.a, R)
           H == Open(e.b, G)
           C == Open(e.c, B)
<1>2. buildOutcomeForMarket(t) = Shapes(R, G, B)
  <2>1. \A o : o \in buildOutcomeForMarket(t) <=> o \in Shapes(R, G, B)
    BY SMT, <1>1 DEF buildOutcomeForMarket, Shapes
  <2> QED
    BY <2>1, Zenon
<1>3. e.kind = 6 => Wins(t, e) = Shapes(A, H, C)
  BY <1>2, ShapesWon
<1>4. /\ IsFiniteSet(R) /\ Cardinality(R) = i + 1
      /\ IsFiniteSet(G) /\ Cardinality(G) = j + 1
      /\ IsFiniteSet(B) /\ Cardinality(B) = k + 1
  BY UpToCount
<1>5. /\ IsFiniteSet(A)
      /\ Cardinality(A) = (IF e.a = 255 THEN i + 1 ELSE 1)
         \/ (Cardinality(A) = 0 /\ e.a # 255 /\ e.a \notin R)
  BY FieldCount
<1>6. /\ IsFiniteSet(H)
      /\ Cardinality(H) = (IF e.b = 255 THEN j + 1 ELSE 1)
         \/ (Cardinality(H) = 0 /\ e.b # 255 /\ e.b \notin G)
  BY FieldCount
<1>7. /\ IsFiniteSet(C)
      /\ Cardinality(C) = (IF e.c = 255 THEN k + 1 ELSE 1)
         \/ (Cardinality(C) = 0 /\ e.c # 255 /\ e.c \notin B)
  BY FieldCount
<1>8. BuiltForPage(t, e) => /\ e.a = 255 \/ e.a \in R
                            /\ e.b = 255 \/ e.b \in G
                            /\ e.c = 255 \/ e.c \in B
  BY SMT, <1>1 DEF BuiltForPage
<1>9. Den(t) = 72 /\ Num(t, e) = Matched(e)
  BY SMT DEF Den, Num
<1>10. e.kind # 6 => Wins(t, e) = {} /\ ~Built(t, e)
  <2> SUFFICES ASSUME e.kind # 6 PROVE Wins(t, e) = {} /\ ~Built(t, e)
    OBVIOUS
  <2>1. \A o : ~evaluate_winner(t, e, o)
    BY SMT DEF evaluate_winner, Numeric
  <2>2. ~Built(t, e)
    BY SMT DEF Built
  <2> QED
    BY <2>1, <2>2 DEF Wins
<1> HIDE DEF t, R, G, B, A, H, C
<1>11. Cardinality(buildOutcomeForMarket(t)) = 72
  <2>1. Cardinality(Shapes(R, G, B)) = (Cardinality(R) * Cardinality(G)) * Cardinality(B)
    BY <1>4, ShapeCount DEF Shapes
  <2>2. Cardinality(R) = 4 /\ Cardinality(G) = 6 /\ Cardinality(B) = 3
    BY SMT, <1>1, <1>4
  <2> QED
    BY SMT, <1>2, <2>1, <2>2
<1>12. e.kind = 6 => Cardinality(Wins(t, e)) = (Cardinality(A) * Cardinality(H)) * Cardinality(C)
  <2>1. Cardinality(Shapes(A, H, C)) = (Cardinality(A) * Cardinality(H)) * Cardinality(C)
    <3>1. IsFiniteSet(A) /\ IsFiniteSet(H) /\ IsFiniteSet(C)
      BY <1>5, <1>6, <1>7
    <3> QED
      BY <3>1, ShapeCount DEF Shapes
  <2> QED
    BY <1>3, <2>1
<1>13. PICK x \in {4, 1}, y \in {6, 1}, z \in {3, 1} :
         /\ x = IF e.a = 255 THEN 4 ELSE 1
         /\ y = IF e.b = 255 THEN 6 ELSE 1
         /\ z = IF e.c = 255 THEN 3 ELSE 1
  OBVIOUS
<1>14. PICK a \in {4, 1, 0}, b \in {6, 1, 0}, c \in {3, 1, 0} :
         /\ a = Cardinality(A) /\ b = Cardinality(H) /\ c = Cardinality(C)
         /\ a = x \/ (a = 0 /\ e.a # 255 /\ e.a \notin R)
         /\ b = y \/ (b = 0 /\ e.b # 255 /\ e.b \notin G)
         /\ c = z \/ (c = 0 /\ e.c # 255 /\ e.c \notin B)
  BY SMT, <1>1, <1>5, <1>6, <1>7, <1>13
<1>15. /\ (a * b) * c \in Nat
       /\ (a * b) * c <= (x * y) * z
       /\ (a * b) * c = 0 \/ (a = x /\ b = y /\ c = z /\ (a * b) * c = (x * y) * z)
  BY SMT, <1>14, ShapeProduct
<1>16. Matched(e) = (x * y) * z
  BY SMT, <1>13 DEF Matched
<1>17. x # 0 /\ y # 0 /\ z # 0
  OBVIOUS
<1>18. BuiltForPage(t, e) => a = x /\ b = y /\ c = z
  BY <1>8, <1>14
<1>19. BuiltForPage(t, e) => (a * b) * c = (x * y) * z
  BY <1>18
<1>20. CASE e.kind = 6
  <2> DEFINE wins == Cardinality(Wins(t, e))
  <2>1. wins = (a * b) * c
    BY Zenon, <1>12, <1>14, <1>20
  <2>2. Cardinality(buildOutcomeForMarket(t)) = Den(t)
    BY Zenon, <1>9, <1>11
  <2>3. wins \in Nat /\ wins <= Num(t, e)
    BY Zenon, <2>1, <1>9, <1>15, <1>16
  <2>4. wins = 0 \/ wins = Num(t, e)
    BY Zenon, <2>1, <1>9, <1>15, <1>16
  <2>5. BuiltForPage(t, e) => wins = Num(t, e)
    BY Zenon, <2>1, <1>9, <1>16, <1>19
  <2> QED
    BY Zenon, <2>2, <2>3, <2>4, <2>5 DEF Counted, t
<1>21. CASE e.kind # 6
  <2>1. Cardinality(Wins(t, e)) = 0
    BY <1>21, <1>10, FS_EmptySet
  <2>2. PICK zero \in Nat, num \in Nat : zero = 0 /\ num = Num(t, e)
    BY SMT, <1>9, <1>13, <1>16
  <2>3. zero <= num
    BY SMT, <2>2
  <2> QED
    BY <1>9, <1>11, <1>21, <1>10, <2>1, <2>2, <2>3, Zenon DEF Counted, t
<1> QED
  BY <1>20, <1>21

-----------------------------------------------------------------------------
(* The pattern of a value: the first of seven that holds *)

First(has) == CHOOSE i \in 1 .. 7 : has[i] /\ \A j \in 1 .. i - 1 : ~has[j]

Has(n) == <<isPrime(n), isFibonacci(n), isPerfectSquare(n), n % 10 = 7,
            isPalindrome(n), n % 2 = 0, TRUE>>

\* It is the only one with none before.
LEMMA FirstIs ==
  ASSUME NEW has, NEW k \in 1 .. 7, has[k], \A j \in 1 .. k - 1 : ~has[j]
  PROVE  First(has) = k
<1>1. \A i \in 1 .. 7 : has[i] /\ (\A j \in 1 .. i - 1 : ~has[j]) => i = k
  <2> SUFFICES ASSUME NEW i \in 1 .. 7, has[i], \A j \in 1 .. i - 1 : ~has[j]
               PROVE  i = k
    OBVIOUS
  <2>1. ~(k < i)
    <3>1. k < i => k \in 1 .. i - 1
      BY SMT
    <3> QED
      BY <3>1, Zenon
  <2>2. ~(i < k)
    <3>1. i < k => i \in 1 .. k - 1
      BY SMT
    <3> QED
      BY <3>1, Zenon
  <2> QED
    BY SMT, <2>1, <2>2
<1> QED
  BY <1>1, Zenon DEF First

\* What each of the seven takes of the values the others left.
LEMMA PatternIs ==
  ASSUME NEW n \in Int
  PROVE  \/ isPrime(n) /\ PatternOf(n) = 0
         \/ ~isPrime(n) /\ isFibonacci(n) /\ PatternOf(n) = 1
         \/ ~isPrime(n) /\ ~isFibonacci(n) /\ isPerfectSquare(n) /\ PatternOf(n) = 2
         \/ /\ ~isPrime(n) /\ ~isFibonacci(n) /\ ~isPerfectSquare(n)
            /\ n % 10 = 7 /\ PatternOf(n) = 3
         \/ /\ ~isPrime(n) /\ ~isFibonacci(n) /\ ~isPerfectSquare(n)
            /\ n % 10 # 7 /\ isPalindrome(n) /\ PatternOf(n) = 4
         \/ /\ ~isPrime(n) /\ ~isFibonacci(n) /\ ~isPerfectSquare(n)
            /\ n % 10 # 7 /\ ~isPalindrome(n) /\ n % 2 = 0 /\ PatternOf(n) = 5
         \/ /\ ~isPrime(n) /\ ~isFibonacci(n) /\ ~isPerfectSquare(n)
            /\ n % 10 # 7 /\ ~isPalindrome(n) /\ n % 2 # 0 /\ PatternOf(n) = 6
<1>1. PatternOf(n) = First(Has(n)) - 1
  BY DEF PatternOf, First, Has
<1>2. /\ Has(n)[1] <=> isPrime(n)
      /\ Has(n)[2] <=> isFibonacci(n)
      /\ Has(n)[3] <=> isPerfectSquare(n)
      /\ Has(n)[4] <=> n % 10 = 7
      /\ Has(n)[5] <=> isPalindrome(n)
      /\ Has(n)[6] <=> n % 2 = 0
      /\ Has(n)[7]
  BY DEF Has
<1>3. CASE isPrime(n)
  <2>1. First(Has(n)) = 1
    BY <1>2, <1>3, FirstIs
  <2> QED
    BY SMT, <1>1, <1>3, <2>1
<1>4. CASE /\ ~isPrime(n)
           /\ isFibonacci(n)
  <2>1. \A j \in 1 .. 2 - 1 : ~Has(n)[j]
    BY SMT, <1>2, <1>4
  <2>2. First(Has(n)) = 2
    BY <1>2, <1>4, <2>1, FirstIs
  <2> QED
    BY SMT, <1>1, <1>4, <2>2
<1>5. CASE /\ ~isPrime(n)
           /\ ~isFibonacci(n)
           /\ isPerfectSquare(n)
  <2>1. \A j \in 1 .. 3 - 1 : ~Has(n)[j]
    BY SMT, <1>2, <1>5
  <2>2. First(Has(n)) = 3
    BY <1>2, <1>5, <2>1, FirstIs
  <2> QED
    BY SMT, <1>1, <1>5, <2>2
<1>6. CASE /\ ~isPrime(n)
           /\ ~isFibonacci(n)
           /\ ~isPerfectSquare(n)
           /\ n % 10 = 7
  <2>1. \A j \in 1 .. 4 - 1 : ~Has(n)[j]
    BY SMT, <1>2, <1>6
  <2>2. First(Has(n)) = 4
    BY <1>2, <1>6, <2>1, FirstIs
  <2> QED
    BY SMT, <1>1, <1>6, <2>2
<1>7. CASE /\ ~isPrime(n)
           /\ ~isFibonacci(n)
           /\ ~isPerfectSquare(n)
           /\ n % 10 # 7
           /\ isPalindrome(n)
  <2>1. \A j \in 1 .. 5 - 1 : ~Has(n)[j]
    BY SMT, <1>2, <1>7
  <2>2. First(Has(n)) = 5
    BY <1>2, <1>7, <2>1, FirstIs
  <2> QED
    BY SMT, <1>1, <1>7, <2>2
<1>8. CASE /\ ~isPrime(n)
           /\ ~isFibonacci(n)
           /\ ~isPerfectSquare(n)
           /\ n % 10 # 7
           /\ ~isPalindrome(n)
           /\ n % 2 = 0
  <2>1. \A j \in 1 .. 6 - 1 : ~Has(n)[j]
    BY SMT, <1>2, <1>8
  <2>2. First(Has(n)) = 6
    BY <1>2, <1>8, <2>1, FirstIs
  <2> QED
    BY SMT, <1>1, <1>8, <2>2
<1>9. CASE /\ ~isPrime(n)
           /\ ~isFibonacci(n)
           /\ ~isPerfectSquare(n)
           /\ n % 10 # 7
           /\ ~isPalindrome(n)
           /\ n % 2 # 0
  <2>1. \A j \in 1 .. 7 - 1 : ~Has(n)[j]
    BY SMT, <1>2, <1>9
  <2>2. First(Has(n)) = 7
    BY <1>2, <1>9, <2>1, FirstIs
  <2> QED
    BY SMT, <1>1, <1>9, <2>2
<1> QED
  BY <1>3, <1>4, <1>5, <1>6, <1>7, <1>8, <1>9, Zenon

\* The values drawn, and those of a pattern.
Value == 0 .. 999

Class(p) == {n \in Value : PatternOf(n) = p}

\* What a value is.
LEMMA ValueIs ==
  /\ \A n \in Value : n \in Nat /\ n <= 999
  /\ \A n \in Nat : n <= 999 => n \in Value
<1>1. PICK m \in Nat : m = 999
  OBVIOUS
<1>2. Value = 0 .. m
  BY SMT, <1>1 DEF Value
<1>3. /\ \A n \in Value : n \in Nat /\ n <= m
      /\ \A n \in Nat : n <= m => n \in Value
  BY Zenon, <1>2, UpToIs
<1> QED
  BY SMT, <1>1, <1>3

\* The primes below 1000.
Primes == <<
  2, 3, 5, 7, 11, 13, 17, 19, 23, 29, 31, 37, 41, 43, 47, 53, 59, 61, 67, 71,
  73, 79, 83, 89, 97, 101, 103, 107, 109, 113, 127, 131, 137, 139, 149, 151,
  157, 163, 167, 173, 179, 181, 191, 193, 197, 199, 211, 223, 227, 229, 233,
  239, 241, 251, 257, 263, 269, 271, 277, 281, 283, 293, 307, 311, 313, 317,
  331, 337, 347, 349, 353, 359, 367, 373, 379, 383, 389, 397, 401, 409, 419,
  421, 431, 433, 439, 443, 449, 457, 461, 463, 467, 479, 487, 491, 499, 503,
  509, 521, 523, 541, 547, 557, 563, 569, 571, 577, 587, 593, 599, 601, 607,
  613, 617, 619, 631, 641, 643, 647, 653, 659, 661, 673, 677, 683, 691, 701,
  709, 719, 727, 733, 739, 743, 751, 757, 761, 769, 773, 787, 797, 809, 811,
  821, 823, 827, 829, 839, 853, 857, 859, 863, 877, 881, 883, 887, 907, 911,
  919, 929, 937, 941, 947, 953, 967, 971, 977, 983, 991, 997>>

\* The Fibonacci numbers below 1000 that are not prime.
Fibonaccis == <<
  0, 1, 8, 21, 34, 55, 144, 377, 610, 987>>

\* The squares below 1000 that are neither.
Squares == <<
  4, 9, 16, 25, 36, 49, 64, 81, 100, 121, 169, 196, 225, 256, 289, 324, 361,
  400, 441, 484, 529, 576, 625, 676, 729, 784, 841, 900, 961>>

\* The numbers that end in 7 and are nothing before.
Sevens == <<
  27, 57, 77, 87, 117, 147, 177, 187, 207, 217, 237, 247, 267, 287, 297, 327,
  357, 387, 407, 417, 427, 437, 447, 477, 497, 507, 517, 527, 537, 567, 597,
  627, 637, 657, 667, 687, 697, 707, 717, 737, 747, 767, 777, 807, 817, 837,
  847, 867, 897, 917, 927, 957>>

\* The palindromes that are nothing before.
Palindromes == <<
  6, 22, 33, 44, 66, 88, 99, 111, 141, 161, 171, 202, 212, 222, 232, 242, 252,
  262, 272, 282, 292, 303, 323, 333, 343, 363, 393, 404, 414, 424, 434, 444,
  454, 464, 474, 494, 505, 515, 525, 535, 545, 555, 565, 575, 585, 595, 606,
  616, 626, 636, 646, 656, 666, 686, 696, 808, 818, 828, 838, 848, 858, 868,
  878, 888, 898, 909, 939, 949, 959, 969, 979, 989, 999>>

\* The even numbers among them all.
EarlierEvens == <<
  0, 2, 4, 6, 8, 16, 22, 34, 36, 44, 64, 66, 88, 100, 144, 196, 202, 212, 222,
  232, 242, 252, 256, 262, 272, 282, 292, 324, 400, 404, 414, 424, 434, 444,
  454, 464, 474, 484, 494, 576, 606, 610, 616, 626, 636, 646, 656, 666, 676,
  686, 696, 784, 808, 818, 828, 838, 848, 858, 868, 878, 888, 898, 900>>

\* A table in order without repetitions counts the set it lists.
LEMMA ListedCount ==
  ASSUME NEW N \in Nat, NEW T, NEW S,
         \A i \in 1 .. N : T[i] \in S /\ T[i] \in Int,
         \A n \in S : \E i \in 1 .. N : T[i] = n,
         \A i, j \in 1 .. N : i < j => T[i] < T[j]
  PROVE  IsFiniteSet(S) /\ Cardinality(S) = N
<1>1. \A i, j \in 1 .. N : T[i] = T[j] => i = j
  BY SMT
<1> QED
  BY <1>1, TableCount, Zenon

\* So does one of values of a pattern, when it lists them all.
LEMMA ClassCount ==
  ASSUME NEW N \in Nat, NEW T, NEW p,
         \A n \in Value : PatternOf(n) = p => \E i \in 1 .. N : T[i] = n,
         \A i \in 1 .. N : T[i] \in Value /\ PatternOf(T[i]) = p,
         \A i, j \in 1 .. N : i < j => T[i] < T[j]
  PROVE  IsFiniteSet(Class(p)) /\ Cardinality(Class(p)) = N
<1>1. \A i \in 1 .. N : T[i] \in Int
  <2>1. \A n \in Value : n \in Int
    BY SMT, ValueIs
  <2> QED
    BY <2>1, ZenonT(40)
<1>2. ASSUME NEW i \in 1 .. N
      PROVE  T[i] \in Class(p)
  <2>1. PICK n \in Value : n = T[i] /\ PatternOf(n) = p
    OBVIOUS
  <2> QED
    BY <2>1 DEF Class
<1>3. \A n \in Class(p) : \E i \in 1 .. N : T[i] = n
  BY Zenon DEF Class
<1> QED
  BY <1>1, <1>2, <1>3, ListedCount, Zenon

\* The five patterns counted by their tables.
LEMMA PrimesCount == IsFiniteSet(Class(0)) /\ Cardinality(Class(0)) = 168
<1>1. PICK N \in Nat, p \in Nat : N = 168 /\ p = 0
  OBVIOUS
<1>2. ASSUME NEW n \in Value, PatternOf(n) = p
      PROVE  \E i \in 1 .. N : Primes[i] = n
  <2>1. isPrime(n)
    BY SMT, <1>1, <1>2, PatternIs DEF Value
  <2> QED
    BY SMTT(60), <1>1, <2>1 DEF Primes, Value, isPrime
<1>3. ASSUME NEW i \in 1 .. N
      PROVE  Primes[i] \in Value /\ PatternOf(Primes[i]) = p
  <2>1. PICK n : n = Primes[i]
    OBVIOUS
  <2>2. n \in Value /\ isPrime(n)
    BY SMTT(60), <1>1, <2>1, ValueIs DEF Primes, isPrime
  <2>3. PatternOf(n) = p
    BY SMT, <1>1, <2>2, PatternIs DEF Value
  <2> QED
    BY <2>1, <2>2, <2>3
<1>4. \A i, j \in 1 .. N : i < j => Primes[i] < Primes[j]
  BY SMTT(60), <1>1 DEF Primes
<1>5. IsFiniteSet(Class(p)) /\ Cardinality(Class(p)) = N
  BY <1>2, <1>3, <1>4, ClassCount, Zenon
<1> QED
  BY <1>1, <1>5

LEMMA FibonaccisCount == IsFiniteSet(Class(1)) /\ Cardinality(Class(1)) = 10
<1>1. PICK N \in Nat, p \in Nat : N = 10 /\ p = 1
  OBVIOUS
<1>2. ASSUME NEW n \in Value, PatternOf(n) = p
      PROVE  \E i \in 1 .. N : Fibonaccis[i] = n
  <2>1. isFibonacci(n) /\ ~isPrime(n)
    BY SMT, <1>1, <1>2, PatternIs DEF Value
  <2> QED
    BY SMTT(60), <1>1, <2>1 DEF Fibonaccis, Value, isPrime, isFibonacci
<1>3. ASSUME NEW i \in 1 .. N
      PROVE  Fibonaccis[i] \in Value /\ PatternOf(Fibonaccis[i]) = p
  <2>1. PICK n : n = Fibonaccis[i]
    OBVIOUS
  <2>2. n \in Value /\ isFibonacci(n) /\ ~isPrime(n)
    BY SMTT(60), <1>1, <2>1 DEF Fibonaccis, Value, isPrime, isFibonacci
  <2>3. PatternOf(n) = p
    BY SMT, <1>1, <2>2, PatternIs DEF Value
  <2> QED
    BY <2>1, <2>2, <2>3
<1>4. \A i, j \in 1 .. N : i < j => Fibonaccis[i] < Fibonaccis[j]
  BY SMTT(60), <1>1 DEF Fibonaccis
<1>5. IsFiniteSet(Class(p)) /\ Cardinality(Class(p)) = N
  BY <1>2, <1>3, <1>4, ClassCount, Zenon
<1> QED
  BY <1>1, <1>5

LEMMA SquaresCount == IsFiniteSet(Class(2)) /\ Cardinality(Class(2)) = 29
<1>1. PICK N \in Nat, p \in Nat : N = 29 /\ p = 2
  OBVIOUS
<1>2. ASSUME NEW n \in Value, PatternOf(n) = p
      PROVE  \E i \in 1 .. N : Squares[i] = n
  <2>1. isPerfectSquare(n) /\ ~isPrime(n) /\ ~isFibonacci(n)
    BY SMT, <1>1, <1>2, PatternIs DEF Value
  <2> QED
    BY SMTT(60), <1>1, <2>1 DEF Squares, Value, isPrime, isFibonacci, isPerfectSquare
<1>3. ASSUME NEW i \in 1 .. N
      PROVE  Squares[i] \in Value /\ PatternOf(Squares[i]) = p
  <2>1. PICK n : n = Squares[i]
    OBVIOUS
  <2>2. n \in Value /\ isPerfectSquare(n) /\ ~isPrime(n) /\ ~isFibonacci(n)
    BY SMTT(60), <1>1, <2>1, ValueIs DEF Squares, isPrime, isFibonacci, isPerfectSquare
  <2>3. PatternOf(n) = p
    BY SMT, <1>1, <2>2, PatternIs DEF Value
  <2> QED
    BY <2>1, <2>2, <2>3
<1>4. \A i, j \in 1 .. N : i < j => Squares[i] < Squares[j]
  BY SMTT(60), <1>1 DEF Squares
<1>5. IsFiniteSet(Class(p)) /\ Cardinality(Class(p)) = N
  BY <1>2, <1>3, <1>4, ClassCount, Zenon
<1> QED
  BY <1>1, <1>5

LEMMA SevensCount == IsFiniteSet(Class(3)) /\ Cardinality(Class(3)) = 52
<1>1. PICK N \in Nat, p \in Nat : N = 52 /\ p = 3
  OBVIOUS
<1>2. ASSUME NEW n \in Value, PatternOf(n) = p
      PROVE  \E i \in 1 .. N : Sevens[i] = n
  <2>1. n % 10 = 7 /\ ~isPrime(n) /\ ~isFibonacci(n) /\ ~isPerfectSquare(n)
    BY SMT, <1>1, <1>2, PatternIs DEF Value
  <2> QED
    BY SMTT(60), <1>1, <2>1 DEF Sevens, Value, isPrime, isFibonacci, isPerfectSquare
<1>3. ASSUME NEW i \in 1 .. N
      PROVE  Sevens[i] \in Value /\ PatternOf(Sevens[i]) = p
  <2>1. PICK n : n = Sevens[i]
    OBVIOUS
  <2>2. n \in Value /\ n % 10 = 7 /\ ~isPrime(n) /\ ~isFibonacci(n) /\ ~isPerfectSquare(n)
    BY SMTT(60), <1>1, <2>1, ValueIs DEF Sevens, isPrime, isFibonacci, isPerfectSquare
  <2>3. PatternOf(n) = p
    BY SMT, <1>1, <2>2, PatternIs DEF Value
  <2> QED
    BY <2>1, <2>2, <2>3
<1>4. \A i, j \in 1 .. N : i < j => Sevens[i] < Sevens[j]
  BY SMTT(60), <1>1 DEF Sevens
<1>5. IsFiniteSet(Class(p)) /\ Cardinality(Class(p)) = N
  BY <1>2, <1>3, <1>4, ClassCount, Zenon
<1> QED
  BY <1>1, <1>5

LEMMA PalindromesCount == IsFiniteSet(Class(4)) /\ Cardinality(Class(4)) = 73
<1>1. PICK N \in Nat, p \in Nat : N = 73 /\ p = 4
  OBVIOUS
<1>2. ASSUME NEW n \in Value, PatternOf(n) = p
      PROVE  \E i \in 1 .. N : Palindromes[i] = n
  <2>1. isPalindrome(n) /\ ~isPrime(n) /\ ~isFibonacci(n) /\ ~isPerfectSquare(n) /\ n % 10 # 7
    BY SMT, <1>1, <1>2, PatternIs DEF Value
  <2> QED
    BY SMTT(60), <1>1, <2>1 DEF Palindromes, Value, isPrime, isFibonacci, isPerfectSquare, isPalindrome
<1>3. ASSUME NEW i \in 1 .. N
      PROVE  Palindromes[i] \in Value /\ PatternOf(Palindromes[i]) = p
  <2>1. PICK n : n = Palindromes[i]
    OBVIOUS
  <2>2. n \in Value /\ isPalindrome(n) /\ ~isPrime(n) /\ ~isFibonacci(n) /\ ~isPerfectSquare(n) /\ n % 10 # 7
    BY SMTT(60), <1>1, <2>1, ValueIs DEF Palindromes, isPrime, isFibonacci, isPerfectSquare, isPalindrome
  <2>3. PatternOf(n) = p
    BY SMT, <1>1, <2>2, PatternIs DEF Value
  <2> QED
    BY <2>1, <2>2, <2>3
<1>4. \A i, j \in 1 .. N : i < j => Palindromes[i] < Palindromes[j]
  BY SMTT(60), <1>1 DEF Palindromes
<1>5. IsFiniteSet(Class(p)) /\ Cardinality(Class(p)) = N
  BY <1>2, <1>3, <1>4, ClassCount, Zenon
<1> QED
  BY <1>1, <1>5

\* The even values, and those of a pattern before theirs.
Evens == {n \in Value : n % 2 = 0}
Earlier == {n \in Evens : PatternOf(n) # 5}

LEMMA EvensCount == IsFiniteSet(Evens) /\ Cardinality(Evens) = 500
<1>1. PICK N \in Nat : N = 500
  OBVIOUS
<1> DEFINE T == [i \in 1 .. N |-> 2 * (i - 1)]
<1>2. \A i \in 1 .. N : T[i] \in Evens /\ T[i] \in Int
  BY SMT, <1>1, ValueIs DEF Evens
<1>3. \A n \in Evens : \E i \in 1 .. N : T[i] = n
  <2> SUFFICES ASSUME NEW n \in Evens PROVE \E i \in 1 .. N : T[i] = n
    OBVIOUS
  <2>1. n \in Value /\ n = 2 * (n \div 2)
    BY SMT DEF Evens, Value
  <2>2. (n \div 2) + 1 \in 1 .. N /\ T[(n \div 2) + 1] = n
    BY SMT, <1>1, <2>1 DEF Value
  <2> QED
    BY <2>2, Zenon
<1>4. \A i, j \in 1 .. N : i < j => T[i] < T[j]
  BY SMT
<1> HIDE DEF T
<1>5. IsFiniteSet(Evens) /\ Cardinality(Evens) = N
  BY <1>2, <1>3, <1>4, ListedCount, Zenon
<1> QED
  BY <1>1, <1>5

LEMMA EarlierCount == IsFiniteSet(Earlier) /\ Cardinality(Earlier) = 63
<1>1. PICK N \in Nat : N = 63
  OBVIOUS
<1>2. ASSUME NEW n \in Earlier
      PROVE  \E i \in 1 .. N : EarlierEvens[i] = n
  <2>1. n \in Value /\ n % 2 = 0 /\ PatternOf(n) # 5
    BY Zenon DEF Earlier, Evens
  <2>2. isPrime(n) \/ isFibonacci(n) \/ isPerfectSquare(n) \/ isPalindrome(n)
    BY SMT, <2>1, PatternIs DEF Value
  <2> QED
    BY SMTT(60), <1>1, <2>1, <2>2
    DEF EarlierEvens, Value, isPrime, isFibonacci, isPerfectSquare, isPalindrome
<1>3. ASSUME NEW i \in 1 .. N
      PROVE  EarlierEvens[i] \in Earlier /\ EarlierEvens[i] \in Int
  <2>1. PICK n : n = EarlierEvens[i]
    OBVIOUS
  <2>2. n \in Value /\ n % 2 = 0
        /\ (isPrime(n) \/ isFibonacci(n) \/ isPerfectSquare(n) \/ isPalindrome(n))
    BY SMTT(60), <1>1, <2>1, ValueIs
    DEF EarlierEvens, isPrime, isFibonacci, isPerfectSquare, isPalindrome
  <2>3. PatternOf(n) # 5 /\ n \in Int
    BY SMT, <2>2, PatternIs DEF Value
  <2> QED
    BY <2>1, <2>2, <2>3, Zenon DEF Earlier, Evens
<1>4. \A i, j \in 1 .. N : i < j => EarlierEvens[i] < EarlierEvens[j]
  BY SMTT(60), <1>1 DEF EarlierEvens
<1>5. IsFiniteSet(Earlier) /\ Cardinality(Earlier) = N
  BY <1>2, <1>3, <1>4, ListedCount, Zenon
<1> QED
  BY <1>1, <1>5

\* Even numbers that nothing before them takes.
LEMMA EvensLeftCount == IsFiniteSet(Class(5)) /\ Cardinality(Class(5)) = 437
<1>1. PICK p \in Nat : p = 5
  OBVIOUS
<1>2. \A n \in Value : PatternOf(n) = p => n % 2 = 0
  BY SMT, <1>1, PatternIs DEF Value
<1>3. Earlier = {n \in Evens : PatternOf(n) # p}
  BY <1>1 DEF Earlier
<1>4. Class(p) = Evens \ Earlier
  BY <1>2, <1>3, Zenon DEF Class, Evens
<1>5. Evens \cap Earlier = Earlier
  BY Zenon DEF Earlier
<1>6. /\ IsFiniteSet(Class(p))
      /\ Cardinality(Class(p)) = Cardinality(Evens) - Cardinality(Earlier)
  BY <1>4, <1>5, EvensCount, FS_Difference
<1> QED
  BY SMT, <1>1, <1>6, EvensCount, EarlierCount

LEMMA ValuesCount == IsFiniteSet(Value) /\ Cardinality(Value) = 1000
<1>1. PICK N \in Nat : N = 999
  OBVIOUS
<1>2. IsFiniteSet(0 .. N) /\ Cardinality(0 .. N) = N + 1
  BY UpToCount
<1>3. Value = 0 .. N
  BY SMT, <1>1 DEF Value
<1> QED
  BY SMT, <1>1, <1>2, <1>3

\* What no other pattern takes is left to the last.
LEMMA RestCount == IsFiniteSet(Class(6)) /\ Cardinality(Class(6)) = 231
<1> DEFINE A == Class(0) \cup Class(1)
           B == A \cup Class(2)
           C == B \cup Class(3)
           D == C \cup Class(4)
           E == D \cup Class(5)
<1>1. \A n \in Value : PatternOf(n) \in 0 .. 6
  BY SMT, PatternIs DEF Value
<1>2. Class(6) = Value \ E
  BY SMT, <1>1 DEF Class
<1>3. Value \cap E = E
  BY SMT DEF Class
<1>4. /\ Class(0) \cap Class(1) = {}
      /\ A \cap Class(2) = {}
      /\ B \cap Class(3) = {}
      /\ C \cap Class(4) = {}
      /\ D \cap Class(5) = {}
  BY SMT DEF Class
<1> HIDE DEF A
<1>5. IsFiniteSet(A) /\ Cardinality(A) = Cardinality(Class(0)) + Cardinality(Class(1))
  BY <1>4, PrimesCount, FibonaccisCount, DisjointCount DEF A
<1> HIDE DEF B
<1>6. IsFiniteSet(B) /\ Cardinality(B) = Cardinality(A) + Cardinality(Class(2))
  BY <1>4, <1>5, SquaresCount, DisjointCount DEF B
<1> HIDE DEF C
<1>7. IsFiniteSet(C) /\ Cardinality(C) = Cardinality(B) + Cardinality(Class(3))
  BY <1>4, <1>6, SevensCount, DisjointCount DEF C
<1> HIDE DEF D
<1>8. IsFiniteSet(D) /\ Cardinality(D) = Cardinality(C) + Cardinality(Class(4))
  BY <1>4, <1>7, PalindromesCount, DisjointCount DEF D
<1> HIDE DEF E
<1>9. IsFiniteSet(E) /\ Cardinality(E) = Cardinality(D) + Cardinality(Class(5))
  BY <1>4, <1>8, EvensLeftCount, DisjointCount DEF E
<1>10. Cardinality(E) = 769
  BY SMT, <1>5, <1>6, <1>7, <1>8, <1>9, PrimesCount, FibonaccisCount, SquaresCount,
     SevensCount, PalindromesCount, EvensLeftCount
<1>11. /\ IsFiniteSet(Class(6))
       /\ Cardinality(Class(6)) = Cardinality(Value) - Cardinality(E)
  BY <1>2, <1>3, ValuesCount, FS_Difference
<1> QED
  BY SMT, <1>10, <1>11, ValuesCount


\* A pattern wins on its values but 0, which is one of the Fibonacci numbers'.
LEMMA PatternWins ==
  ASSUME NEW e \in Account
  PROVE  Counted("PATTERN_OF_DAY", e)
<1> DEFINE t == "PATTERN_OF_DAY"
           Named(n) == [pattern_id |-> PatternOf(n), matched_value |-> n]
           g == [n \in Value |-> Named(n)]
<1>1. PICK kind \in Nat, p \in Nat : kind = e.kind /\ p = e.a
  BY AccountFields
<1> DEFINE V == Class(p) \ {0}
           h == [n \in V |-> Named(n)]
<1>2. buildOutcomeForMarket(t) = PatternOutcomes
  BY SMT DEF buildOutcomeForMarket
<1>3. PatternOutcomes = {Named(n) : n \in Value}
  BY DEF PatternOutcomes, Value
<1>4. \A n : Named(n).pattern_id = PatternOf(n) /\ Named(n).matched_value = n
  OBVIOUS
<1>5. \A m, n : Named(m) = Named(n) => m = n
  BY SMT
<1>6. \A o : evaluate_winner(t, e, o) <=> kind = 5 /\ p = o.pattern_id /\ o.matched_value > 0
  BY SMT, <1>1 DEF evaluate_winner, Numeric
<1>7. Den(t) = 1000 /\ Num(t, e) = PatternCounts[IF p < 7 THEN p ELSE 6]
  BY SMT, <1>1 DEF Den, Num, PricedPattern
<1>8. Built(t, e) => kind = 5 /\ p \in 0 .. 6
  BY SMT, <1>1 DEF Built
<1> HIDE DEF Named, t
<1>9. Cardinality(PatternOutcomes) = 1000
  <2>1. g \in [Value -> PatternOutcomes]
    BY <1>3, Zenon
  <2>2. \A x, y \in Value : g[x] = g[y] => x = y
    BY <1>5, Zenon
  <2>3. \A x \in PatternOutcomes : \E n \in Value : g[n] = x
    BY <1>3, Zenon
  <2> HIDE DEF g
  <2>4. Cardinality(PatternOutcomes) = Cardinality(Value)
    BY <2>1, <2>2, <2>3, ValuesCount, SameCount
  <2> QED
    BY <2>4, ValuesCount
<1>10. PICK w \in Nat, num \in Nat : w = Cardinality(Wins(t, e)) /\ num = Num(t, e) /\ 10 <= num
  <2>1. IsFiniteSet(PatternOutcomes)
    <3>1. g \in [Value -> PatternOutcomes]
      BY <1>3, Zenon
    <3>2. \A x, y \in Value : g[x] = g[y] => x = y
      BY <1>5, Zenon
    <3>3. \A x \in PatternOutcomes : \E n \in Value : g[n] = x
      BY <1>3, Zenon
    <3> HIDE DEF g
    <3> QED
      BY <3>1, <3>2, <3>3, ValuesCount, SameCount
  <2>2. Wins(t, e) \subseteq PatternOutcomes
    BY <1>2 DEF Wins
  <2>3. Cardinality(Wins(t, e)) \in Nat
    BY <2>1, <2>2, FS_Subset, FS_CardinalityType
  <2>4. PICK q \in 0 .. 6 : q = IF p < 7 THEN p ELSE 6
    BY SMT
  <2>5. PatternCounts[q] \in 10 .. 437
    BY <2>4, PatternCountsType
  <2> QED
    BY SMTT(30), <1>7, <2>3, <2>4, <2>5
<1>11. CASE kind = 5 /\ p \in 0 .. 6
  <2>1. \A n \in Value : evaluate_winner(t, e, Named(n)) <=> n \in V
    <3>1. \A n \in Value : n > 0 <=> n # 0
      BY SMT DEF Value
    <3>2. \A n \in Value : n \in V <=> PatternOf(n) = p /\ n # 0
      BY DEF Class
    <3> QED
      BY <1>4, <1>6, <1>11, <3>1, <3>2
  <2>2. Wins(t, e) = {Named(n) : n \in V}
    <3>1. V \subseteq Value
      BY DEF Class
    <3>2. Wins(t, e) = {o \in PatternOutcomes : evaluate_winner(t, e, o)}
      BY <1>2 DEF Wins
    <3> HIDE DEF V
    <3> QED
      BY <1>3, <2>1, <3>1, <3>2
  <2>3. IsFiniteSet(Class(p)) /\ Cardinality(Class(p)) = PatternCounts[p]
    BY SMT, <1>11, Tables, PrimesCount, FibonaccisCount, SquaresCount, SevensCount,
       PalindromesCount, EvensLeftCount, RestCount
  <2>4. IsFiniteSet(V) /\ Cardinality(V) = IF p = 1 THEN 9 ELSE PatternCounts[p]
    <3>1. 0 \in Class(p) <=> p = 1
      <4>1. PatternOf(0) = 1
        BY SMT, PatternIs DEF isPrime, isFibonacci
      <4> QED
        BY SMT, <4>1 DEF Class, Value
    <3>2. /\ IsFiniteSet(V)
          /\ Cardinality(V) = IF 0 \in Class(p) THEN Cardinality(Class(p)) - 1
                              ELSE Cardinality(Class(p))
      BY <2>3, FS_RemoveElement
    <3> QED
      BY SMT, <2>3, <3>1, <3>2, Tables
  <2>5. w = Cardinality(V)
    <3> DEFINE W == {Named(n) : n \in V}
    <3>1. h \in [V -> W]
      BY Zenon
    <3>2. \A x, y \in V : h[x] = h[y] => x = y
      BY <1>5, Zenon
    <3>3. \A x \in W : \E n \in V : h[n] = x
      BY Zenon
    <3> HIDE DEF h, V, W
    <3>4. Cardinality(W) = Cardinality(V)
      BY <2>4, <3>1, <3>2, <3>3, SameCount
    <3> QED
      BY <1>10, <2>2, <3>4 DEF W
  <2>6. num = PatternCounts[p]
    <3>1. p < 7
      BY SMT, <1>11
    <3> QED
      BY <1>7, <1>10, <3>1
  <2>7. w <= num /\ (w = num \/ p = 1)
    <3> HIDE DEF V
    <3> QED
      BY SMT, <1>10, <2>4, <2>5, <2>6
  <2> QED
    BY <1>1, <1>2, <1>7, <1>9, <1>10, <2>7, ZenonT(60) DEF Counted, t
<1>12. CASE ~(kind = 5 /\ p \in 0 .. 6)
  <2>1. \A n \in Value : ~evaluate_winner(t, e, Named(n))
    <3>1. \A n \in Value : PatternOf(n) \in 0 .. 6
      BY SMT, PatternIs DEF Value
    <3> QED
      BY <1>4, <1>6, <1>12, <3>1
  <2>2. Wins(t, e) = {}
    BY <1>2, <1>3, <2>1 DEF Wins
  <2>3. w = 0
    BY <1>10, <2>2, FS_EmptySet
  <2>4. w <= num
    BY SMT, <2>3
  <2>5. ~Built(t, e)
    BY <1>8, <1>12
  <2>6. Cardinality(buildOutcomeForMarket(t)) = Den(t)
    BY <1>2, <1>7, <1>9
  <2> QED
    BY <1>10, <2>4, <2>5, <2>6, Zenon DEF Counted, t
<1> QED
  BY <1>11, <1>12 DEF t

\* The chances the odds are made of are those of the outcomes.
LEMMA ChancesCounted ==
  ASSUME NEW t \in Uniform, NEW e \in Account, Priced(t, e),
         t \in DOMAIN PricedKind => e.kind = PricedKind[t]
  PROVE  Counted(t, e)
<1>1. /\ t = "EVEN_ODD" => e.kind = 2
      /\ t = "LAST_DIGIT" => e.kind = 3
      /\ t = "MODULO_THREE" => e.kind = 4
      /\ t = "JACKPOT" => e.kind = 1
  BY SMT DEF PricedKind, Numeric
<1> QED
  BY <1>1, RangeWins, ParityWins, DigitWins, RemainderWins, JackpotWins, ShapeWins,
     PatternWins, Zenon DEF Uniform, Numeric

\* What one staked on each of den outcomes is less the edge, in hundredths.
LessEdge(den, edge) == (den * 1000000) \div (10000 + edge)

\* Odds of num chances of den, paid num times of den, are what was staked less
\* the edge, but for their rounding.
LEMMA FairOdds ==
  ASSUME NEW num, NEW den, Ratio(num, den), NEW edge \in Edges
  PROVE  /\ num \in Nat /\ Odds(num, den, edge) \in Nat
         /\ LessEdge(den, edge) \in Nat
         /\ num * Odds(num, den, edge) <= LessEdge(den, edge)
         /\ num * (Odds(num, den, edge) + 1) > LessEdge(den, edge)
<1> DEFINE a == den * 1000000
           b == 10000 + edge
<1>1. num \in Nat \ {0} /\ a \in Nat /\ b \in Nat \ {0}
  <2>1. num \in Nat \ {0} /\ den \in 1 .. 1000 /\ edge \in 0 .. 10000
    BY SMTT(60), EdgesBounded DEF Ratio
  <2> QED
    BY SMTT(30), <2>1
<1>2. Odds(num, den, edge) = a \div (num * b)
  BY SMT DEF Odds
<1>3. Odds(num, den, edge) \in Nat
  BY OddsType, FieldBound
<1> HIDE DEF a, b
<1>4. /\ num * (a \div (num * b)) <= a \div b
      /\ num * ((a \div (num * b)) + 1) > a \div b
  BY <1>1, QuotientTimes
<1>5. /\ num * Odds(num, den, edge) <= a \div b
      /\ num * (Odds(num, den, edge) + 1) > a \div b
  BY <1>2, <1>4, Zenon
<1>6. a \div b \in Nat
  BY <1>1, Quotient
<1>7. num \in Nat
  BY <1>1
<1> QED
  BY SMT, <1>3, <1>5, <1>6, <1>7 DEF a, b, LessEdge

\* compute_odds_bps prices a bet at its chances, whatever its fields hold: over
\* all the outcomes buildOutcomeForMarket may draw, those evaluate_winner pays
\* return at most what was staked less the edge of the house, provided the kind
\* is the one its market is priced for, which nothing but the server sees to.
\* What the server builds for the page returns no less either, but for the
\* rounding of the odds and the Fibonacci number that is not paid.
THEOREM PriceIsFair == Spec => []FairPrice
<1>1. RulesInv => FairPrice
  <2> DEFINE drawn == buildOutcomeForMarket(market.type)
             won == {o \in drawn : evaluate_winner(market.type, bet.selection, o)}
             wins == Cardinality(won)
             less_edge == LessEdge(Cardinality(drawn), bet.edge)
  <2> SUFFICES ASSUME RulesInv, stage = "placed", market.type \in Uniform
               PROVE  /\ wins * bet.odds <= less_edge \/ Mispriced
                      /\ ByServer => \/ wins * (bet.odds + 1) > less_edge
                                     \/ market.type = "PATTERN_OF_DAY" /\ selection.patternId = 1
                                     \/ ~ByPage /\ wins = 0
    BY SMT DEF FairPrice, LessEdge
  <2>1. PICK t, e, edge : t = market.type /\ e = bet.selection /\ edge = bet.edge
    OBVIOUS
  <2>2. stage \in After
    BY DEF After
  <2>3. /\ bet \in BetAccount /\ WidthFits(t, e) /\ t \in AllMarkets
        /\ bet.odds = compute_odds_bps(t, e, edge)
    BY <2>1, <2>2, TypeFacts, Zenon DEF RulesInv, AccountKept
  <2>4. e \in Account /\ edge \in Edges
    BY <2>1, <2>3, Zenon DEF BetAccount
  <2>5. wins = Cardinality(Wins(t, e))
    BY <2>1 DEF Wins
  <2>6. ASSUME ByServer
        PROVE  /\ Built(t, e) /\ Priced(t, e)
               /\ ByPage => BuiltForPage(t, e)
               /\ t = "PATTERN_OF_DAY" => e.a = selection.patternId
               /\ ~Mispriced
    <3>1. Encodes(t, selection) /\ e = OnChain(t, selection)
      BY <2>1, <2>2, <2>6, ServerBuilt
    <3>2. Built(t, e) /\ Priced(t, e)
      BY <2>3, <2>4, <3>1, BuiltPriced DEF Encodes
    <3>3. ByPage => BuiltForPage(t, e)
      BY <2>1, <3>1, Zenon DEF Encodes, ByPage, RulesInv, SelectionKept
    <3>4. t = "PATTERN_OF_DAY" => e.a = selection.patternId
      BY <3>1, Zenon DEF Encodes
    <3>5. ~Mispriced
      BY SMT, <2>1, <3>2 DEF Mispriced, PricedKind, Built, Numeric
    <3> QED
      BY <3>2, <3>3, <3>4, <3>5
  <2>7. CASE Mispriced
    BY <2>6, <2>7
  <2>8. CASE ~Mispriced /\ Inverted(t, e)
    <3>1. ~ByServer
      BY <2>6, <2>8 DEF Priced
    <3>2. bet.odds = 0
      <4>1. e.a \in Nat /\ e.b \in Nat
        BY <2>4, AccountFields
      <4> QED
        BY SMT, <2>3, <2>8, <4>1 DEF compute_odds_bps, Inverted
    <3>3. wins * 0 <= less_edge
      <4>1. t = "PICK_RANGE"
        BY <2>8 DEF Inverted
      <4>2. Cardinality(drawn) = 100 /\ won = {}
        BY <2>1, <2>4, <2>8, <4>1, InvertedWins DEF Wins
      <4>3. less_edge \in Nat
        <5>1. Ratio(1, 100)
          BY SMT DEF Ratio
        <5>2. LessEdge(100, edge) \in Nat
          BY <2>4, <5>1, FairOdds
        <5> QED
          BY <2>1, <4>2, <5>2
      <4>4. wins = 0
        BY <4>2, FS_EmptySet
      <4> HIDE DEF wins, less_edge
      <4> QED
        BY SMT, <4>3, <4>4
    <3> QED
      BY <3>1, <3>2, <3>3
  <2>9. CASE ~Mispriced /\ Priced(t, e)
    <3>1. t \in DOMAIN PricedKind => e.kind = PricedKind[t]
      BY <2>1, <2>9 DEF Mispriced
    <3>2. Counted(t, e)
      BY <2>1, <2>4, <2>9, <3>1, ChancesCounted
    <3>3. Ratio(Num(t, e), Den(t))
      BY <2>3, <2>4, <2>9, RatioType
    <3>4. bet.odds = Odds(Num(t, e), Den(t), edge)
      BY <2>3, <2>4, <2>9, OddsOnChain
    <3>5. less_edge = LessEdge(Den(t), edge)
      BY <2>1, <3>2 DEF Counted
    <3>6. PICK w \in Nat, num \in Nat, odds \in Nat, staked \in Nat :
            /\ w = wins /\ num = Num(t, e) /\ odds = bet.odds /\ staked = less_edge
            /\ w <= num /\ num * odds <= staked /\ num * (odds + 1) > staked
      <4>1. wins \in Nat /\ wins <= Num(t, e)
        BY <2>5, <3>2 DEF Counted
      <4>2. /\ Num(t, e) \in Nat /\ bet.odds \in Nat /\ less_edge \in Nat
            /\ Num(t, e) * bet.odds <= less_edge /\ Num(t, e) * (bet.odds + 1) > less_edge
        BY <2>4, <3>3, <3>4, <3>5, FairOdds, Zenon
      <4> HIDE DEF wins, less_edge
      <4> QED
        BY <4>1, <4>2
    <3>7. w * odds <= staked
      <4>1. w * odds <= num * odds
        BY <3>6, TimesMonotone
      <4>2. w * odds \in Nat /\ num * odds \in Nat
        BY Times
      <4> QED
        BY SMT, <3>6, <4>1, <4>2
    <3>8. ASSUME ByServer
          PROVE  \/ w * (odds + 1) > staked
                 \/ market.type = "PATTERN_OF_DAY" /\ selection.patternId = 1
                 \/ ~ByPage /\ w = 0
      <4>1. \/ Cardinality(Wins(t, e)) = Num(t, e)
            \/ Cardinality(Wins(t, e)) = 0 /\ ~BuiltForPage(t, e)
            \/ t = "PATTERN_OF_DAY" /\ e.a = 1
        BY <2>6, <3>2, <3>8 DEF Counted
      <4>2. CASE w = num
        BY <3>6, <4>2
      <4>3. CASE w = 0 /\ ~BuiltForPage(t, e)
        BY <2>6, <3>8, <4>3
      <4>4. CASE t = "PATTERN_OF_DAY" /\ e.a = 1
        BY <2>1, <2>6, <3>8, <4>4
      <4> QED
        BY <2>5, <3>6, <4>1, <4>2, <4>3, <4>4
    <3> QED
      BY <3>6, <3>7, <3>8
  <2> QED
    BY <2>3, <2>7, <2>8, <2>9 DEF Priced
<1> QED
  BY <1>1, RulesInvariant, PTL

=============================================================================
