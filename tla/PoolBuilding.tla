---------------------------- MODULE PoolBuilding ----------------------------
(***************************************************************************)
(* buildPool of internal/solve: one liquidity entry of an auction becomes  *)
(* a pool, or is skipped.  Its loops range over Go maps, which visit their *)
(* keys in any order; a key that is looked up again (reserveOf) is found   *)
(* by strings.EqualFold, although duplicates were looked for by ToLower.   *)
(* The end of the module is how a pool is asked for a quote, up to the     *)
(* arithmetic of the three kinds.                                          *)
(*                                                                         *)
(* An entry is [kind, fee, gas, shape, tokens, amp, price, liquidity,      *)
(* tick, net]; shape says what JSON value tokens is: "map" (of spellings   *)
(* to [balance, scale]), "list" (of spellings) or "other".  Numbers are    *)
(* texts, net maps texts to texts, tick is NoTick when it was null.        *)
(***************************************************************************)
EXTENDS Decimals, FiniteSets

CONSTANTS
    ToLower, Fold,         \* of each spelling: its lower case, its EqualFold class
    Rank,                  \* sort.Strings order of lower-case spellings
    Entries,
    ReserveBits, LiquidityBits, GasBits, IndexBits,   \* 256, 128, 64, 32 in the code
    DefaultGas,            \* 90_000 in the code
    ScaleUnit,             \* 10^18 in the code
    maxStablePoolTokens, maxConcentratedTicks,        \* 64, 16_384 in the code
    MinTick, MaxTick, NoTick

(* What Go's decoder can hand to buildPool: maps of finitely many names,   *)
(* and texts.                                                              *)
EntryOk(e) ==
    /\ e.gas \in Seq(STRING) /\ IsFiniteSet(DOMAIN e.net)
    /\ e.shape = "map" => DOMAIN e.tokens \subseteq DOMAIN ToLower /\ IsFiniteSet(DOMAIN e.tokens)
    /\ e.shape = "list" => e.tokens \in Seq(DOMAIN ToLower)

ASSUME PoolBuildingAssumption ==
    /\ DOMAIN Fold = DOMAIN ToLower
    /\ \A x \in DOMAIN ToLower :
          ToLower[x] \in DOMAIN ToLower \cap DOMAIN Rank /\ ToLower[ToLower[x]] = ToLower[x]
    /\ \A x, y \in DOMAIN ToLower : ToLower[x] = ToLower[y] => Fold[x] = Fold[y]
    /\ \A x, y \in DOMAIN Rank : Rank[x] \in Int /\ (Rank[x] = Rank[y] => x = y)
    /\ DefaultGas \in Nat \ {0}
    /\ NoTick \notin MinTick .. MaxTick
    /\ \A e \in Entries : EntryOk(e)

VARIABLES
    entry,       \* the argument
    stage,       \* open, collect, look, ticks, built, skipped
    left,        \* keys the current loop has not visited
    addresses,   \* the lower-case addresses collected, then sorted
    rows,        \* [balance, scale] of the first addresses
    ticks        \* ticks in the order the loop met them

entryVars == <<entry, stage, left, addresses, rows, ticks>>

EntryInit ==
    /\ entry \in Entries
    /\ stage = "open" /\ left = {} /\ addresses = <<>> /\ rows = <<>> /\ ticks = <<>>

EqualFold(x, y) == Fold[x] = Fold[y]

(* sort.Slice: the elements of s with the smallest key first.              *)
Ordered(s, key) ==
    LET p == CHOOSE p \in Surjection(DOMAIN s, DOMAIN s) :
                \A i, j \in DOMAIN s : i < j => key[p[i]] <= key[p[j]]
    IN  [i \in DOMAIN s |-> s[p[i]]]

Skip == stage' = "skipped" /\ UNCHANGED <<entry, left, addresses, rows, ticks>>

GasOk == decimalDigits(entry.gas, 20) /\ Number(entry.gas) < 2 ^ GasBits

gas == IF Number(entry.gas) = 0 THEN DefaultGas ELSE Number(entry.gas)

CommonOk == Fee(entry.fee) # Refused /\ GasOk

MapOk ==
    /\ entry.shape = "map"
    /\ \/ entry.kind = "constantProduct" /\ Cardinality(DOMAIN entry.tokens) = 2
       \/ /\ entry.kind = "stable"
          /\ Cardinality(DOMAIN entry.tokens) \in 2 .. maxStablePoolTokens
          /\ ScaledDecimal(entry.amp, AmpPrecision) > 0

ListOk ==
    /\ entry.kind = "concentratedLiquidity" /\ entry.shape = "list"
    /\ Len(entry.tokens) = 2
    /\ ToLower[entry.tokens[1]] # ToLower[entry.tokens[2]]
    /\ Cardinality(DOMAIN entry.net) <= maxConcentratedTicks
    /\ parsePositiveUnsigned(entry.price, ReserveBits) > 0
    /\ parsePositiveUnsigned(entry.liquidity, LiquidityBits) > 0
    /\ entry.tick \in MinTick .. MaxTick

Refuse == stage = "open" /\ ~(CommonOk /\ (MapOk \/ ListOk)) /\ Skip

OpenMap ==
    /\ stage = "open" /\ CommonOk /\ MapOk
    /\ stage' = "collect" /\ left' = DOMAIN entry.tokens
    /\ UNCHANGED <<entry, addresses, rows, ticks>>

OpenList ==
    /\ stage = "open" /\ CommonOk /\ ListOk
    /\ stage' = "ticks" /\ left' = DOMAIN entry.net
    /\ addresses' = [i \in 1 .. 2 |-> ToLower[entry.tokens[i]]]
    /\ UNCHANGED <<entry, rows, ticks>>

-----------------------------------------------------------------------------
(***************************************************************************)
(* constantProduct and stable.                                             *)
(***************************************************************************)
Visit(key) == key \in left /\ left' = left \ {key}

(* Mutant: the address is not normalised before it is compared. *)
Collect_as_spelled(key) ==
    /\ stage = "collect" /\ Visit(key)
    /\ addresses' = Append(addresses, ToLower[key])
    /\ UNCHANGED <<entry, stage, rows, ticks>>

Collect(key) ==
    /\ stage = "collect" /\ Visit(key)
    /\ IF ToLower[key] \in Range(addresses)
       THEN stage' = "skipped" /\ UNCHANGED addresses
       ELSE addresses' = Append(addresses, ToLower[key]) /\ UNCHANGED stage
    /\ UNCHANGED <<entry, rows, ticks>>

SortAddresses ==
    /\ stage = "collect" /\ left = {}
    /\ addresses' = Ordered(addresses, [i \in DOMAIN addresses |-> Rank[addresses[i]]])
    /\ stage' = "look"
    /\ UNCHANGED <<entry, left, rows, ticks>>

(* The keys reserveOf may return the value of: the first that folds equal. *)
(* There is one, as the address is the lower case of a key.                *)
Found(address) == {key \in DOMAIN entry.tokens : EqualFold(key, address)}

RowOk(row) == row.balance > 0 /\ (entry.kind = "stable" => row.scale > 0)

Look ==
    /\ stage = "look" /\ Len(rows) < Len(addresses)
    /\ \E key \in Found(addresses[Len(rows) + 1]) :
         LET raw == entry.tokens[key]
             row == [balance |-> parsePositiveUnsigned(raw.balance, ReserveBits),
                     scale   |-> ScaledDecimal(raw.scale, ScaleUnit)]
         IN  IF RowOk(row)
             THEN rows' = Append(rows, row) /\ UNCHANGED <<entry, stage, left, addresses, ticks>>
             ELSE Skip

-----------------------------------------------------------------------------
(***************************************************************************)
(* concentratedLiquidity.                                                  *)
(***************************************************************************)
TickOk(index) == index.ok /\ index.value \in MinTick .. MaxTick

ReadTick(key) ==
    /\ stage = "ticks" /\ Visit(key)
    /\ LET index == ParseInt(key, IndexBits)
           net   == parseSignedInteger(entry.net[key], LiquidityBits)
       IN  IF \/ ~TickOk(index) \/ ~net.ok
              \/ \E i \in DOMAIN ticks : ticks[i].index = index.value
           THEN stage' = "skipped" /\ UNCHANGED ticks
           ELSE /\ ticks' = Append(ticks, [index |-> index.value, net |-> net.value])
                /\ UNCHANGED stage
    /\ UNCHANGED <<entry, addresses, rows>>

(* Mutant: the ticks stay in the order the map gave them. *)
SortTicks_missing(ts) == ts

SortTicks(ts) == Ordered(ts, [i \in DOMAIN ts |-> ts[i].index])

-----------------------------------------------------------------------------
Built ==
    /\ \/ stage = "look" /\ Len(rows) = Len(addresses)
       \/ stage = "ticks" /\ left = {}
    /\ stage' = "built"
    /\ ticks' = SortTicks(ticks)
    /\ UNCHANGED <<entry, left, addresses, rows>>

EntryNext ==
    \/ Refuse \/ OpenMap \/ OpenList \/ SortAddresses \/ Look \/ Built
    \/ \E key \in left : Collect(key) \/ ReadTick(key)

EntrySpec == EntryInit /\ [][EntryNext]_entryVars

-----------------------------------------------------------------------------
(***************************************************************************)
(* Asking a pool: AllTokens, SupportsPair, Other, and the sides each kind      *)
(* takes for tokenIn.  Tokens are asked for in any spelling.               *)
(***************************************************************************)
AllTokens ==
    IF entry.kind = "stable" \/ ~EqualFold(addresses[1], addresses[2])
    THEN addresses ELSE <<addresses[1]>>

SupportsPair(in, out) ==
    /\ ~EqualFold(in, out)
    /\ \A t \in {in, out} : \E i \in DOMAIN AllTokens : EqualFold(AllTokens[i], t)

NoToken == ""

Other(token) ==
    IF Len(AllTokens) # 2 THEN NoToken
    ELSE IF EqualFold(token, AllTokens[1]) THEN AllTokens[2]
    ELSE IF EqualFold(token, AllTokens[2]) THEN AllTokens[1] ELSE NoToken

(* Mutant: the second token is recognised by its spelling. *)
Sides_as_spelled(in, out) ==
    LET second == IF entry.kind = "constantProduct" THEN in = addresses[2]
                  ELSE EqualFold(in, addresses[2])
    IN  IF entry.kind = "stable"
        THEN [in  |-> Max({i \in DOMAIN addresses : EqualFold(addresses[i], in)}),
              out |-> Max({i \in DOMAIN addresses : EqualFold(addresses[i], out)})]
        ELSE IF second THEN [in |-> 2, out |-> 1] ELSE [in |-> 1, out |-> 2]

(* The places of the two tokens whose reserves a quote uses. *)
Sides(in, out) ==
    IF entry.kind = "stable"
    THEN [in  |-> Max({i \in DOMAIN addresses : EqualFold(addresses[i], in)}),
          out |-> Max({i \in DOMAIN addresses : EqualFold(addresses[i], out)})]
    ELSE IF EqualFold(in, addresses[2]) THEN [in |-> 2, out |-> 1] ELSE [in |-> 1, out |-> 2]

(* token0 is the smaller address. *)
zeroForOne(in) ==
    EqualFold(in, IF Rank[addresses[2]] < Rank[addresses[1]] THEN addresses[2] ELSE addresses[1])

-----------------------------------------------------------------------------
(***************************************************************************)
(* Properties.                                                             *)
(***************************************************************************)
SameName(x, y) == ToLower[x] = ToLower[y]

Distinct(keys) == \A x, y \in keys : SameName(x, y) => x = y

MapWellFormed ==
    /\ MapOk /\ Distinct(DOMAIN entry.tokens)
    /\ \A key \in DOMAIN entry.tokens :
         RowOk([balance |-> parsePositiveUnsigned(entry.tokens[key].balance, ReserveBits),
                scale   |-> ScaledDecimal(entry.tokens[key].scale, ScaleUnit)])

TicksWellFormed ==
    \A x, y \in DOMAIN entry.net :
        LET i == ParseInt(x, IndexBits)
            j == ParseInt(y, IndexBits)
        IN  /\ TickOk(i) /\ parseSignedInteger(entry.net[x], LiquidityBits).ok
            /\ x # y => i.value # j.value

(* An entry becomes a pool exactly when it is well formed, in whichever    *)
(* order its maps are visited: two spellings of one token, or of one tick  *)
(* ("5", "05", "+5"), are refused even when met last.                      *)
BuiltIffWellFormed ==
    stage \in {"built", "skipped"} =>
        (stage = "built" <=> CommonOk /\ (MapWellFormed \/ (ListOk /\ TicksWellFormed)))

(* What the quotes assume of a pool: distinct tokens in an order the map   *)
(* did not choose, one positive reserve for each, ticks strictly ascending *)
(* (the binary search for the first tick needs it) and none lost, and a    *)
(* gas estimate even when the driver gave none.                            *)
Quotable ==
    stage = "built" =>
        /\ gas > 0
        /\ \A i, j \in DOMAIN addresses :
              i < j /\ entry.shape = "map" => Rank[addresses[i]] < Rank[addresses[j]]
        /\ entry.shape = "map" => Len(rows) = Len(addresses)
                                  /\ Len(rows) = Cardinality(DOMAIN entry.tokens)
        /\ \A i, j \in DOMAIN ticks : i < j => ticks[i].index < ticks[j].index
        /\ entry.shape = "list" => Len(ticks) = Cardinality(DOMAIN entry.net)

(* A quote between two tokens of the entry, in any spelling, uses the      *)
(* reserve the entry gives to the first as input side and the one it gives *)
(* to the second as output side; a concentrated pool goes down exactly     *)
(* when the smaller address is sold; and Other names the second token.     *)
QuotesTheRightSides ==
    stage = "built" =>
        \A in, out \in DOMAIN ToLower : SupportsPair(in, out) =>
            /\ entry.kind # "stable" => SameName(Other(in), out)
            /\ entry.shape = "list" => (zeroForOne(in) <=> Rank[ToLower[in]] < Rank[ToLower[out]])
            /\ entry.shape = "map" =>
                 \E x, y \in DOMAIN entry.tokens :
                    /\ SameName(x, in) /\ SameName(y, out)
                    /\ rows[Sides(in, out).in].balance  = Number(entry.tokens[x].balance)
                    /\ rows[Sides(in, out).out].balance = Number(entry.tokens[y].balance)
=============================================================================
