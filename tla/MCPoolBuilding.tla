--------------------------- MODULE MCPoolBuilding ---------------------------
(***************************************************************************)
(* One part per behaviour: buildPool on an entry (entries), the readers of *)
(* numbers on any short text (texts), and their digit limits (widths).     *)
(*                                                                         *)
(* Entries of every kind: good ones, and each with one part replaced.  The *)
(* spellings are two addresses in two cases, a third one, and a pair that  *)
(* strings.EqualFold joins while ToLower does not (s and the long s).      *)
(***************************************************************************)
EXTENDS PoolBuilding

CONSTANTS Parts,                         \* the parts to run
          Alphabet, MaxLength, Widths,   \* texts
          MaxBits, U256Digits            \* widths

VARIABLES part, text, bits, digits

T == INSTANCE DecimalInputs
B == INSTANCE DigitBounds

Lower == [a |-> "a", A |-> "a", b |-> "b", B |-> "b", c |-> "c", s |-> "s", long_s |-> "long_s"]

MCFold == [Lower EXCEPT !.long_s = "s"]

MCRank == [a |-> 1, b |-> 2, c |-> 3, s |-> 4, long_s |-> 5]

MCMinTick == -2

One == <<"1">>
Texts == {<<"5">>, <<"0">>, <<"6", "4">>, <<"-", "1">>, <<>>, <<"0", ".", "3">>, <<".">>}

Row(n, scale) == [balance |-> n, scale |-> scale]

Base == [kind |-> "constantProduct", fee |-> <<"0", ".", "3">>, gas |-> <<"0">>,
         shape |-> "map", tokens |-> [A |-> Row(<<"6">>, One), b |-> Row(<<"7">>, One)],
         amp |-> <<"5">>, price |-> <<"9">>, liquidity |-> <<"3">>, tick |-> 1,
         net |-> <<>>]

Stable == [Base EXCEPT !.kind = "stable",
                       !.tokens = [b |-> Row(<<"6">>, One), A |-> Row(<<"7">>, One),
                                   c |-> Row(<<"8">>, <<"2">>)]]

Nets == { [t \in {<<"-", "1">>, <<"0">>, <<"2">>} |-> <<"2">>],
          [t \in {<<"+", "1">>, <<"-", "2">>} |-> <<"-", "8">>],
          [t \in {<<"0", "1">>, <<"1">>, <<"0">>} |-> <<"1">>],
          [t \in {<<"3">>} |-> <<"1">>], [t \in {<<"1", "x">>} |-> <<"1">>],
          [t \in {<<"1">>} |-> <<"8">>], [t \in {<<"-", "2">>, <<"1">>, <<"2">>} |-> <<"0">>],
          [t \in {<<"-", "2">>, <<"-", "1">>, <<"1">>, <<"2">>} |-> <<"0">>],
          [t \in {} |-> <<>>] }

Ticked == { [Base EXCEPT !.kind = "concentratedLiquidity", !.shape = "list",
                         !.tokens = pair, !.net = net]
            : pair \in {<<"B", "a">>, <<"a", "c">>, <<"A", "a">>, <<"a">>}, net \in Nets }

OfTokens(e, maps) == { [e EXCEPT !.tokens = m] : m \in maps }

Keyed(keys) == { [k \in keys |-> Row(n[k], scale)]
                 : n \in [keys -> {<<"6">>, <<"7">>}], scale \in {One, <<".">>} }

Maps == UNION { Keyed(keys) : keys \in {{"a", "A"}, {"a", "B"}, {"A", "b", "c"}, {"A", "B", "a"}, {"c"}, {"s", "long_s"}} }

Seeds == {Base, Stable} \cup Ticked \cup OfTokens(Base, Maps) \cup OfTokens(Stable, Maps)

MCEntries ==
    UNION { { [e EXCEPT !.fee = t] : t \in Texts } \cup { [e EXCEPT !.gas = t] : t \in Texts }
        \cup { [e EXCEPT !.amp = t] : t \in Texts } \cup { [e EXCEPT !.price = t] : t \in Texts }
        \cup { [e EXCEPT !.liquidity = t] : t \in Texts } \cup { [e EXCEPT !.tick = t] : t \in {-3, 3, NoTick} }
        \cup { [e EXCEPT !.kind = "limitOrder"], [e EXCEPT !.shape = "other"], e } : e \in Seeds }
    \cup { [Base EXCEPT !.tokens.b.balance = t] : t \in Texts }
    \cup { [Stable EXCEPT !.tokens.c.balance = t] : t \in Texts }
    \cup { [Stable EXCEPT !.tokens.c.scale = t] : t \in Texts }

-----------------------------------------------------------------------------
EntryIdle  == entry = NoTick /\ stage = "idle" /\ left = {} /\ addresses = <<>> /\ rows = <<>> /\ ticks = <<>>
TextIdle   == text = <<>>
WidthIdle  == bits = 0 /\ digits = <<1>>

BuildingInit ==
    /\ part \in Parts
    /\ \/ part = "entries" /\ EntryInit /\ TextIdle /\ WidthIdle
       \/ part = "texts" /\ T!Init /\ EntryIdle /\ WidthIdle
       \/ part = "widths" /\ B!Init /\ EntryIdle /\ TextIdle

BuildingNext ==
    /\ UNCHANGED part
    /\ \/ part = "entries" /\ EntryNext /\ UNCHANGED <<text, bits, digits>>
       \/ part = "texts" /\ T!Next /\ UNCHANGED <<entryVars, bits, digits>>
       \/ part = "widths" /\ B!Double /\ UNCHANGED <<entryVars, text>>

BuildingSpec == BuildingInit /\ [][BuildingNext]_<<part, entryVars, text, bits, digits>>

-----------------------------------------------------------------------------
(* Decimals, fees, fixed-point values and integers are read as the numbers *)
(* they are or refused, and the digit limit refuses no number of its width.*)
NumbersExact == T!ReadsTheNumber /\ T!FeeExact /\ T!FixedPoint /\ T!IntegersExact /\ B!LimitAdmitsTheWidth
=============================================================================
