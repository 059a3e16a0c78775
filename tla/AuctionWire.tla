----------------------------- MODULE AuctionWire -----------------------------
(***************************************************************************)
(* How the Go types of internal/api are filled from JSON.  encoding/json   *)
(* gives a key to the field of its name whatever the case of its letters;  *)
(* when two keys of an object are the same field, the later one wins, so   *)
(* the order of the keys counts: aliasLast says that the keys not spelled  *)
(* as the field come last, aliasFirst that they come first, exact stands   *)
(* for a decoder that does not take them at all, like the driver's.        *)
(*                                                                         *)
(* Go values are tagged like JSON values; Nil is a nil pointer, slice, map *)
(* or raw message, and Bad stands for the error of the decoder.            *)
(***************************************************************************)
EXTENDS WireContract

CONSTANTS
    FieldOf,        \* of each key not spelled as a field: the field it is taken for
    IntOf,          \* the value of each number lexeme that is an i64
    Int32s,         \* the lexemes among them that are an i32
    U256Of,         \* the value of each text that is a decimal uint256
    Deadlines,      \* the texts time.Parse reads
    MaxUint8, MaxUint32   \* 255, 2^32 - 1 in the code

Nil == [nil |-> TRUE]
Bad == [bad |-> TRUE]

Modes == {"aliasFirst", "aliasLast", "exact"}

(* The keys of o that fill a field. *)
KeysFor(o, field, mode) ==
    {k \in DOMAIN o : k = field \/ (mode # "exact" /\ k \in DOMAIN FieldOf /\ FieldOf[k] = field)}

Winner(o, field, mode) ==
    LET keys == KeysFor(o, field, mode)
    IN  CHOOSE k \in keys : keys = {k} \/ (k = field <=> mode = "aliasFirst")

(* json.Unmarshal into a scalar type; null leaves the zero value. *)
Zero == [string |-> Str(""), bool |-> Bool(FALSE), int64 |-> Num("0"), ptrString |-> Nil,
         ptrInt |-> Nil, ptrInt32 |-> Nil, ptrFloat |-> Nil]

Scalar(v, type) ==
    IF type = "raw" THEN v
    ELSE IF isNull(v) THEN Zero[type]
    ELSE IF \/ type \in {"string", "ptrString"} /\ "str" \in DOMAIN v
            \/ type = "bool" /\ "bool" \in DOMAIN v
            \/ type \in {"int64", "ptrInt"} /\ "num" \in DOMAIN v /\ v.num \in DOMAIN IntOf
            \/ type = "ptrInt32" /\ "num" \in DOMAIN v /\ v.num \in Int32s
            \/ type = "ptrFloat" /\ "num" \in DOMAIN v
         THEN v ELSE Bad

(* A slice or a map: null is nil, one bad element spoils it. *)
List(v, Element(_)) ==
    IF isNull(v) THEN Nil
    ELSE IF ~array(v) \/ \E i \in DOMAIN v.arr : Element(v.arr[i]) = Bad THEN Bad
    ELSE Arr([i \in DOMAIN v.arr |-> Element(v.arr[i])])

Map(v, Element(_)) ==
    IF isNull(v) THEN Nil
    ELSE IF ~object(v) \/ \E k \in DOMAIN v.obj : Element(v.obj[k]) = Bad THEN Bad
    ELSE Obj([k \in DOMAIN v.obj |-> Element(v.obj[k])])

(* A struct whose fields have the given types, read by Read. *)
Struct(v, types, Read(_, _), mode) ==
    LET o == IF isNull(v) THEN <<>> ELSE v.obj
        value(f) == IF KeysFor(o, f, mode) # {} THEN Read(o[Winner(o, f, mode)], types[f])
                    ELSE IF types[f] = "raw" THEN Nil ELSE Read(Null, types[f])
        bad == \E f \in DOMAIN types : \E k \in KeysFor(o, f, mode) : Read(o[k], types[f]) = Bad
    IN  IF ~isNull(v) /\ ~object(v) THEN Bad
        ELSE IF bad THEN Bad ELSE Obj([f \in DOMAIN types |-> value(f)])

Raw(v) == v
StringOf(v) == Scalar(v, "string")

-----------------------------------------------------------------------------
TokenInfo == [decimals |-> "ptrInt", symbol |-> "string", referencePrice |-> "string",
              availableBalance |-> "string", trusted |-> "bool"]

FeeQuote == [sellAmount |-> "string", buyAmount |-> "string", fee |-> "string"]

FeePolicy == [kind |-> "string", factor |-> "ptrFloat", maxVolumeFactor |-> "ptrFloat",
              quote |-> "quote"]

Order == [f \in OrderRequired \cup OrderOptional |->
             CASE f \in OrderLists \cup {"wrappers"} -> "raws" [] f = "feePolicies" -> "policies"
               [] f = "flashloanHint" -> "raw" [] f = "validTo" -> "int64"
               [] f = "partiallyFillable" -> "bool" [] OTHER -> "string"]

Liquidity == [f \in {"kind", "id", "address", "gasEstimate"}
                    \cup (UNION {LiquidityFields[k] : k \in DOMAIN LiquidityFields}) |->
                 CASE f = "tokens" -> "raw" [] f = "tick" -> "ptrInt32"
                   [] f = "liquidityNet" -> "strings" [] OTHER -> "string"]

Auction == [id |-> "ptrString", tokens |-> "tokens", orders |-> "orders",
            liquidity |-> "liquidity", effectiveGasPrice |-> "string", deadline |-> "string",
            surplusCapturingJitOrderOwners |-> "owners"]

(* What the contract calls the fields; no such name is another spelling of *)
(* a field, in its own type or another.                                    *)
FieldNames ==
    UNION {DOMAIN Auction, DOMAIN TokenInfo, DOMAIN FeeQuote, DOMAIN FeePolicy, DOMAIN Order,
           DOMAIN Liquidity}

NoFieldIsAnAlias == DOMAIN FieldOf \cap FieldNames = {}

DecodeToken(v, mode) == Struct(v, TokenInfo, Scalar, mode)

DecodePolicy(v, mode) ==
    LET read(w, type) == IF type # "quote" THEN Scalar(w, type)
                         ELSE IF isNull(w) THEN Nil ELSE Struct(w, FeeQuote, Scalar, mode)
    IN  Struct(v, FeePolicy, read, mode)

DecodeOrder(v, mode) ==
    LET policy(w)     == DecodePolicy(w, mode)
        read(w, type) == CASE type = "raws"     -> List(w, Raw)
                           [] type = "policies" -> List(w, policy)
                           [] OTHER             -> Scalar(w, type)
    IN  Struct(v, Order, read, mode)

DecodeLiquidity(v, mode) ==
    LET read(w, type) == IF type = "strings" THEN Map(w, StringOf) ELSE Scalar(w, type)
    IN  Struct(v, Liquidity, read, mode)

(* json.Unmarshal into auctionWire. *)
DecodeAuction(v, mode) ==
    LET token(w)      == DecodeToken(w, mode)
        order(w)      == DecodeOrder(w, mode)
        entry(w)      == DecodeLiquidity(w, mode)
        read(w, type) == CASE type = "tokens"    -> Map(w, token)
                           [] type = "orders"    -> List(w, order)
                           [] type = "liquidity" -> List(w, entry)
                           [] type = "owners"    -> List(w, StringOf)
                           [] OTHER              -> Scalar(w, type)
    IN  Struct(v, Auction, read, mode)

-----------------------------------------------------------------------------
validDecimalU256(v, allowZero) == v.str \in DOMAIN U256Of /\ (allowZero \/ U256Of[v.str] > 0)

TokenBounds(t) ==
    /\ t.decimals = Nil \/ IntOf[t.decimals.num] \in 0 .. MaxUint8
    /\ validDecimalU256(t.availableBalance, TRUE)
    /\ t.referencePrice = Str("") \/ validDecimalU256(t.referencePrice, TRUE)

OrderBounds(o) ==
    /\ \A f \in {"sellAmount", "fullSellAmount", "buyAmount", "fullBuyAmount"} :
          validDecimalU256(o[f], FALSE)
    /\ IntOf[o.validTo.num] \in 0 .. MaxUint32

(* What ranging over a nil map or slice visits. *)
ItemsOf(v) == IF v = Nil THEN {} ELSE IF array(v) THEN {v.arr[i].obj : i \in DOMAIN v.arr}
              ELSE {v.obj[k].obj : k \in DOMAIN v.obj}

(* Auction.UnmarshalJSON. *)
UnmarshalAuction(v, mode) ==
    LET decoded == DecodeAuction(v, mode)
        a       == decoded.obj
    IN  IF decoded = Bad THEN Bad
        ELSE IF /\ a.id = Nil \/ a.id.str \in Int64Texts
                /\ validDecimalU256(a.effectiveGasPrice, TRUE)
                /\ a.deadline.str \in Deadlines
                /\ \A t \in ItemsOf(a.tokens) : TokenBounds(t)
                /\ \A o \in ItemsOf(a.orders) : OrderBounds(o)
        THEN decoded ELSE Bad
=============================================================================
