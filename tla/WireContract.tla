---------------------------- MODULE WireContract ----------------------------
(***************************************************************************)
(* The pinned wire contract of internal/contract, over JSON values after   *)
(* duplicate keys were refused (UniqueJSON).  A value is a record with one *)
(* field that tells its type: str, num (a number by its lexeme), bool,     *)
(* null, arr (a sequence) or obj (a function of keys).  The operators say  *)
(* whether the code accepts; its error texts are left out.                 *)
(***************************************************************************)
EXTENDS Integers, Sequences, TLC

CONSTANTS NumberTexts,   \* strings that are number lexemes
          Int64Texts,    \* strings strconv.ParseInt reads as i64
          Uint64s        \* number lexemes json.Unmarshal reads as uint64

Str(s)  == [str |-> s]
Num(n)  == [num |-> n]
Bool(b) == [bool |-> b]
Arr(s)  == [arr |-> s]
Obj(f)  == [obj |-> f]
Null    == [null |-> TRUE]

object(v)      == "obj" \in DOMAIN v
array(v)       == "arr" \in DOMAIN v
isNull(v)      == v = Null
stringValue(v) == "str" \in DOMAIN v
boolValue(v)   == "bool" \in DOMAIN v

(* json.Number also takes a string that holds a number. *)
numberValue(v) == "num" \in DOMAIN v \/ (stringValue(v) /\ v.str \in NumberTexts)

(* Mutant: unknown fields are let through. *)
fields_open(o, required, allowed) == required \subseteq DOMAIN o

fields(o, required, allowed) == required \subseteq DOMAIN o /\ DOMAIN o \subseteq allowed

(* An object that has exactly these fields. *)
Exactly(v, names) == object(v) /\ fields(v.obj, names, names)

(* requiredString, "" for null; NoString is its error. *)
NoString == "(no string)"

requiredString(o, name) ==
    IF name \notin DOMAIN o THEN NoString
    ELSE IF isNull(o[name]) THEN ""
    ELSE IF stringValue(o[name]) THEN o[name].str ELSE NoString

-----------------------------------------------------------------------------
OrderStrings == {"uid", "sellToken", "buyToken", "sellAmount", "fullSellAmount", "buyAmount",
                 "fullBuyAmount", "kind", "owner", "sellTokenSource", "buyTokenDestination",
                 "class", "appData", "signingScheme", "signature"}
OrderLists    == {"preInteractions", "postInteractions"}
OrderRequired == OrderStrings \cup OrderLists \cup {"validTo", "partiallyFillable"}
OrderOptional == {"feePolicies", "receiver", "flashloanHint", "wrappers"}

validateFeePolicy(v) ==
    /\ object(v)
    /\ LET kind == requiredString(v.obj, "kind")
       IN  \/ kind = "surplus" /\ Exactly(v, {"kind", "factor", "maxVolumeFactor"})
           \/ /\ kind = "priceImprovement"
              /\ Exactly(v, {"kind", "factor", "maxVolumeFactor", "quote"})
              /\ Exactly(v.obj.quote, {"sellAmount", "buyAmount", "fee"})
           \/ kind = "volume" /\ Exactly(v, {"kind", "factor"})

validateOrder(v) ==
    /\ object(v) /\ fields(v.obj, OrderRequired, OrderRequired \cup OrderOptional)
    /\ LET o        == v.obj
           has(n)   == n \in DOMAIN o
           items(n) == DOMAIN o[n].arr
       IN  /\ \A n \in OrderStrings : stringValue(o[n])
           /\ numberValue(o.validTo) /\ boolValue(o.partiallyFillable)
           /\ \A n \in OrderLists : array(o[n]) /\ \A i \in items(n) :
                 Exactly(o[n].arr[i], {"target", "value", "callData"})
           /\ has("feePolicies") => array(o.feePolicies) /\ \A i \in items("feePolicies") :
                 validateFeePolicy(o.feePolicies.arr[i])
           /\ has("flashloanHint") => isNull(o.flashloanHint) \/ Exactly(o.flashloanHint,
                 {"liquidityProvider", "protocolAdapter", "receiver", "token", "amount"})
           /\ has("wrappers") => array(o.wrappers) /\ \A i \in items("wrappers") :
                 LET w == o.wrappers.arr[i]
                 IN  object(w) /\ fields(w.obj, {"address", "data"}, {"address", "data", "isOmittable"})

(* The fields of each upstream kind of liquidity, beside the common ones. *)
LiquidityFields ==
    [constantProduct       |-> {"tokens", "fee", "router"},
     stable                |-> {"tokens", "amplificationParameter", "fee", "balancerPoolId"},
     weightedProduct       |-> {"tokens", "fee", "version", "balancerPoolId"},
     concentratedLiquidity |-> {"tokens", "sqrtPrice", "liquidity", "tick", "liquidityNet",
                                "fee", "router"},
     limitOrder            |-> {"hash", "makerToken", "takerToken", "makerAmount",
                                "takerAmount", "takerTokenFeeAmount"}]

ReserveFields ==
    [constantProduct |-> {"balance"}, stable |-> {"balance", "scalingFactor"},
     weightedProduct |-> {"balance", "scalingFactor", "weight"}]

validateLiquidity(v) ==
    /\ object(v)
    /\ LET o    == v.obj
           kind == requiredString(o, "kind")
       IN  /\ kind \in DOMAIN LiquidityFields
           /\ Exactly(v, {"kind", "id", "address", "gasEstimate"} \cup LiquidityFields[kind])
           /\ \A n \in {"id", "address", "gasEstimate"} : stringValue(o[n])
           /\ kind \in DOMAIN ReserveFields =>
                 object(o.tokens) /\ \A t \in DOMAIN o.tokens.obj :
                    Exactly(o.tokens.obj[t], ReserveFields[kind])
           /\ kind = "concentratedLiquidity" => array(o.tokens) /\ object(o.liquidityNet)

AuctionRequired == {"tokens", "orders", "liquidity", "effectiveGasPrice", "deadline",
                    "surplusCapturingJitOrderOwners"}

validateToken(v) ==
    /\ object(v)
    /\ fields(v.obj, {"availableBalance", "trusted"},
              {"decimals", "symbol", "referencePrice", "availableBalance", "trusted"})
    /\ stringValue(v.obj.availableBalance) /\ boolValue(v.obj.trusted)

ValidateAuctionJSON(v) ==
    /\ object(v) /\ fields(v.obj, AuctionRequired, AuctionRequired \cup {"id"})
    /\ LET o == v.obj
       IN  /\ "id" \in DOMAIN o => isNull(o.id) \/ stringValue(o.id)
           /\ stringValue(o.effectiveGasPrice) /\ stringValue(o.deadline)
           /\ array(o.surplusCapturingJitOrderOwners)
           /\ object(o.tokens) /\ \A t \in DOMAIN o.tokens.obj : validateToken(o.tokens.obj[t])
           /\ array(o.orders) /\ \A i \in DOMAIN o.orders.arr : validateOrder(o.orders.arr[i])
           /\ array(o.liquidity)
           /\ \A i \in DOMAIN o.liquidity.arr : validateLiquidity(o.liquidity.arr[i])

-----------------------------------------------------------------------------
validateTrade(v) ==
    /\ object(v)
    /\ fields(v.obj, {"kind", "order", "executedAmount"}, {"kind", "order", "executedAmount", "fee"})
    /\ requiredString(v.obj, "kind") = "fulfillment"

validateInteraction(v) ==
    /\ Exactly(v, {"kind", "id", "inputToken", "outputToken", "inputAmount", "outputAmount",
                   "internalize"})
    /\ requiredString(v.obj, "kind") = "liquidity"
    /\ stringValue(v.obj.id) /\ boolValue(v.obj.internalize)

validateSolution(v) ==
    /\ object(v)
    /\ fields(v.obj, {"id", "prices", "trades", "interactions"},
              {"id", "prices", "trades", "preInteractions", "interactions", "postInteractions",
               "gas", "maxFeePerGas", "maxPriorityFeePerGas", "flashloans", "wrappers"})
    /\ LET s == v.obj
       IN  /\ numberValue(s.id)
           /\ object(s.prices) /\ \A t \in DOMAIN s.prices.obj : stringValue(s.prices.obj[t])
           /\ array(s.trades) /\ \A i \in DOMAIN s.trades.arr : validateTrade(s.trades.arr[i])
           /\ array(s.interactions)
           /\ \A i \in DOMAIN s.interactions.arr : validateInteraction(s.interactions.arr[i])

ValidateSolveResponseJSON(v) ==
    /\ Exactly(v, {"solutions"})
    /\ array(v.obj.solutions)
    /\ \A i \in DOMAIN v.obj.solutions.arr : validateSolution(v.obj.solutions.arr[i])

-----------------------------------------------------------------------------
uint64NumberValue(v) == "num" \in DOMAIN v /\ v.num \in Uint64s

notificationSolutionIDValue(v) ==
    IF array(v) THEN \A i \in DOMAIN v.arr : uint64NumberValue(v.arr[i])
                ELSE uint64NumberValue(v)

(* Other fields are left to the decoder: notifications are extensible. *)
ValidateNotificationJSON(v) ==
    /\ object(v)
    /\ LET o == v.obj
       IN  /\ "kind" \in DOMAIN o /\ stringValue(o.kind)
           /\ "auctionId" \in DOMAIN o /\ ~isNull(o.auctionId) =>
                 stringValue(o.auctionId) /\ o.auctionId.str \in Int64Texts
           /\ "solutionId" \in DOMAIN o /\ ~isNull(o.solutionId) =>
                 notificationSolutionIDValue(o.solutionId)
=============================================================================
