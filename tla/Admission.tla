----------------------------- MODULE Admission -----------------------------
(***************************************************************************)
(* POST /solve from the body to the reply: decodeUniqueJSON checks the     *)
(* contract on the document and decodes it, validateAuction looks at what  *)
(* was decoded, and writeJSON checks the contract on the answer.  The      *)
(* driver's document starts as one that is right and is changed in up to   *)
(* MaxEdits places: a field dropped, replaced or added, misspelled ones    *)
(* included.  What is in Results is what Solve may return (module Solve).  *)
(***************************************************************************)
EXTENDS AuctionWire

CONSTANTS
    Documents,     \* the documents to start from
    Edits(_),      \* the documents one edit away from a document
    MaxEdits,      \* bound
    LowerOf,       \* the lower case of each text that is not in lower case
    FoldOf,        \* the texts EqualFold joins beyond that: their class
    Results        \* sequences of [prices, trades, interactions, gas]

VARIABLES
    doc, mode,     \* the document; the order of its keys
    edits,
    pc,            \* driver, received, decoded, admitted, answered, refused
    auction,       \* the decoded auction
    status         \* of the reply

vars == <<doc, mode, edits, pc, auction, status>>

Init ==
    /\ doc \in Documents /\ mode \in {"aliasFirst", "aliasLast"} /\ edits = 0
    /\ pc = "driver" /\ auction = Nil /\ status = 0

Edit ==
    /\ pc = "driver" /\ edits < MaxEdits
    /\ doc' \in Edits(doc)
    /\ edits' = edits + 1
    /\ UNCHANGED <<mode, pc, auction, status>>

Post == pc = "driver" /\ pc' = "received" /\ UNCHANGED <<doc, mode, edits, auction, status>>

Refused == pc' = "refused" /\ status' = 400 /\ UNCHANGED <<doc, mode, edits, auction>>

decodeUniqueJSON ==
    /\ pc = "received"
    /\ \E a \in {IF ValidateAuctionJSON(doc) THEN UnmarshalAuction(doc, mode) ELSE Bad} :
         IF a = Bad THEN Refused
         ELSE auction' = a.obj /\ pc' = "decoded" /\ UNCHANGED <<doc, mode, edits, status>>

-----------------------------------------------------------------------------
ToLower(s) == IF s \in DOMAIN LowerOf THEN LowerOf[s] ELSE s

EqualFold(s, t) ==
    LET fold(x) == IF ToLower(x) \in DOMAIN FoldOf THEN FoldOf[ToLower(x)] ELSE ToLower(x)
    IN  fold(s) = fold(t)

validU256(v, allowZero) == validDecimalU256(v, allowZero)

TokensValid(tokens) ==
    /\ \A t \in DOMAIN tokens :
         /\ t # "" /\ validU256(tokens[t].obj.availableBalance, TRUE)
         /\ LET price == tokens[t].obj.referencePrice
            IN  price = Str("") \/ validU256(price, TRUE)
    /\ \A t, u \in DOMAIN tokens : ToLower(t) = ToLower(u) => t = u

(* Mutant: uids are compared as they are spelled. *)
OrdersValid_as_spelled(orders) ==
    /\ \A i \in DOMAIN orders : LET o == orders[i].obj IN
         /\ Str("") \notin {o.uid, o.sellToken, o.buyToken}
         /\ \A f \in {"sellAmount", "buyAmount", "fullBuyAmount"} : validU256(o[f], FALSE)
         /\ o.fullSellAmount = Str("") \/ validU256(o.fullSellAmount, FALSE)
    /\ \A i, j \in DOMAIN orders : orders[i].obj.uid = orders[j].obj.uid => i = j

OrdersValid(orders) ==
    /\ \A i \in DOMAIN orders : LET o == orders[i].obj IN
         /\ Str("") \notin {o.uid, o.sellToken, o.buyToken}
         /\ \A f \in {"sellAmount", "buyAmount", "fullBuyAmount"} : validU256(o[f], FALSE)
         /\ o.fullSellAmount = Str("") \/ validU256(o.fullSellAmount, FALSE)
    /\ \A i, j \in DOMAIN orders :
         ToLower(orders[i].obj.uid.str) = ToLower(orders[j].obj.uid.str) => i = j

LiquidityValid(entries) ==
    /\ \A i \in DOMAIN entries : entries[i].obj.id # Str("")
    /\ \A i, j \in DOMAIN entries : entries[i].obj.id = entries[j].obj.id => i = j

validateAuction ==
    /\ pc = "decoded"
    /\ IF /\ Nil \notin {auction.tokens, auction.orders, auction.liquidity,
                         auction.surplusCapturingJitOrderOwners}
          /\ validU256(auction.effectiveGasPrice, TRUE)
          /\ TokensValid(auction.tokens.obj) /\ OrdersValid(auction.orders.arr)
          /\ LiquidityValid(auction.liquidity.arr)
          /\ auction.deadline.str \in Deadlines
       THEN pc' = "admitted" /\ UNCHANGED <<doc, mode, edits, auction, status>>
       ELSE Refused

-----------------------------------------------------------------------------
(***************************************************************************)
(* The reply: json.Marshal of the solutions, then the contract on them.    *)
(***************************************************************************)
MarshalTrade(t) ==
    Obj([kind |-> Str("fulfillment"), order |-> Str(t), executedAmount |-> Str("5")])

MarshalHop(h) ==
    Obj([kind |-> Str("liquidity"), id |-> Str(h), inputToken |-> Str("t"), outputToken |-> Str("u"),
         inputAmount |-> Str("5"), outputAmount |-> Str("5"), internalize |-> Bool(FALSE)])

(* gas is omitted when it is zero. *)
MarshalSolution(s) ==
    LET fixed == [id |-> Num("7"), prices |-> Obj([t \in s.prices |-> Str("5")]),
                  trades |-> Arr([i \in DOMAIN s.trades |-> MarshalTrade(s.trades[i])]),
                  interactions |-> Arr([i \in DOMAIN s.interactions |-> MarshalHop(s.interactions[i])])]
    IN  Obj([f \in DOMAIN fixed \cup (IF s.gas = 0 THEN {} ELSE {"gas"}) |->
                IF f = "gas" THEN Num("7") ELSE fixed[f]])

(* Mutant: no solutions stay nil. *)
SolutionsOf_nil(r) == IF r = <<>> THEN Null ELSE Arr([i \in DOMAIN r |-> MarshalSolution(r[i])])

(* Solve's slice is nil when nothing was solved; the handler replaces it.  *)
SolutionsOf(r) == Arr([i \in DOMAIN r |-> MarshalSolution(r[i])])

writeJSON(solutions) ==
    status' = IF ValidateSolveResponseJSON(Obj([solutions |-> solutions])) THEN 200 ELSE 500

Answer ==
    /\ pc = "admitted"
    /\ \E r \in Results : writeJSON(SolutionsOf(r))
    /\ pc' = "answered"
    /\ UNCHANGED <<doc, mode, edits, auction>>

Next == Edit \/ Post \/ decodeUniqueJSON \/ validateAuction \/ Answer

Spec == Init /\ [][Next]_vars

-----------------------------------------------------------------------------
(***************************************************************************)
(* What solving does with the auction.                                     *)
(***************************************************************************)
Orders == auction.orders.arr

(* Mutant: an explicit hint is taken for metadata. *)
Eligible_with_hint(o) ==
    /\ \A f \in OrderLists \cup {"wrappers", "feePolicies"} : o[f] = Nil \/ o[f].arr = <<>>
    /\ o.sellTokenSource.str \in {"", "erc20"} /\ o.buyTokenDestination.str \in {"", "erc20"}
    /\ o.kind.str \in {"sell", "buy"}
    /\ ~EqualFold(o.sellToken.str, o.buyToken.str)

(* eligible, for one order. *)
Eligible(o) ==
    /\ \A f \in OrderLists \cup {"wrappers", "feePolicies"} : o[f] = Nil \/ o[f].arr = <<>>
    /\ o.flashloanHint \in {Nil, Null}
    /\ o.sellTokenSource.str \in {"", "erc20"} /\ o.buyTokenDestination.str \in {"", "erc20"}
    /\ o.kind.str \in {"sell", "buy"}
    /\ ~EqualFold(o.sellToken.str, o.buyToken.str)

(* The entries toNative may take a token's price from. *)
PricesOf(token) ==
    {t \in DOMAIN auction.tokens.obj :
        EqualFold(t, token) /\ auction.tokens.obj[t].obj.referencePrice # Str("")}

-----------------------------------------------------------------------------
Admitted == pc \in {"admitted", "answered"}

(* An admitted auction is what a decoder that compares keys exactly reads, *)
(* whatever the order of the keys: nothing the driver wrote under another  *)
(* spelling reached a field, and nothing it wrote was dropped.             *)
ReadsWhatTheDriverWrote ==
    Admitted => Obj(auction) = DecodeAuction(doc, "exact")

(* What Solve takes for granted of an admitted auction: positive amounts,  *)
(* orders and pools that can be told apart although uids are compared      *)
(* without case, and at most one price of a token.                         *)
FitToSolve ==
    Admitted =>
        /\ \A i \in DOMAIN Orders : \A f \in {"sellAmount", "buyAmount", "fullSellAmount"} :
              U256Of[Orders[i].obj[f].str] > 0
        /\ \A i, j \in DOMAIN Orders :
              i # j => ToLower(Orders[i].obj.uid.str) # ToLower(Orders[j].obj.uid.str)
        /\ \A i, j \in DOMAIN auction.liquidity.arr :
              i # j => auction.liquidity.arr[i].obj.id # auction.liquidity.arr[j].obj.id
        /\ \A t \in DOMAIN auction.tokens.obj : \A u, v \in PricesOf(t) : u = v

DocOrder(i) == doc.obj.orders.arr[i].obj

(* An order that is solved carries no semantics the engine does not encode *)
(* in the document itself: no hooks, wrappers, fee policies, hint or       *)
(* balance other than erc20, under any spelling.                           *)
NothingIgnored ==
    Admitted => \A i \in DOMAIN Orders : Eligible(Orders[i].obj) =>
        \A k \in DOMAIN DocOrder(i) : LET v == DocOrder(i)[k] IN
            /\ k \in OrderRequired \cup OrderOptional
            /\ k \in OrderLists \cup {"wrappers", "feePolicies"} => array(v) /\ DOMAIN v.arr = {}
            /\ k = "flashloanHint" => isNull(v)
            /\ k \in {"sellTokenSource", "buyTokenDestination"} =>
                  stringValue(v) /\ v.str \in {"", "erc20"}

(* Every admitted auction gets an answer the driver can read: the check of *)
(* the contract on the engine's own replies never fails.                   *)
AnswersPassTheContract == pc = "answered" => status = 200
=============================================================================
