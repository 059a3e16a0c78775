--------------------------- MODULE Notifications ---------------------------
(***************************************************************************)
(* A notification of the driver on its way through POST /notify into the   *)
(* evidence and out again: the contract's check, Notification.Unmarshal-   *)
(* JSON, Notification.MarshalJSON when it is recorded, and the decoder     *)
(* once more when the record is read.  Fields the engine does not know are *)
(* kept in Extra.  The driver's document is edited before it is sent.      *)
(***************************************************************************)
EXTENDS WireContract

CONSTANTS
    HexSize,       \* the bytes of each text that is 0x-prefixed hex
    U256Texts,     \* the texts validHexOrDecimalU256 accepts
    Documents, Edits(_), MaxEdits   \* as in Admission

Nil == [nil |-> TRUE]
Bad == [bad |-> TRUE]

SimpleKinds == {"timeout", "emptySolution", "duplicatedSolutionId", "invalidClearingPrices",
                "invalidExecutedAmount", "settlementStarted", "cancelled", "expired", "fail",
                "postprocessingTimedOut"}

-----------------------------------------------------------------------------
(***************************************************************************)
(* The fields a kind requires; null counts as missing.                     *)
(***************************************************************************)
Has(o, f) == f \in DOMAIN o /\ ~isNull(o[f])

(* Prefix, digits and length of a text are in HexSize. *)
validateHexBytes(v, size) == stringValue(v) /\ v.str \in DOMAIN HexSize /\ HexSize[v.str] = size

HexField(o, f, size) == Has(o, f) /\ validateHexBytes(o[f], size)

validHexOrDecimalU256(t) == t \in U256Texts

U256Field(o, f) == Has(o, f) /\ stringValue(o[f]) /\ validHexOrDecimalU256(o[f].str)

(* A null among strings is read as "", which is no hex. *)
HexList(o, f, size) ==
    Has(o, f) /\ array(o[f]) /\ \A i \in DOMAIN o[f].arr : validateHexBytes(o[f].arr[i], size)

TransactionField(o, f) ==
    /\ Has(o, f) /\ object(o[f])
    /\ LET tx == o[f].obj
       IN  /\ HexField(tx, "from", 20) /\ HexField(tx, "to", 20)
           /\ Has(tx, "input") /\ stringValue(tx.input) /\ tx.input.str \in DOMAIN HexSize
           /\ U256Field(tx, "value")
           /\ Has(tx, "accessList") /\ array(tx.accessList)
           /\ \A i \in DOMAIN tx.accessList.arr :
                 LET item == tx.accessList.arr[i]
                 IN  /\ object(item) /\ HexField(item.obj, "address", 20)
                     /\ HexList(item.obj, "storageKeys", 32)

validateNotificationKind(kind, o) ==
    \/ kind \in SimpleKinds
    \/ /\ kind = "simulationFailed"
       /\ Has(o, "block") /\ uint64NumberValue(o.block)
       /\ TransactionField(o, "tx")
       /\ Has(o, "succeededOnce") /\ boolValue(o.succeededOnce)
    \/ kind = "missingPrice" /\ HexField(o, "tokenAddress", 20)
    \/ kind = "nonBufferableTokensUsed" /\ HexList(o, "tokens", 20)
    \/ kind = "solverAccountInsufficientBalance" /\ U256Field(o, "required")
    \/ kind \in {"success", "revert"} /\ HexField(o, "transaction", 32)
    \/ kind \in {"driverError", "deserializationError"} /\ Has(o, "reason") /\ stringValue(o.reason)

-----------------------------------------------------------------------------
(***************************************************************************)
(* NotificationSolutionID: a single number or a merged list, kept as the   *)
(* JSON value it was read from; the list of none is not nil.               *)
(***************************************************************************)
Single(number) == [single |-> number, merged |-> Nil]
Merged(list)   == [single |-> Nil, merged |-> list]

(* json.Unmarshal into a uint64, where null is no error. *)
Uint64(v) == isNull(v) \/ uint64NumberValue(v)

(* Mutant: decoding an empty list leaves the slice nil. *)
UnmarshalID_empty_nil(v) ==
    IF array(v)
    THEN IF \E i \in DOMAIN v.arr : isNull(v.arr[i]) \/ ~Uint64(v.arr[i]) THEN Bad
         ELSE IF v.arr = <<>> THEN [single |-> Nil, merged |-> Nil] ELSE Merged(v)
    ELSE IF Uint64(v) /\ ~isNull(v) THEN Single(v) ELSE Bad

UnmarshalID(v) ==
    IF array(v)
    THEN IF \E i \in DOMAIN v.arr : isNull(v.arr[i]) \/ ~Uint64(v.arr[i]) THEN Bad
         ELSE Merged(v)
    ELSE IF Uint64(v) /\ ~isNull(v) THEN Single(v) ELSE Bad

MarshalID(id) ==
    IF id = Nil THEN Null
    ELSE IF id.single # Nil /\ id.merged = Nil THEN id.single
    ELSE IF id.single = Nil /\ id.merged # Nil THEN id.merged ELSE Bad

-----------------------------------------------------------------------------
Reserved == {"auctionId", "solutionId", "kind"}

Extra(o) == [f \in DOMAIN o \ Reserved |-> o[f]]

AuctionIdOk(o) == Has(o, "auctionId") => stringValue(o.auctionId) /\ o.auctionId.str \in Int64Texts

(* Notification.UnmarshalJSON. *)
Unmarshal(v) ==
    LET o  == v.obj
        id == IF Has(o, "solutionId") THEN UnmarshalID(o.solutionId) ELSE Nil
    IN  IF ~object(v) THEN Bad
        ELSE IF /\ AuctionIdOk(o) /\ id # Bad
                /\ Has(o, "kind") /\ stringValue(o.kind) /\ o.kind.str # ""
                /\ validateNotificationKind(o.kind.str, Extra(o))
        THEN [auctionId |-> IF Has(o, "auctionId") THEN o.auctionId ELSE Nil,
              solutionId |-> id, kind |-> o.kind, extra |-> Extra(o)]
        ELSE Bad

(* Notification.MarshalJSON: the two ids are always written. *)
Marshal(n) ==
    IF MarshalID(n.solutionId) = Bad THEN Bad
    ELSE Obj([f \in Reserved \cup DOMAIN n.extra |->
                CASE f = "auctionId"  -> IF n.auctionId = Nil THEN Null ELSE n.auctionId
                  [] f = "solutionId" -> MarshalID(n.solutionId)
                  [] f = "kind"       -> n.kind
                  [] OTHER            -> n.extra[f]])

-----------------------------------------------------------------------------
VARIABLES
    doc, edits,
    pc,             \* driver, received, decoded, recorded, reread, ignored, failed
    notification,   \* what the handler holds
    record,         \* what the recorder encoded
    again           \* what a reader of the record holds

vars == <<doc, edits, pc, notification, record, again>>

Init ==
    /\ doc \in Documents /\ edits = 0 /\ pc = "driver"
    /\ notification = Nil /\ record = Nil /\ again = Nil

Edit ==
    /\ pc = "driver" /\ edits < MaxEdits
    /\ doc' \in Edits(doc) /\ edits' = edits + 1
    /\ UNCHANGED <<pc, notification, record, again>>

Post == pc = "driver" /\ pc' = "received" /\ UNCHANGED <<doc, edits, notification, record, again>>

(* What does not decode is answered 200 and forgotten. *)
handleNotify ==
    /\ pc = "received"
    /\ \E n \in {IF ValidateNotificationJSON(doc) THEN Unmarshal(doc) ELSE Bad} :
         IF n = Bad THEN pc' = "ignored" /\ UNCHANGED notification
                    ELSE pc' = "decoded" /\ notification' = n
    /\ UNCHANGED <<doc, edits, record, again>>

Record ==
    /\ pc = "decoded"
    /\ LET data == Marshal(notification)
       IN  IF data = Bad THEN pc' = "failed" /\ UNCHANGED record
                         ELSE pc' = "recorded" /\ record' = data
    /\ UNCHANGED <<doc, edits, notification, again>>

Reread ==
    /\ pc = "recorded"
    /\ again' = Unmarshal(record)
    /\ pc' = "reread"
    /\ UNCHANGED <<doc, edits, notification, record>>

Next == Edit \/ Post \/ handleNotify \/ Record \/ Reread

Spec == Init /\ [][Next]_vars

-----------------------------------------------------------------------------
(* The record holds every field of the driver's document with its value,   *)
(* unknown ones included, and adds nothing but null ids.                   *)
NothingLost ==
    pc = "recorded" =>
        /\ \A f \in DOMAIN doc.obj : f \in DOMAIN record.obj /\ record.obj[f] = doc.obj[f]
        /\ \A f \in DOMAIN record.obj \ DOMAIN doc.obj : isNull(record.obj[f])

(* A notification that was accepted is recorded, nothing of it is lost on  *)
(* the way, and reading the record gives it back: every id form (none,     *)
(* one, merged, merged of none), every kind and all metadata survive the   *)
(* recorder and the replay.                                                *)
RoundTrip == pc # "failed" /\ NothingLost /\ (pc = "reread" => again = notification)
=============================================================================
