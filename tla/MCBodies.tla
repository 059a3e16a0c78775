------------------------------ MODULE MCBodies ------------------------------
(***************************************************************************)
(* Constants for Bodies: an auction with every object the contract names   *)
(* and the edits of it, the notifications, and the fixtures.               *)
(***************************************************************************)
EXTENDS Bodies, TLC

INSTANCE DocumentEdits

-----------------------------------------------------------------------------
Token(price) == Obj([availableBalance |-> Str("5"), trusted |-> Bool(TRUE),
                     referencePrice |-> Str(price), decimals |-> Num("7"), symbol |-> Str("x")])

PlainOrder ==
    Obj([f \in OrderStrings |-> Str("5")]
        @@ [f \in OrderLists |-> Arr(<<>>)]
        @@ [validTo |-> Num("7"), partiallyFillable |-> Bool(FALSE)])

Plain == With(PlainOrder,
              [uid |-> Str("u1"), kind |-> Str("sell"), sellToken |-> Str("A"),
               buyToken |-> Str("b"), sellTokenSource |-> Str("erc20"),
               buyTokenDestination |-> Str("erc20")])

Hook  == Obj([target |-> Str("x"), value |-> Str("0"), callData |-> Str("x")])
Quote == Obj([sellAmount |-> Str("5"), buyAmount |-> Str("5"), fee |-> Str("0")])
Hint  == Obj([f \in {"liquidityProvider", "protocolAdapter", "receiver", "token", "amount"} |-> Str("5")])
Wrap  == Obj([address |-> Str("x"), data |-> Str("x"), isOmittable |-> Bool(TRUE)])

Surplus == Obj([kind |-> Str("surplus"), factor |-> Num("half"), maxVolumeFactor |-> Num("7")])
Improve == Obj([kind |-> Str("priceImprovement"), factor |-> Num("half"),
                maxVolumeFactor |-> Num("7"), quote |-> Quote])
Volume  == Obj([kind |-> Str("volume"), factor |-> Num("half")])

Rich == With(Plain, [uid |-> Str("u2"), preInteractions |-> Arr(<<Hook>>),
                     feePolicies |-> Arr(<<Surplus, Improve, Volume>>), flashloanHint |-> Hint,
                     wrappers |-> Arr(<<Wrap>>), receiver |-> Str("x")])

Entry(kind, id) == [f \in LiquidityFields[kind] |-> Str("5")]
                   @@ [kind |-> Str(kind), id |-> Str(id), address |-> Str("x"), gasEstimate |-> Str("5")]

Reserve(kind) == Obj([f \in ReserveFields[kind] |-> Str("5")])
Pooled(kind, id) == Obj([tokens |-> Obj([A |-> Reserve(kind), b |-> Reserve(kind)])] @@ Entry(kind, id))
Ticked == Obj([tokens |-> Arr(<<Str("A"), Str("b")>>), tick |-> Num("7"),
               liquidityNet |-> Obj([n \in {"1", "2"} |-> Str("5")])]
              @@ Entry("concentratedLiquidity", "p4"))

Document(orders, pools, tokens) ==
    Obj([id |-> Str("5"), effectiveGasPrice |-> Str("5"), deadline |-> Str("soon"),
         surplusCapturingJitOrderOwners |-> Arr(<<>>), tokens |-> Obj(tokens),
         orders |-> Arr(orders), liquidity |-> Arr(pools)])

Small == Document(<<Plain, With(Plain, [uid |-> Str("u3")])>>,
                  <<Pooled("constantProduct", "p1")>>, [A |-> Token("5"), b |-> Token("5")])

Large == Document(<<Plain, Rich>>,
                  <<Pooled("constantProduct", "p1"), Pooled("stable", "p2"),
                    Pooled("weightedProduct", "p3"), Ticked, Obj(Entry("limitOrder", "p5"))>>,
                  [A |-> Token("5"), b |-> Token("0")])

Starts == {Small, Large}

-----------------------------------------------------------------------------
MCFieldOf == [UID |-> "uid", Kind |-> "kind", ID |-> "id", Tokens |-> "tokens",
              SellAmount |-> "sellAmount", FlashLoanHint |-> "flashloanHint",
              ReferencePrice |-> "referencePrice", FeePolicies |-> "feePolicies"]

Values == {Null, Str(""), Str("0"), Str("U1"), Str("p1"), Num("7"), Num("big"), Bool(TRUE),
           Arr(<<>>), Arr(<<Null>>), Obj(<<>>), Hint}

(* An object with a key dropped, misspelled, set or added. *)
Changed(v) ==
    { Obj(Without(v, k)) : k \in DOMAIN v.obj }
    \cup { Obj((k :> v.obj[MCFieldOf[k]]) @@ Without(v, MCFieldOf[k]))
            : k \in {k \in DOMAIN MCFieldOf : MCFieldOf[k] \in DOMAIN v.obj} }
    \cup { With(v, k :> x) : k \in DOMAIN v.obj \cup DOMAIN MCFieldOf \cup {"extra", "flashloanHint"}, x \in Values }

MCEdits(v) == UNION { { Put(v, p, w) : w \in Changed(Place(v, p)) } : p \in Sites(v) }

-----------------------------------------------------------------------------
MCIntOf  == [n \in {"0", "7", "-1"} |-> IF n = "0" THEN 0 ELSE IF n = "7" THEN 7 ELSE -1]
                @@ [n \in {"big"} |-> 99]
MCU256Of == [n \in {"0", "5"} |-> IF n = "0" THEN 0 ELSE 5]

MCLowerOf == [A |-> "a", U1 |-> "u1"]

MCResults == { <<>>,
               <<[prices |-> {"a", "b"}, trades |-> <<"u1", "u3">>, interactions |-> <<>>, gas |-> 5]>>,
               <<[prices |-> {"a", "b"}, trades |-> <<"u1">>, interactions |-> <<"p1", "p2">>, gas |-> 0],
                 [prices |-> {"a", "b"}, trades |-> <<"u3">>, interactions |-> <<"p1">>, gas |-> 5]>> }

NoFolds == [x \in {} |-> x]

-----------------------------------------------------------------------------
(* One notification of every kind with fields of its own, and the edits. *)
MCHexSize == [t \in {"0x", "0x20", "0x32"} |->
                CASE t = "0x" -> 0 [] t = "0x20" -> 20 [] t = "0x32" -> 32]

AddressText == Str("0x20")
WordText    == Str("0x32")

Tx == Obj([from |-> AddressText, to |-> AddressText, input |-> Str("0x"), value |-> Str("5"),
           accessList |-> Arr(<<Obj([address |-> AddressText, storageKeys |-> Arr(<<WordText>>)])>>)])

Note(kind, f) == Obj([kind |-> Str(kind)] @@ f)

NoteStarts ==
    { Note("simulationFailed", [block |-> Num("7"), tx |-> Tx, succeededOnce |-> Bool(TRUE)]),
      Note("missingPrice", [tokenAddress |-> AddressText]),
      Note("nonBufferableTokensUsed", [tokens |-> Arr(<<AddressText, AddressText>>)]),
      Note("solverAccountInsufficientBalance", [required |-> Str("5")]),
      Note("success", [transaction |-> WordText, auctionId |-> Str("5"), solutionId |-> Num("7")]),
      Note("driverError", [reason |-> Str("x"), solutionId |-> Arr(<<Num("0"), Num("7")>>)]),
      Note("timeout", [extra |-> Obj([kind |-> Null])]) }

IdKeys == {"auctionId", "solutionId", "kind", "AuctionId", "extra"}

NoteValues == {Null, Str(""), Str("5"), Str("x"), AddressText, Num("7"), Num("half"), Bool(FALSE),
               Arr(<<>>), Arr(<<Null>>), Arr(<<Num("7")>>), Arr(<<Num("half")>>), Obj(<<>>)}

ChangedNote(v) ==
    { Obj(Without(v, k)) : k \in DOMAIN v.obj }
    \cup { With(v, k :> x) : k \in DOMAIN v.obj \cup IdKeys, x \in NoteValues }

MCNoteEdits(v) == UNION { { Put(v, p, w) : w \in ChangedNote(Place(v, p)) } : p \in Sites(v) }

-----------------------------------------------------------------------------
(* The fixtures of testdata/contracts and manifests that go wrong in one   *)
(* or two places.                                                          *)

(* Meanings are functions of fields, so that all of them compare. *)
Says(t) == [text |-> t]
AnAuction == Says("auction")
ASolution == Says("solution")
MCNone    == Says("no solutions")
MCNull    == Says("null solutions")
Full      == [kind |-> "success", auctionId |-> "5", solutionId |-> "7"]
Bare      == [kind |-> "success"]
MCBad     == Says("unreadable")

MCSolved  == [m \in {AnAuction, Says("unsolved")} |-> IF m = AnAuction THEN ASolution ELSE MCNone]
MCRecoded == [m \in {Full, Bare} |->
                [kind |-> "success", auctionId |-> IF m = Full THEN "5" ELSE "null",
                 solutionId |-> IF m = Full THEN "7" ELSE "null"]]

Data(is, meaning) == [is |-> is, meaning |-> meaning]

File(type, data) == [type |-> type, data |-> data]

Contents == [a |-> {Data("auction", AnAuction), Data("auction", Says("unsolved")),
                    Data("auction", MCBad), Data("broken", AnAuction)},
             s |-> {Data("solution", ASolution), Data("solution", MCNone), Data("auction", AnAuction)},
             n |-> {Data("notification", Full), Data("notification", Bare), Data("notification", MCBad)}]

Data1(name) == CHOOSE d \in Contents[name] : d.meaning \in {AnAuction, ASolution, Full}
                    /\ d.is = CASE name = "a" -> "auction" [] name = "s" -> "solution"
                              [] OTHER -> "notification"

(* The names in the directory, with the type of one and the data of all. *)
MCDirectories ==
    { [x \in names |->
          IF x = "readme" THEN File("file", Data1("s"))
          ELSE IF x = "x" THEN File(type, Data1("s")) ELSE File("file", d[x])]
      : names \in {{"a", "s", "n"}, {"a", "s", "n", "readme"}, {"a", "n"}, {"a", "s", "n", "x"}},
        type \in {"file", "symlink"},
        d \in [a : Contents.a, s : Contents.s, n : Contents.n] }

Listed(path, kind, data) == [path |-> path, kind |-> kind, sha256 |-> data]

EA == Listed("a", "auction", Data1("a"))
ES == Listed("s", "solution", Data1("s"))
EN == Listed("n", "notification", Data1("n"))

Lists == { <<EA, ES, EN>>, <<EN, ES, EA>>, <<EA, ES>>, <<>>, <<EA, EA, ES, EN>>,
           <<Listed("a", "auction", Data("auction", Says("unsolved"))), ES, EN>>,
           <<Listed("a", "auction", Data("auction", Says("unsolved"))),
             Listed("s", "solution", Data("solution", MCNone)), EN>>,
           <<EA, ES, Listed("n", "notification", Data("notification", MCBad))>>,
           <<EA, ES, Listed("n", "notification", Data("notification", Bare))>>,
           <<Listed("a", "auction", Data("auction", MCBad)), ES, EN>>,
           <<EA, ES, EN, Listed("../x", "solution", Data1("s"))>>,
           <<EA, ES, EN, Listed("x", "solution", Data1("s"))>>,
           <<EA, Listed("s", "other", Data1("s")), EN>> }

MCManifests ==
    [pinned : BOOLEAN, fixtures : Lists,
     pairs : {<<>>, <<[auction |-> "a", solution |-> "s"]>>, <<[auction |-> "n", solution |-> "s"]>>,
              <<[auction |-> "a", solution |-> "x"]>>},
     trips : {<<>>, <<"n">>, <<"n", "s">>}]
=============================================================================
