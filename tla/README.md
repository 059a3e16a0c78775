# Verification of the Aladdin solver engine

The repository is a shadow solver engine for CoW Protocol auctions.  A driver on the same
host posts an auction to `/solve`; the engine parses the liquidity it brings, matches orders
against one another, routes the rest through pools, answers with proposed settlements, and
keeps a record of every auction and of every `/notify` as evidence.  This directory holds TLA+
models of that engine, TLC configurations that check them on small instances, and proofs that
TLAPS checks for every value of the constants.

## The system

| Component | State | Operations | Used by |
|---|---|---|---|
| `cmd/solver` main | configuration, HTTP server, recorder | start, signal, `Shutdown` with 15 s, deferred `Close` | systemd restarts it |
| `internal/server` | none of its own; one goroutine per request | `handleSolve`, `handleNotify`, `/health` | net/http |
| `internal/record` | mutex, current day, two file handles; files on disk | `Auction`, `Notification`, rotation, `Close` | all handlers, concurrently |
| `internal/solve` `Solve` | local: pools, orders, matches, solutions, stats | pass 1 (CoW matching), pass 2 (routing), cap | `handleSolve` |
| `internal/solve` graph | pools by token, pivots | `BestRouteContext`, `better` | pass 2 |
| `internal/solve` `minInputFor` | binary search | probes of `BestRouteContext` | buy orders |
| `internal/solve` pools | none | `BuildPoolsContext`, `buildPool`, its readers of numbers | `Solve` |
| `internal/amm` | none | checked uint256, constant product, concentrated liquidity, stable pools | graph |
| `internal/api`, `internal/contract` | none | decoding and encoding, validation, wire contract, walk for repeated keys | server, recorder, `contractcheck` |
| `cmd/report` | position in the files, records read | reads the evidence back: `eachLine`, percentiles, listings | operators, beside a running engine |
| `cmd/contractcheck` | fixtures listed so far | digests, inventory, replay, round trips | CI |
| `scripts`, `deploy` | none | pin checks, unit file | CI, operators |

What is hard about it:

* **Concurrency**: only the recorder is shared.  Handlers stamp their record before they take
  the mutex, so calls reach the files out of timestamp order, across midnight too; main closes
  the recorder under handlers that outlived the shutdown.
* **Failure**: each of open, chmod, write (in part) and close may fail; the process may die
  inside a write and is restarted on the same files.
* **Deadlines**: the auction's context may end between any two quotes, matches or orders, and
  whatever was found so far is the answer.
* **Numbers**: uint256 overflow is an error, so quotes are partial functions; rounding must
  favour the pool; loops are bounded; gas sums overflow uint64.
* **Two passes over the same orders**, with counters that are meant to add up.
* **Names**: JSON keys are matched to fields without case, and addresses are compared in three
  ways (as spelled, lower case, `EqualFold`), in maps that Go visits in any order.
* **Readers beside writers**: the report reads files the engine is appending to.

What makes each component correct is listed below with the module that models it;
`PROJECT.json` lists the hazards with their lines.

## Modules

| Module | Models | Checked by |
|---|---|---|
| `EvidenceLog` | what the recorder promises: a call stores one line in its slot or none, and learns which | refinement, run `service` |
| `Recorder` | `internal/record` step by step, with failures, death and restart | `MCReport`, `MCRecorderReadable.cfg`, `RecorderProofs` |
| `Report` | `cmd/report` reading the files while the recorder (which it extends) appends to them | `MCReport`, `ReportProofs` |
| `Summary` | the percentiles and listings `cmd/report` prints | `MCReport`, `ReportProofs` |
| `Evidence` | the two side by side, one per behaviour | `MCReport`, `ReportProofs` |
| `Service` | main, the handlers and the recorder (an instance of `Recorder`) together | `MCService.cfg`, `ServerProofs` |
| `U256` | checked arithmetic of any width | its users |
| `ConstantProduct`, `CPTrading` | the constant-product quote; a trader swapping at quotes | `MCPools`, `QuoteProofs` |
| `StableMath`, `StableTrading` | the stable-pool quote with its two Newton iterations; a trader swapping at quotes | `MCPools`, `QuoteProofs` |
| `SwapMath`, `Concentrated` | one step of a concentrated swap; the loop through the ticks, and the swap back | `MCPools`, `QuoteProofs` |
| `PoolTrades` | the three kinds of trading side by side, one kind per behaviour | `MCPools`, `QuoteProofs` |
| `Graph`, `Router` | pools by token, pivots, the order on routes; the nested loops of the search, one quote at a time | `MCRouter`, `PoolProofs` |
| `MinInput` | `minInputFor` probe by probe | `MCMinInput`, `MCMinInputPools`, `QuoteProofs` |
| `Solve` | a whole auction: `BuildPoolsContext`, `eligible`, matching, both passes, cap and stats | `MCSolve`, `SolveProofs` |
| `Decimals` | the readers of decimals, fees, fixed-point values and integers | its users |
| `PoolBuilding` | `buildPool`, and how a pool is asked for a quote | `MCPoolBuilding`, `PoolProofs` |
| `DecimalInputs`, `DigitBounds` | every short text given to those readers; the digit limits, by doubling | `MCPoolBuilding` |
| `WireContract` | the validators of `internal/contract`, over JSON values | its users |
| `AuctionWire` | the decoder of an auction, with Go's matching of keys to fields, and its bounds | `Admission` |
| `Admission` | `/solve` from the body to the reply: contract, decoder, `validateAuction`, `writeJSON` | `MCBodies`, `ServerProofs` |
| `Notifications` | `/notify`: contract, decoder, record, and the record read again | `MCBodies`, `ServerProofs` |
| `UniqueJSON` | the walk for repeated keys, token by token | `MCBodies`, `ServerProofs` |
| `ContractCheck` | `cmd/contractcheck` from the manifest to the last round trip | `MCBodies`, `ServerProofs` |
| `Bodies` | these four side by side, one of them in a behaviour | `MCBodies`, `ServerProofs` |
| `Induction`, `GraphProofs` | nothing: induction and recursion over the naturals, and what the pool graph and its routes are, for the proofs | `PoolProofs`, `SolveProofs`, `QuoteProofs`, `ServerProofs` |
| `DocumentEdits` | how the runs edit the documents they start from | |

The layers are cut where the code has a function: `Solve` uses `BestRoute` of `Graph`, a
loop-free statement of what the search returns, and `Router` shows that the loops return it;
`Solve` and `MCMinInputPools` take quotes from `ConstantProduct`; `Service` treats what `Solve`
computes as a step that takes time, and a body as refused or not; `Admission` shows that what is
not refused is what `Solve` assumes (distinct UIDs, positive amounts, one price per token).

`PoolTrades`, `Bodies`, `Evidence` and `MCPoolBuilding` each hold several machines that share a
subject and nothing else.  A behaviour picks one in its first state and runs it; the variables of
the others stay idle.  Properties of an instantiated module are restated there under their name.

Some checked properties are conjunctions of named parts: `ReportExact` (`NothingMissed`,
`CountedOnce`, `DamageReported`), `SummaryExact` (`NearestRank`, `OneListing`), `StatsAddUp`
(`PoolsAccounted`, `NoOrderLost`), `WalkExact` (`Unambiguous`, `NoFalseAlarm`), and
`NumbersExact` (one part per reader of numbers).

Definitions named `X_...` right before `X` are mutants: the same code with a plausible bug, which
the property listed with it in `PROJECT.json` detects.

### State and actions

*Recorder.*  `mu`, `day` and `file` are the struct's fields; `fds` counts the descriptors the
process really holds, which the code does not track; `disk` holds, per kind and day, the chunks
each Write left (a whole line, a text without its newline, a torn prefix).  `Stamp`,
`EncodeFails`, `Lock`, `Rotate`, `Open`, `Write` are the stages of a call; early returns end it
with `"err"` and the deferred Unlock.  `Close`, `ProcessDies`, `Restart`, `Tick` are the rest of
the world.

*Report.*  `rpc` is where main is, `todo` the paths Glob gave it, `pos` and `buf` the scanner.
`EndOfFile` may see a part of the line a call is writing at that moment.  `before` and `damaged`
remember the files as they were when the report started.

*Service.*  A request is read, refused, too late, or solved and recorded, then answered.  `main`
serves, drains and returns; `DrainTimeout` is Shutdown's 15 seconds.

*Solve.*  `pc` is the stage, `k` the position in its loop; each iteration is a step and looks at
`expired` first, as the code looks at `ctx.Err()`.  A deadline that passes inside `routeOrder`
discards that order only, which is the same as passing just before it.

In `Balances` a token's inflow may exceed its outflow only where a buy order buys it: the route
may yield more than the order asks for, and the excess stays in the settlement.

*Router.*  `mid`, `first` and `second` are the positions of the three nested loops, the pool of a
direct route being a `first`; each iteration is a step behind the context check.  Where the code
says `continue` the candidate is `NoRoute`, which never wins; a first pool that cannot reach the
pivot is compared with each second one all the same, to no effect.

*MinInput.*  One probe per step, behind the context check.  `Solve` has the same search as a
recursive function bounded by `Iterations`.

*StableMath.*  Scale, amplification precision, width and loop bound are constants.  Every loop is
`Loop`, which applies what its turns do one after the other; `Newton` is the loop of both solvers,
with the early return as a flag.  An invariant of zero is `NilNil`, because the code then returns
neither an amount nor an error.

*Concentrated.*  Prices, Q96, widths and the fee scale are constants, so the same formulas run
on a small scale; tick prices are an increasing table.  `SellBack` is the settlement: it sells
the output back to the moved pool.

*PoolBuilding.*  Each loop over a Go map takes the next key by choice (`Collect`, `ReadTick`), and
leaves at the first thing wrong.  `Look` takes any key that folds equal, as `reserveOf` does.
Numbers are texts, converted by `Decimals` as the code converts them.

*Admission, Notifications.*  JSON values are tagged records, so that a number and a text differ.
`Edit` changes the driver's document before `Post`; `mode` is the order of keys that match one
field, which decides what Go's decoder keeps.  Texts are members of small sets whose meaning
(number, width, lower case) is given by constants.

*UniqueJSON.*  The recursion of `walkJSONValue` is the stack of open objects and arrays.

*ContractCheck.*  `pc` is the stage of `run`, `i` the position in its loop; any error ends it.

## Runs

| Run | Bounds | Result |
|---|---|---|
| `evidence` | 3 calls, 2 days, symmetric, one report; 21 records of 3 latencies, 3 kinds of skips | records in their own file, exact answers, one descriptor per handle, files only grow; a printed report missed nothing acknowledged before it, counts nothing twice and never comes from damaged files; percentiles are nearest ranks; listings do not depend on map order |
| `recorder_readable` | 2 calls, 1 day | **violated**: see findings |
| `service` | 2 requests, 2 days | no silent loss; clean shutdown; the recorder under the handlers implements `EvidenceLog`; shutdown ends; handlers return |
| `pools` | constant product: width 255, reserves to 7; stable: 2 and 3 tokens, balances to 11, unequal scaling, amplification 0.5 and 2.5, width 32767, scale 4; concentrated: 18 prices, 4 tick ladders, 3 fees, 3 steps, width 255 | no sequence of swaps makes money; a stable quote is an amount or an error and never lowers the invariant; a concentrated swap takes no more than is left, follows its ticks, moves with the trade and cannot be reversed at a profit |
| `concentrated_tick` | the concentrated pools with every tick | **violated**: see findings |
| `router` | every ordered choice of up to 4 of 6 pools | the loops return the best route or the context's error, and never get stuck |
| `min_input` | every quote function of the instance | answers buy; smallest for monotone quotes; bound never reached; never stuck |
| `min_input_pools` | constant-product quotes that overflow | **violated**: see findings |
| `solve` | up to 3 of 8 orders, 3 liquidity lists, 2 price tables, 3 configurations | every solution settles; no order twice; matching maximal; pools and orders accounted for; ends |
| `solve_stats` | the same, 2 orders | **violated**: see findings |
| `bodies` | one edit of two auctions with every object the contract names, two edits of seven notifications, 11 tokens, fixtures wrong in up to two places | an admitted auction is what was written, fit for `Solve`, with nothing ignored, and its reply passes the contract; notifications survive record and replay; repeated keys are refused exactly; a passing contract check vouches for everything |
| `pool_building` | entries with up to two things wrong; texts of 5 characters; widths to 256 | a pool exactly for well-formed entries, fit to be quoted, each reserve on its side; decimals, fees and integers exact; the digit limit fits every width |

Why the bounds are enough to be interesting: two days give one midnight, which two calls can
cross in either order, and a third call can find the recorder rotated back; three orders are a
match, a competitor for one side of it and an order for pass 2; the ladders have a gap, nested
positions and adjacent ones, and the step limit of 3 is below the ladder of four ticks, so that
it is met; the 8-bit width makes both forms of `nextSqrtFromInput` and overflow occur; pool
catalogues contain ties in output and gas and sums that overflow; limits on pools, pivots and
orders are below what an instance can contain; 11 tokens are an object in an object beside
another, each with two keys; 21 latencies put the 95th percentile on both sides of a rank;
texts are longer than the digit limits of their widths.

*Fairness.*  A goroutine that can run eventually runs, and a mutex is handed over (Go's mutex
does not starve a waiter): weak fairness on the steps of a call and of a handler, except that
an encoding failure is never relied on (it would free a call from a mutex that is never
unlocked).  Nothing is assumed of clients (a body may never arrive), of the clock, of crashes or of
the supervisor.  For `Solve` the fairness is that the one goroutine keeps running.  The other
models state none.  `Router` and `MinInput` are checked for deadlock instead: `Returned` is the
only step left to a call that has returned, each other step moves the loop forward, and so a
state without a step would be a search that cannot end.  `evidence` and `service` are checked for it
too.  The remaining models end when their function returns, and do not check deadlock.

## Findings

* `AckedReadable`: a failed or interrupted Write leaves a fragment at the end of the file, the
  next call appends behind it, and the report's scanner reads both as one line: evidence whose
  call returned nil cannot be read back, and the report stops there (`DamageReported`: it never
  prints numbers from the rest).
* `Smallest`: `minInputFor` starts with a quote of the whole limit and assumes monotone outputs.
  A quote whose intermediate product overflows is an error, so a buy order with a generous
  limit is dropped although smaller inputs buy it.  `SearchComplete` and `QuoteMonotone` show
  that overflow is the only reason for constant-product pools.
* `StatsCountOrders`: the two orders of a match dropped for its gas are counted again when pass
  2 routes them, so the reasons add up to more than the orders.  `NoOrderLost` states the exact
  balance that does hold.
* `MovesWithTheTrade`, for pools as `buildPool` admits them: tick and price are two inputs that
  are never compared.  With a tick on the wrong side of the price the first step goes against
  the trade, and the quote is answered.  Where they agree the property holds: run `pools` checks it
  and `TradeMovesThePrice` proves it.

Met while modelling, without a run of their own:

* Duplicate addresses are looked for with `strings.ToLower` (`server.go:160`, `pools.go`), and
  looked up with `strings.EqualFold` (`pools.go:194`, `solve.go:357`), which joins letters that
  `ToLower` keeps apart (s and the long s).  Nothing requires an address to be hexadecimal; for
  two such names the reserve or price that is found depends on the order of a Go map.  The runs
  take lower case and folding to agree on the names one entry uses, but for a pool of just the
  two, which is built and supports no pair.
* `validHexOrDecimalU256` hands what follows `0x` to `big.Int.SetString`, which takes a sign:
  `0x+f` is an amount.  The models take such texts as a set with a given meaning.
* `contractcheck` compares a notification's bytes with its encoding, which always has both ids:
  one that leaves out an optional id "changed during round trip".  And it encodes the nil slice
  of an auction without solutions as null, where the handler answers `[]`: such an auction never
  replays (`Replayed` in `ContractCheck`).

## Proofs

For every value of the constants, checked by TLAPS.  None of the properties is inductive alone;
each proof names the invariant that is, in conjuncts, and has one step per action.

* `RecorderProofs`: `TypeCorrect`, `RecordsInTheirFile` (`RightFile`), `AnswersTrue`
  (`AnswerExact`), `DescriptorsBounded`, `FilesOnlyGrow`.  The invariant `IInv`
  adds where each call is in its protocol: a call past `Lock` holds the mutex, so at most one is;
  past `Rotate` the recorder's day is that call's day and every handle is on the recorder's day;
  past `Open` its handle is open; and a call that has not written has nothing on disk.
  From `MaxDay > 0` and `Nobody` not a call.
  `RefinesEvidenceLog` uses `IInv` to show that every step is a step of `EvidenceLog` or a
  stutter: a Write that leaves the whole line is the store, a failing or a dead call the refusal.
* `ReportProofs`: `ReportIsExact` (`ReportExact`), with the recorder, its failures and its restarts
  going on beside the report.  The invariant adds to `IInv` where the scanner stands: the chunks
  before `pos` are counted lines and then the line being collected (`ScanInv`); what is counted has
  its kind and day for good and comes from a file that is finished or from the part read
  (`CountInv`); and what was acknowledged, or damaged, when the report began is counted or still
  ahead, or the report has failed (`CoverInv`, `DamageInv`).
* `ReportProofs`: `SummaryIsExact` (`SummaryExact`), for any number of records and any latencies.
  The list stays ascending, so the elements up to a value are a prefix (`FirstOnes`) and the rank
  looked up is the least whose prefix is long enough (`RankIs`).  Count and name together order
  the kinds strictly, and a set has one listing by a strict total order (`OneListingOnly`).  From
  `SummaryAssumption`: the kinds are finitely many and no two are one string.
* `ServerProofs`, the process: `ResultsRecorded` (`NoSilentLoss`) and `ShutdownClean`
  (`CleanShutdown`), for any number of requests.  The handlers, main and the supervisor move the
  recorder only by its own steps (`RecorderUnderService`), so `IInv` of the recorder holds in the
  composition.  Added to it: a handler makes its one call between solving and answering and waits
  for it; an answer is sent after the call has returned and its error has been logged; and main
  closes the recorder after `Shutdown` has returned, when a drain that did not time out left no
  handler.
* `ServerProofs`, the bodies, each for any document, edited any number of times.  The part that
  runs is fixed in the first state (`OnePart`), so each part's own invariant carries over to
  `Bodies`.
  `WalkIsExact`: there is a frame for every open bracket, and the frame of an object holds the
  keys read since that bracket (`DepthIn` and `Bracket` compute both from the text alone).  From
  `WalkConstants`: no key is spelled as a delimiter.
  `AuctionReadExactly`, `AdmittedIsFit` and `SemanticsEncoded`: the document and what was decoded
  from it stay what they were when they passed each test.  They rest on `NoFieldIsAnAlias`: a key
  that Go's decoder would take for a field it is not spelled as is itself no field of the
  contract, which therefore has refused it, and the order of keys does not matter.
  `AdmittedIsFit` is stated where `ToLower` and `EqualFold` agree on the auction's tokens
  (`TokensPlain`); without that it is false, as said under the findings.
  `RepliesPass` and `NotificationsRoundTrip` need no assumption on the data: `MarshalID` undoes
  `UnmarshalID` for every id that is accepted.
  `CheckVouches`: every stage of `contractcheck` has established its claim for the elements passed.
  From `ContractConstants`: no valid solution says `"solutions": null`, what an auction without
  solutions replays to.
* `QuoteProofs`, constant product: `ProductNeverDecreases` (the floor of the quote keeps
  `reserveIn * reserveOut` from falling), `QuoteMonotone`, and `TradingSafe`, whose invariant is
  conservation of both tokens between pool and trader, the growing product, and that a pool with
  an empty side has never been traded with (its product would say nothing).
* `QuoteProofs`, concentrated liquidity: `StepTakesNoMore` (one step of `SwapMath`: input and fee
  are within what is left, and the price ends between where it was and its target, in every
  branch and for every rounding), and on it `NothingOverconsumed` (`NeverOverconsumed`),
  `StaysOnTheCurve` (`OnTheCurve`: the price is between the ticks around it and the liquidity is
  the pool's, changed by the `liquidityNet` of the ticks crossed, which are a range of the ladder
  that starts where `FirstTick` found the price) and `TradeMovesThePrice` (`MovesWithTheTrade`).
  `RoundTripNeverGains` (`NoRoundTripProfit`): what a pool is worth in each token is a function of
  its price alone; the swap and the swap back both settle on the pool's side of it, step by step
  and across the ticks (`TripInv`).  The last three assume that tick and price agree (`TickAgrees`), which the run
  `concentrated_tick` shows to be needed.  All of them take from `ConcentratedAssumption` that
  tick prices increase and that none is the largest price a swap may reach, `MaxRatio - 1`, as
  none of the code's is: its ticks end with `MaxRatio` itself.
* `QuoteProofs`, stable pools: `StableAnswers` (`AmountOrError`), for every width, scale and
  amplification.  The scaled balances are positive or refused; from positive balances and a
  positive value a Newton step for the invariant divides a number by one that is no larger, so it
  is positive again (`NextInvariantPositive`), however many steps are taken (`LoopIn`); and what
  the rest of the arithmetic makes of numbers is a number in range or an error.
* `QuoteProofs`, the search: `SearchTyped`, `SearchSound` (`AnswerBuys`), `BoundSuffices` (the size
  of the range is below `2^(Iterations - i)`, so the loop bound is never what ends it) and
  `SearchComplete` (for monotone quotes everything below `lo` fails and `bestIn` is `hi + 1` or
  the limit).
* `PoolProofs`, the search for a route: `SearchOptimal` (`ReturnsTheBest`).  The invariant: the
  route kept is one of the routes there are, and every direct route, pivot, first and second pool
  the loops have come past has been weighed against it.  It rests on `GraphProofs`: sorting a
  finite set by a total order succeeds; the index has exactly a token's pools; the order on routes
  is strict and total, because two different routes have different keys.  From ids that are unique
  and keys wide enough for ids and tokens.
* `PoolProofs`, building: `PoolIffWellFormed` (`BuiltIffWellFormed`), `PoolsQuotable` (`Quotable`)
  and `QuotesOnTheRightSides` (`QuotesTheRightSides`), for entries with any number of tokens and
  ticks and any order of Go's maps.  The invariant: the addresses and ticks collected are those of
  the keys passed, once each, and the rows are what the entry says of them; so a pool is what its
  entry says whichever keys came first.  All three are stated where lower case and folding agree
  (`PlainNames`): without that `Look` may take the reserve of another token, as the findings say.
* `SolveProofs`: `NoneTradesTwice` (`EachOrderOnce`), `NoMatchMissed` (`MatchingMaximal`),
  `StatsComplete` (`StatsAddUp`) and `SolutionsSettle` (`Settles`), for every auction the
  validation admits (`AuctionOK`), every configuration and every moment of the deadline.
  The invariant is built in layers, each inductive relative to those before it:
  `PoolsInv` (the entries before the `k`-th are in the pools or counted as skipped),
  `OrdersInv` (the orders are a selection of the auction's, each once),
  `MatchInv` (matches cross and share no order, and each element of the queue passed has
  its partner or none is left for it), `OnceInv` (what has been traded was passed by one of
  the two loops), `CountInv` (outcomes reported so far, against the positions of the loops and
  the orders settled by pass 1) and `SettleInv` (every solution settles).  The last one needs
  what a route carries from hop to hop (`RoutesCarry`), that the binary search ends on an
  input that buys (`MinInputBuys`), and that `executed * price \div price` is exact at
  the prices the code chooses (`DivExact`).

`Induction` has induction over the naturals in the form of sets and the existence of functions
defined by recursion, derived from the library's well-foundedness of the naturals.  With it the
proofs reason about recursive functions and sums over sequences (`PoolsWith`, `Eligible`,
`minInputFor`, `Total`), and about sorting, for every length.

Left to TLC: liveness under fairness, and with it the fairness half of the refinement of
`EvidenceLog`; `NumbersExact`, which weighs every character of a text by a power of ten (the
provers know nothing of `^`) and the widths by an estimate of log10(2); and of the stable pools
`NoProfitFromSwaps` and `ValueNeverFalls`: two Newton iterations that stop near a root leave no
invariant between their steps, and that the unit taken off the output covers what they miss is a
bound on convergence that none of the provers reaches.
`DocumentEdits` has RECURSIVE operators and is used by TLC's runs only.

## Not modelled, and why

* `GetSqrtRatioAtTick` works on 128-bit constants that have no small-scale counterpart; tick
  prices are a table that increases.
* The reading of environment variables in `main`, and the check that the listen address is a
  loopback one: one stateless conversion each.
* The sums `cmd/report` prints and their layout; the wording of errors and logs.
* `quoteStable`, which nothing calls.
* The characters of the hex and amount texts in a notification: the sets and widths of these
  texts are the constants `HexSize` and `U256Texts`.
* `scripts`, CI and the unit file, except that systemd restarts the process.
* That a stable pool with a small amplification may fail to converge: the model has the bound and
  the error, but at its scale every pool converges long before.

## Plan

The model is complete but for the list above, and every safety property of the runs is proved but
for those left to TLC.  With a theory of exponentiation for the provers, `NumbersExact` would be
next: that the readers of `Decimals` agree with the numbers their texts denote, at every length.
