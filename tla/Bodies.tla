------------------------------- MODULE Bodies -------------------------------
(***************************************************************************)
(* What the engine makes of a body, one part of it per behaviour:          *)
(*   solve     an auction from the body to the reply (Admission)           *)
(*   notify    a notification into the evidence and back (Notifications)   *)
(*   walk      any body, token by token (UniqueJSON)                       *)
(*   fixtures  the checked-in bodies (ContractCheck)                       *)
(* The variables of the other parts are idle; where the part that runs     *)
(* stands is at.                                                           *)
(***************************************************************************)
CONSTANTS
    Parts,                                                \* the parts to run
    NumberTexts, Int64Texts, Uint64s,                     \* of the contract
    FieldOf, IntOf, Int32s, U256Of, Deadlines, MaxUint8, MaxUint32, LowerOf, FoldOf,
    Documents, Edits(_), MaxEdits, Results,               \* solve
    HexSize, U256Texts,
    NoteDocuments, NoteEdits(_), MaxNoteEdits,            \* notify
    Keys, MaxTokens,                                      \* walk
    Directories, Manifests, SafeNames, JSONNames, Solved, Recoded,
    NoSolutions, NullSolutions, Unreadable                \* fixtures

VARIABLES part, at,
          doc, edits,                      \* solve and notify
          mode, auction, status,           \* solve
          notification, record, again,     \* notify
          read, stack, result,             \* walk
          dir, manifest, item, listed      \* fixtures

A == INSTANCE Admission WITH pc <- at
N == INSTANCE Notifications WITH
        pc <- at, Documents <- NoteDocuments, Edits <- NoteEdits, MaxEdits <- MaxNoteEdits
W == INSTANCE UniqueJSON WITH pc <- at
C == INSTANCE ContractCheck WITH pc <- at, i <- item

(* What the proofs about the four parts assume. *)
ASSUME BodiesAssumption == A!NoFieldIsAnAlias /\ W!WalkConstants /\ C!ContractConstants

-----------------------------------------------------------------------------
bodyVars    == <<doc, edits>>
auctionVars == <<mode, auction, status>>
noteVars    == <<notification, record, again>>
walkVars    == <<read, stack, result>>
fixtureVars == <<dir, manifest, item, listed>>

bodiesVars == <<part, at, bodyVars, auctionVars, noteVars, walkVars, fixtureVars>>

BodyIdle    == doc = A!Nil /\ edits = 0
AuctionIdle == mode = A!Nil /\ auction = A!Nil /\ status = 0
NoteIdle    == notification = A!Nil /\ record = A!Nil /\ again = A!Nil
WalkIdle    == read = <<>> /\ stack = <<>> /\ result = "none"
FixtureIdle == dir = A!Nil /\ manifest = A!Nil /\ item = 0 /\ listed = <<>>

BodiesInit ==
    /\ part \in Parts
    /\ \/ part = "solve" /\ A!Init /\ NoteIdle /\ WalkIdle /\ FixtureIdle
       \/ part = "notify" /\ N!Init /\ AuctionIdle /\ WalkIdle /\ FixtureIdle
       \/ part = "walk" /\ W!Init /\ BodyIdle /\ AuctionIdle /\ NoteIdle /\ FixtureIdle
       \/ part = "fixtures" /\ C!Init /\ BodyIdle /\ AuctionIdle /\ NoteIdle /\ WalkIdle

BodiesNext ==
    /\ UNCHANGED part
    /\ \/ part = "solve" /\ A!Next /\ UNCHANGED <<noteVars, walkVars, fixtureVars>>
       \/ part = "notify" /\ N!Next /\ UNCHANGED <<auctionVars, walkVars, fixtureVars>>
       \/ part = "walk" /\ W!Next /\ UNCHANGED <<bodyVars, auctionVars, noteVars, fixtureVars>>
       \/ part = "fixtures" /\ C!Next /\ UNCHANGED <<bodyVars, auctionVars, noteVars, walkVars>>

BodiesSpec == BodiesInit /\ [][BodiesNext]_bodiesVars

-----------------------------------------------------------------------------
(* What was admitted is what a decoder reads that compares keys exactly.   *)
ReadsWhatTheDriverWrote == part = "solve" => A!ReadsWhatTheDriverWrote

(* An admitted auction is fit for Solve: amounts, unique uids and ids, and *)
(* one price for each token.                                               *)
FitToSolve == part = "solve" => A!FitToSolve

(* An order Solve may settle has nothing in the document that Solve does   *)
(* not look at: no hook, wrapper, fee, hint or balance of another kind.    *)
NothingIgnored == part = "solve" => A!NothingIgnored

(* Whatever Solve returns, the check of the contract on the reply passes.  *)
AnswersPassTheContract == part = "solve" => A!AnswersPassTheContract

(* A notification that was accepted is recorded with every field the       *)
(* driver sent, and reading the record gives it back.                      *)
RoundTrip == part = "notify" => N!RoundTrip

(* A body passes the walk exactly when it means the same to every decoder. *)
WalkExact == part = "walk" => W!WalkExact

(* A contract check that passes vouches for the whole directory.           *)
PassVouches == part = "fixtures" => C!PassVouches
=============================================================================
