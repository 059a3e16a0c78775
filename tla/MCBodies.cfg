SPECIFICATION BodiesSpec
CONSTANTS
    Parts = {"solve", "notify", "walk", "fixtures"}
    NumberTexts = {"0", "5"}
    Int64Texts = {"0", "5"}
    Uint64s = {"0", "7"}
    FieldOf <- MCFieldOf
    IntOf <- MCIntOf
    Int32s = {"0", "7", "-1"}
    U256Of <- MCU256Of
    Deadlines = {"soon"}
    MaxUint8 = 9
    MaxUint32 = 9
    Documents <- Starts
    Edits <- MCEdits
    MaxEdits = 1
    LowerOf <- MCLowerOf
    FoldOf <- NoFolds
    Results <- MCResults
    HexSize <- MCHexSize
    NoteDocuments <- NoteStarts
    NoteEdits <- MCNoteEdits
    U256Texts = {"0", "5", "0x20"}
    MaxNoteEdits = 2
    Keys = {"a", "b"}
    MaxTokens = 11
    SafeNames = {"a", "s", "n", "x", "readme"}
    JSONNames = {"a", "s", "n", "x"}
    Directories <- MCDirectories
    Manifests <- MCManifests
    Solved <- MCSolved
    Recoded <- MCRecoded
    NoSolutions <- MCNone
    NullSolutions <- MCNull
    Unreadable <- MCBad
CHECK_DEADLOCK FALSE
INVARIANTS ReadsWhatTheDriverWrote FitToSolve NothingIgnored AnswersPassTheContract
    RoundTrip WalkExact PassVouches
