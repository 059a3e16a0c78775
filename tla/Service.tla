------------------------------ MODULE Service ------------------------------
(***************************************************************************)
(* The process: cmd/solver's main, the HTTP handlers of internal/server    *)
(* and the recorder they share, from the first request to the last file    *)
(* closed.  A request makes at most one call of the recorder, under its    *)
(* own name.  What Solve computes is Solve's subject; here it takes time,  *)
(* and net/http runs every handler in a goroutine of its own.              *)
(***************************************************************************)
EXTENDS Naturals, Sequences

CONSTANTS Calls, MaxDay, Nobody     \* as in Recorder; Calls are the requests

ASSUME ServiceAssumption == MaxDay \in Nat \ {0} /\ Nobody \notin Calls

VARIABLES phase, clock, mu, day, file, fds, disk, pc, kind, stamp, outcome

R == INSTANCE Recorder

VARIABLES
    main,       \* serving, draining (in Shutdown), returning (Shutdown is over)
    timedOut,   \* Shutdown gave up on handlers still running
    req,        \* where each request's handler is
    answer,     \* what the client got
    logged      \* the requests whose failed record was logged

service  == <<main, timedOut, req, answer, logged>>
recorder == <<phase, clock, mu, day, file, fds, disk, pc, kind, stamp, outcome>>
vars     == <<service, recorder>>

Requests == Calls
Running(c) == req[c] \in {"reading", "solving", "recording"}

Init ==
    /\ R!Init
    /\ main = "serving" /\ timedOut = FALSE
    /\ req = [c \in Requests |-> "none"]
    /\ answer = [c \in Requests |-> "none"]
    /\ logged = {}

Moves(c, where) == req' = [req EXCEPT ![c] = where]

(* The handler returns: the client has its answer. *)
Answers(c, what) ==
    /\ Moves(c, "answered")
    /\ answer' = [answer EXCEPT ![c] = what]

-----------------------------------------------------------------------------
(***************************************************************************)
(* handleSolve and handleNotify.                                           *)
(***************************************************************************)
Accept(c) ==
    /\ phase = "up" /\ main = "serving" /\ req[c] = "none"
    /\ Moves(c, "reading")
    /\ UNCHANGED <<recorder, main, timedOut, answer, logged>>

(* The body is too large, malformed or breaks the wire contract: a 4xx for *)
(* an auction, a plain 200 for a notification; neither is recorded.        *)
Refuse(c) ==
    /\ phase # "down" /\ req[c] = "reading"
    /\ Answers(c, "refused")
    /\ UNCHANGED <<recorder, main, timedOut, logged>>

(* Less than 200 ms are left: no solutions, and no record. *)
TooLate(c) ==
    /\ phase # "down" /\ req[c] = "reading"
    /\ Answers(c, "late")
    /\ UNCHANGED <<recorder, main, timedOut, logged>>

StartSolving(c) ==
    /\ phase # "down" /\ req[c] = "reading"
    /\ Moves(c, "solving")
    /\ UNCHANGED <<recorder, main, timedOut, answer, logged>>

(* Solve is back: rec.Auction is called whether or not the context ended. *)
RecordAuction(c) ==
    /\ req[c] = "solving"
    /\ R!Stamp(c, "auctions")
    /\ Moves(c, "recording")
    /\ UNCHANGED <<main, timedOut, answer, logged>>

RecordNotification(c) ==
    /\ req[c] = "reading"
    /\ R!Stamp(c, "notifications")
    /\ Moves(c, "recording")
    /\ UNCHANGED <<main, timedOut, answer, logged>>

Recording(c) ==
    /\ req[c] = "recording"
    /\ R!Step(c)
    /\ UNCHANGED service

(* Mutant: the recorder's error is dropped. *)
LogFailure_dropped(c) == UNCHANGED logged

LogFailure(c) ==
    logged' = IF outcome[c] = "err" THEN logged \cup {c} ELSE logged

(* writeJSON, or the 500 of a response that breaks the wire contract. *)
Reply(c) ==
    /\ phase # "down" /\ req[c] = "recording" /\ pc[c] = "done"
    /\ LogFailure(c)
    /\ \/ Answers(c, "ok")
       \/ kind[c] = "auctions" /\ Answers(c, "serverError")
    /\ UNCHANGED <<recorder, main, timedOut>>

-----------------------------------------------------------------------------
(***************************************************************************)
(* main: a signal, Shutdown with its 15 seconds, the deferred Close, and   *)
(* the end of the process, which ends every handler still running.         *)
(***************************************************************************)
Signal ==
    /\ phase = "up" /\ main = "serving"
    /\ main' = "draining"
    /\ UNCHANGED <<recorder, timedOut, req, answer, logged>>

(* Mutant: the server is closed without waiting for its handlers. *)
Drained_at_once ==
    /\ phase = "up" /\ main = "draining"
    /\ main' = "returning"
    /\ UNCHANGED <<recorder, timedOut, req, answer, logged>>

Drained ==
    /\ phase = "up" /\ main = "draining" /\ \A c \in Requests : ~Running(c)
    /\ main' = "returning"
    /\ UNCHANGED <<recorder, timedOut, req, answer, logged>>

(* Mutant: Shutdown with a context that never ends. *)
DrainTimeout_never ==
    /\ FALSE
    /\ UNCHANGED vars

DrainTimeout ==
    /\ phase = "up" /\ main = "draining" /\ \E c \in Requests : Running(c)
    /\ main' = "returning" /\ timedOut' = TRUE
    /\ UNCHANGED <<recorder, req, answer, logged>>

CloseRecorder ==
    /\ main = "returning" /\ R!Close
    /\ UNCHANGED service

(* What the process's end does to its clients. *)
Gone == /\ req' = [c \in Requests |-> IF Running(c) THEN "lost" ELSE req[c]]
        /\ UNCHANGED <<main, timedOut, answer, logged>>

Exit == phase = "closed" /\ R!ProcessDies /\ Gone

Crash == phase = "up" /\ R!ProcessDies /\ Gone

Restart ==
    /\ R!Restart
    /\ main' = "serving" /\ timedOut' = FALSE
    /\ UNCHANGED <<req, answer, logged>>

Tick == R!Tick /\ UNCHANGED service

Handler(c) ==
    \/ RecordAuction(c) \/ Recording(c) \/ Reply(c)

ShutDown == Drained \/ DrainTimeout \/ CloseRecorder \/ Exit

Next ==
    \/ \E c \in Requests :
          Accept(c) \/ Refuse(c) \/ TooLate(c) \/ StartSolving(c) \/ RecordNotification(c)
          \/ Handler(c)
    \/ Signal \/ ShutDown \/ Crash \/ Restart \/ Tick

(***************************************************************************)
(* Handlers that have read their request run to their end, main runs; a    *)
(* client may take its time with the body.                                 *)
(***************************************************************************)
Progress(c) ==
    \/ RecordAuction(c) \/ Reply(c)
    \/ req[c] = "recording" /\ R!Progress(c) /\ UNCHANGED service

Fairness == (\A c \in Requests : WF_vars(Progress(c))) /\ WF_vars(ShutDown)

Spec == Init /\ [][Next]_vars /\ Fairness

-----------------------------------------------------------------------------
StoredWhole(c) ==
    \E i \in DOMAIN disk[kind[c]][stamp[c]] :
        disk[kind[c]][stamp[c]][i] = [call |-> c, part |-> "line"]

(* "Failures are surfaced and logged rather than silently discarded"       *)
(* (README): when the client has the result of an auction or notification, *)
(* its record is in the file or its loss is in the log, whatever other     *)
(* handlers, the rotation and the shutdown did meanwhile.                  *)
NoSilentLoss ==
    \A c \in Requests :
        answer[c] \in {"ok", "serverError"} => StoredWhole(c) \/ c \in logged

(* A shutdown that did not time out waited for everyone: when the recorder *)
(* is closed no handler uses it, and every file is closed with it.         *)
CleanShutdown ==
    phase = "closed" /\ ~timedOut =>
        /\ \A c \in Requests : ~Running(c) /\ ~R!InFlight(c)
        /\ \A k \in R!Kinds, d \in R!Days : fds[k][d] = 0

(* What the handlers get from the recorder is the evidence log: a call     *)
(* stores one line or none, atomically, in the slot it was given, and is   *)
(* answered, with the mutex, the handles and the failures hidden.          *)
ImplementsEvidenceLog == R!ImplementsEvidenceLog

(* Whatever the clients do, a signalled process ends. *)
ShutdownEnds == main = "draining" ~> phase = "down"

(* A request whose body has been read is answered or dies with the process. *)
HandlersReturn ==
    \A c \in Requests : req[c] \in {"solving", "recording"} ~> ~Running(c)
=============================================================================
