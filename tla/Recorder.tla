------------------------------ MODULE Recorder ------------------------------
(***************************************************************************)
(* The evidence recorder of internal/record, called by concurrent HTTP     *)
(* handlers and closed by main.  A call takes its timestamp before it      *)
(* takes the mutex, so calls reach the files in another order than the one *)
(* of their timestamps, midnight included.  Every system call may fail.    *)
(* The process may die at any step and is restarted by its supervisor; the *)
(* files survive, descriptors and the Recorder value do not.               *)
(***************************************************************************)
EXTENDS Naturals, Sequences

CONSTANTS Calls,    \* calls of Recorder.Auction and Recorder.Notification
          MaxDay,   \* bound: the last UTC day of the instance
          Nobody    \* the holder of a free mutex

Days  == 1 .. MaxDay
NoDay == 0
Kinds == {"auctions", "notifications"}

ASSUME ConstantsAssumption == MaxDay \in Nat \ {0} /\ Nobody \notin Calls

(***************************************************************************)
(* What one Write left in a file: the whole line; the whole JSON text but  *)
(* not its newline; or a proper prefix of the JSON text.                   *)
(***************************************************************************)
Fragments == {"text", "torn"}
Parts     == Fragments \cup {"line"}
Chunks    == [call : Calls, part : Parts]

VARIABLES
    phase,    \* of the process: up, closed (main is returning), or down
    clock,    \* the current UTC day
    mu,       \* Recorder.mu: the call that holds it, or Nobody
    day,      \* Recorder.day, NoDay for ""
    file,     \* Recorder.auctions and .notifs: the day of the open file, NoDay for nil
    fds,      \* descriptors the process holds on the file of a kind and day
    disk,     \* disk[k][d]: the chunks of the file <kind>-<day>.jsonl
    pc,       \* where each call is
    kind,     \* which of the two methods was called
    stamp,    \* the day of the call's timestamp
    outcome   \* what the caller was told

vars == <<phase, clock, mu, day, file, fds, disk, pc, kind, stamp, outcome>>

Alive == phase # "down"

InFlight(c) == pc[c] \in {"stamped", "locked", "rotated", "opened"}

Locations == {"new", "stamped", "locked", "rotated", "opened", "done"}

(* One type invariant: every variable stays in its domain, so a handle     *)
(* is nil or open on a real day, and descriptors never go below zero.      *)
TypeOK ==
    /\ phase \in {"up", "closed", "down"}
    /\ clock \in Days
    /\ mu \in Calls \cup {Nobody}
    /\ day \in Days \cup {NoDay}
    /\ file \in [Kinds -> Days \cup {NoDay}]
    /\ fds \in [Kinds -> [Days -> Nat]]
    /\ disk \in [Kinds -> [Days -> Seq(Chunks)]]
    /\ pc \in [Calls -> Locations]
    /\ kind \in [Calls -> Kinds]
    /\ stamp \in [Calls -> Days]
    /\ outcome \in [Calls -> {"none", "ok", "err", "lost"}]

NoHandles == [k \in Kinds |-> NoDay]
NoFds     == [k \in Kinds |-> [d \in Days |-> 0]]

Init ==
    /\ phase = "up"
    /\ clock = 1
    /\ mu = Nobody
    /\ day = NoDay
    /\ file = NoHandles
    /\ fds = NoFds
    /\ disk = [k \in Kinds |-> [d \in Days |-> <<>>]]
    /\ pc = [c \in Calls |-> "new"]
    /\ kind = [c \in Calls |-> "auctions"]
    /\ stamp = [c \in Calls |-> 1]
    /\ outcome = [c \in Calls |-> "none"]

(***************************************************************************)
(* A return statement: the deferred Unlock runs, the caller gets r.        *)
(***************************************************************************)
Return(c, r) ==
    /\ pc' = [pc EXCEPT ![c] = "done"]
    /\ outcome' = [outcome EXCEPT ![c] = r]
    /\ mu' = IF mu = c THEN Nobody ELSE mu

Goto(c, l) ==
    /\ pc' = [pc EXCEPT ![c] = l]
    /\ UNCHANGED <<mu, outcome>>

(***************************************************************************)
(* Recorder.Auction and Recorder.Notification up to write: the timestamp   *)
(* is taken without the mutex, then the record is encoded.                 *)
(***************************************************************************)
Stamp(c, k) ==
    /\ Alive /\ pc[c] = "new"
    /\ kind' = [kind EXCEPT ![c] = k]
    /\ stamp' = [stamp EXCEPT ![c] = clock]
    /\ Goto(c, "stamped")
    /\ UNCHANGED <<phase, clock, day, file, fds, disk>>

EncodeFails(c) ==
    /\ Alive /\ pc[c] = "stamped"
    /\ Return(c, "err")
    /\ UNCHANGED <<phase, clock, day, file, fds, disk, kind, stamp>>

Lock(c) ==
    /\ Alive /\ pc[c] = "stamped" /\ mu = Nobody
    /\ mu' = c
    /\ pc' = [pc EXCEPT ![c] = "locked"]
    /\ UNCHANGED <<phase, clock, day, file, fds, disk, kind, stamp, outcome>>

(***************************************************************************)
(* closeLocked closes and forgets both handles.  close(2) gives the        *)
(* descriptor back even when it reports an error.                          *)
(***************************************************************************)
ReleasedFds ==
    [k \in Kinds |-> [d \in Days |->
        IF file[k] = d THEN fds[k][d] - 1 ELSE fds[k][d]]]

(* Mutant: the new day's handle overwrites the old one, which stays open.  *)
closeLocked_leaks ==
    /\ file' = NoHandles
    /\ UNCHANGED fds

(* Mutant: the handles are closed but not set to nil.                      *)
closeLocked_keeps_handles ==
    /\ fds' = ReleasedFds
    /\ UNCHANGED file

closeLocked ==
    /\ file' = NoHandles
    /\ fds' = ReleasedFds

(* Mutant: only the handle is checked later, the old one is never closed.  *)
rotateLocked_keeps_handles(d) ==
    /\ day' = d
    /\ UNCHANGED <<file, fds>>

rotateLocked(d) ==
    /\ closeLocked
    /\ day' = d

Rotate(c) ==
    /\ Alive /\ pc[c] = "locked"
    /\ \/ /\ day = stamp[c]
          /\ Goto(c, "rotated")
          /\ UNCHANGED <<day, file, fds>>
       \/ /\ day # stamp[c]
          /\ rotateLocked(stamp[c])
          /\ \/ Goto(c, "rotated")
             \/ file # NoHandles /\ Return(c, "err")   \* a Close failed
    /\ UNCHANGED <<phase, clock, disk, kind, stamp>>

Opened(c) == [fds EXCEPT ![kind[c]][stamp[c]] = @ + 1]

(* Mutant: Unlock at the end of write instead of defer: the early return   *)
(* of a failed Chmod keeps the mutex.                                      *)
ChmodFails_keeps_mutex(c) ==
    /\ pc' = [pc EXCEPT ![c] = "done"]
    /\ outcome' = [outcome EXCEPT ![c] = "err"]
    /\ UNCHANGED <<mu, file, fds>>

(* OpenFile succeeded, Chmod failed: the handle is closed again.           *)
ChmodFails(c) ==
    /\ Return(c, "err")
    /\ UNCHANGED <<file, fds>>

Open(c) ==
    /\ Alive /\ pc[c] = "rotated"
    /\ \/ /\ file[kind[c]] # NoDay
          /\ Goto(c, "opened")
          /\ UNCHANGED <<file, fds>>
       \/ /\ file[kind[c]] = NoDay
          /\ file' = [file EXCEPT ![kind[c]] = stamp[c]]
          /\ fds' = Opened(c)
          /\ Goto(c, "opened")
       \/ /\ file[kind[c]] = NoDay      \* OpenFile failed
          /\ Return(c, "err")
          /\ UNCHANGED <<file, fds>>
       \/ file[kind[c]] = NoDay /\ ChmodFails(c)
    /\ UNCHANGED <<phase, clock, day, disk, kind, stamp>>

(* Mutant: the line goes to the front, as with O_WRONLY without O_APPEND.  *)
Appended_overwrites(c, part) ==
    [disk EXCEPT ![kind[c]][file[kind[c]]] = <<[call |-> c, part |-> part]>>]

(***************************************************************************)
(* Write appends to the file the handle is open on.                        *)
(***************************************************************************)
Appended(c, part) ==
    [disk EXCEPT ![kind[c]][file[kind[c]]] =
        Append(@, [call |-> c, part |-> part])]

(* Mutant: a short write is reported as success.                           *)
WriteWhole_or_short(c) ==
    /\ \E part \in Parts : disk' = Appended(c, part)
    /\ Return(c, "ok")
    /\ UNCHANGED <<file, fds>>

WriteWhole(c) ==
    /\ disk' = Appended(c, "line")
    /\ Return(c, "ok")
    /\ UNCHANGED <<file, fds>>

(* Mutant: the short line is finished by a second Write of the whole line, *)
(* and the call then reports the first error.                              *)
WriteFails_retries(c) ==
    /\ disk' = Appended(c, "line")
    /\ Return(c, "err")
    /\ UNCHANGED <<file, fds>>

(* An error or a short write: whatever reached the file stays there, the   *)
(* handle is closed and forgotten, the caller gets the error.              *)
WriteFails(c) ==
    /\ \/ UNCHANGED disk
       \/ \E part \in Fragments : disk' = Appended(c, part)
    /\ file' = [file EXCEPT ![kind[c]] = NoDay]
    /\ fds' = [fds EXCEPT ![kind[c]][file[kind[c]]] = @ - 1]
    /\ Return(c, "err")

Write(c) ==
    /\ Alive /\ pc[c] = "opened"
    /\ WriteWhole(c) \/ WriteFails(c)
    /\ UNCHANGED <<phase, clock, day, kind, stamp>>

(***************************************************************************)
(* Recorder.Close, deferred by main.  A handler that outlives the shutdown *)
(* timeout may still call the recorder, which then opens its file again.   *)
(***************************************************************************)
Close ==
    /\ phase = "up" /\ mu = Nobody
    /\ phase' = "closed"
    /\ closeLocked
    /\ day' = NoDay
    /\ UNCHANGED <<clock, mu, disk, pc, kind, stamp, outcome>>

(***************************************************************************)
(* The process ends: main returns while handlers run, a signal kills it,   *)
(* or it is out of memory.  The call inside Write may have appended a part *)
(* of its line, or all of it without an answer.                            *)
(***************************************************************************)
ProcessDies ==
    /\ Alive
    /\ \/ UNCHANGED disk
       \/ \E c \in Calls, part \in Parts :
            pc[c] = "opened" /\ disk' = Appended(c, part)
    /\ phase' = "down"
    /\ mu' = Nobody
    /\ day' = NoDay
    /\ file' = NoHandles
    /\ fds' = NoFds
    /\ pc' = [c \in Calls |-> IF InFlight(c) THEN "done" ELSE pc[c]]
    /\ outcome' = [c \in Calls |-> IF InFlight(c) THEN "lost" ELSE outcome[c]]
    /\ UNCHANGED <<clock, kind, stamp>>

(* record.New in the restarted process. *)
Restart ==
    /\ phase = "down"
    /\ phase' = "up"
    /\ UNCHANGED <<clock, mu, day, file, fds, disk, pc, kind, stamp, outcome>>

Tick ==
    /\ clock < MaxDay
    /\ clock' = clock + 1
    /\ UNCHANGED <<phase, mu, day, file, fds, disk, pc, kind, stamp, outcome>>

Progress(c) == Lock(c) \/ Rotate(c) \/ Open(c) \/ Write(c)

Step(c) == EncodeFails(c) \/ Progress(c)

Next ==
    \/ \E c \in Calls, k \in Kinds : Stamp(c, k)
    \/ \E c \in Calls : Step(c)
    \/ Close \/ ProcessDies \/ Restart \/ Tick

(* A call that has started goes on.  No call counts on a failing encoder. *)
Fairness == \A c \in Calls : WF_vars(Progress(c))

Spec == Init /\ [][Next]_vars /\ Fairness

-----------------------------------------------------------------------------
(* Safety *)

ChunkOf(c, k, d, i) == disk[k][d][i].call = c

(* Everything a call wrote is in the file of its kind and of the day of    *)
(* its own timestamp, although calls reach the files out of timestamp      *)
(* order and one call's rotation may go back to an earlier day.            *)
RightFile ==
    \A k \in Kinds, d \in Days : \A i \in DOMAIN disk[k][d] :
        LET c == disk[k][d][i].call IN kind[c] = k /\ stamp[c] = d

(* What answer r says of call c and of its file f.                         *)
TrueOf(r, c, f) ==
    /\ r = "ok" =>
         \E i \in DOMAIN f :
            /\ f[i].call = c /\ f[i].part = "line"
            /\ \A j \in DOMAIN f : f[j].call = c => j = i
    /\ r = "err" =>
         \A i \in DOMAIN f : f[i].call = c => f[i].part # "line"

(* The answer a caller gets is exact: after nil its whole line is in the   *)
(* file once and nothing else of it is anywhere; after an error there is   *)
(* no whole line of it.                                                    *)
AnswerExact ==
    \A c \in Calls : TrueOf(outcome[c], c, disk[kind[c]][stamp[c]])

(* The process holds exactly one descriptor per non-nil handle, whichever  *)
(* system calls failed: a service that is up for months does not run into  *)
(* its LimitNOFILE.                                                        *)
NoDescriptorLeak ==
    \A k \in Kinds, d \in Days : fds[k][d] = IF file[k] = d THEN 1 ELSE 0

(* Files only ever grow at the end, through failures and restarts.         *)
Extends(s, t) == Len(s) <= Len(t) /\ \A i \in DOMAIN s : t[i] = s[i]

AppendOnly ==
    [][\A k \in Kinds, d \in Days : Extends(disk[k][d], disk'[k][d])]_disk

-----------------------------------------------------------------------------
(***************************************************************************)
(* How cmd/report reads a file back: bufio.Scanner splits at newlines and  *)
(* yields a last line without one.  A chunk of part "line" ends a line, so *)
(* what precedes it without a newline is on the same line.  A line decodes *)
(* only if it is a single JSON text.                                       *)
(***************************************************************************)
Readable(f, i) ==
    /\ f[i].part # "torn"
    /\ i = 1 \/ f[i - 1].part = "line"
    /\ f[i].part = "text" => i = Len(f)

(* What the comment on write claims of a call that returned nil: it        *)
(* appended one complete JSON line.                                        *)
AckedReadable ==
    \A c \in Calls : outcome[c] = "ok" =>
        LET f == disk[kind[c]][stamp[c]]
        IN  \E i \in DOMAIN f : f[i].call = c /\ Readable(f, i)

-----------------------------------------------------------------------------
(* Refinement: the recorder implements EvidenceLog. *)

WholeLines(f) ==
    LET upTo[n \in 0 .. Len(f)] ==
            IF n = 0 THEN <<>>
            ELSE IF f[n].part = "line" THEN Append(upTo[n - 1], f[n].call)
            ELSE upTo[n - 1]
    IN  upTo[Len(f)]

Abstract == INSTANCE EvidenceLog WITH
    log    <- [k \in Kinds |-> [d \in Days |-> WholeLines(disk[k][d])]],
    status <- [c \in Calls |-> IF InFlight(c) THEN "pending"
                               ELSE IF pc[c] = "new" THEN "new" ELSE outcome[c]],
    slot   <- [c \in Calls |-> <<kind[c], stamp[c]>>]

(* Every behaviour of the recorder, files and failures hidden, is one of   *)
(* the evidence log: a call stores one line or none, atomically, in the    *)
(* slot it was given, and is answered.                                     *)
ImplementsEvidenceLog == Abstract!Spec
=============================================================================
