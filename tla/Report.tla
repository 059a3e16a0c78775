------------------------------- MODULE Report -------------------------------
(***************************************************************************)
(* cmd/report, run by an operator while the solver may still be recording: *)
(* it reads the evidence files line by line beside calls that append to    *)
(* them, fail half way or die with the process.                            *)
(***************************************************************************)
EXTENDS Recorder, FiniteSets, SequencesExt

VARIABLES
    rpc,       \* where main is: idle, the kind being read, or how it ended
    todo,      \* paths of the Glob not yet finished; the head is being read
    pos,       \* chunks of that file the scanner has consumed
    buf,       \* chunks on the line the scanner is collecting
    counted,   \* the calls whose record was decoded, per kind, in order
    before,    \* history: calls acknowledged when the report started
    damaged    \* history: some file then held an undecodable line

reader == <<rpc, todo, pos, buf, counted, before, damaged>>
all    == <<vars, reader>>

Ended == {"printed", "empty", "failed"}

File == disk[rpc][Head(todo)]

ReportInit ==
    /\ Init
    /\ rpc = "idle" /\ todo = <<>> /\ pos = 0 /\ buf = <<>>
    /\ counted = [k \in Kinds |-> <<>>]
    /\ before = {} /\ damaged = FALSE

(***************************************************************************)
(* filepath.Glob and sort.Strings: the days whose file exists, in order.   *)
(* A file with content or an open descriptor exists; one that a call       *)
(* created and left empty may.                                             *)
(***************************************************************************)
Exists(k, d)   == disk[k][d] # <<>> \/ fds[k][d] > 0
MayExist(k, d) == \/ Exists(k, d)
                  \/ \E c \in Calls : kind[c] = k /\ stamp[c] = d /\ pc[c] = "done"

Glob(k) ==
    { q \in UNION { [1 .. n -> Days] : n \in 0 .. MaxDay } :
        /\ \A i, j \in DOMAIN q : i < j => q[i] < q[j]
        /\ \A d \in Days : Exists(k, d) => d \in Range(q)
        /\ \A i \in DOMAIN q : MayExist(k, q[i]) }

(* A line that no later append can make decodable.                         *)
Damaged(f) == \E i \in DOMAIN f : f[i].part = "torn" \/ (f[i].part = "text" /\ i < Len(f))

StartReport ==
    /\ rpc = "idle"
    /\ rpc' = "auctions"
    /\ todo' \in Glob("auctions")
    /\ before' = {c \in Calls : outcome[c] = "ok"}
    /\ damaged' = \E k \in Kinds, d \in Days : Damaged(disk[k][d])
    /\ UNCHANGED <<vars, pos, buf, counted>>

(* Mutant: a json.Decoder that reads the first value of the line.          *)
Decodes_first_value(line) == line[1].part # "torn"

(***************************************************************************)
(* json.Unmarshal of one line: it succeeds on a single whole JSON text.    *)
(***************************************************************************)
Decodes(line) == Len(line) = 1 /\ line[1].part # "torn"

(* The callback of eachLine: an error of it ends the report.               *)
Consume(line) ==
    \/ /\ Decodes(line)
       /\ counted' = [counted EXCEPT ![rpc] = Append(@, line[1].call)]
       /\ UNCHANGED rpc
    \/ /\ ~Decodes(line)
       /\ rpc' = "failed"
       /\ UNCHANGED counted

(* scanner.Scan up to the next newline or the end of what there is.        *)
Scan ==
    /\ rpc \in Kinds /\ todo # <<>> /\ pos < Len(File)
    /\ LET x == File[pos + 1]
       IN  IF x.part = "line"
           THEN Consume(Append(buf, x)) /\ buf' = <<>>
           ELSE buf' = Append(buf, x) /\ UNCHANGED <<rpc, counted>>
    /\ pos' = pos + 1
    /\ UNCHANGED <<vars, todo, before, damaged>>

(* Part of a line that a Write is still copying may already be visible.    *)
HalfWritten ==
    { [call |-> c, part |-> part] :
        c \in {c \in Calls : /\ pc[c] = "opened" /\ kind[c] = rpc
                             /\ stamp[c] = Head(todo)}, part \in Fragments }

(* A read returns nothing: what is left without a newline is a line too.   *)
EndOfFile ==
    /\ rpc \in Kinds /\ todo # <<>> /\ pos = Len(File)
    /\ \E seen \in {<<>>} \cup {<<x>> : x \in HalfWritten} :
         IF buf \o seen = <<>> THEN UNCHANGED <<rpc, counted>>
                               ELSE Consume(buf \o seen)
    /\ todo' = Tail(todo) /\ pos' = 0 /\ buf' = <<>>
    /\ UNCHANGED <<vars, before, damaged>>

(* Open, Scan or Close reports an error.                                   *)
ReadFails ==
    /\ rpc \in Kinds /\ todo # <<>>
    /\ rpc' = "failed"
    /\ UNCHANGED <<vars, todo, pos, buf, counted, before, damaged>>

NextPattern ==
    /\ rpc = "auctions" /\ todo = <<>>
    /\ rpc' = "notifications"
    /\ todo' \in Glob("notifications")
    /\ UNCHANGED <<vars, pos, buf, counted, before, damaged>>

(* No auction, no report: the notifications are not printed either.        *)
Finish ==
    /\ rpc = "notifications" /\ todo = <<>>
    /\ rpc' = IF counted["auctions"] = <<>> THEN "empty" ELSE "printed"
    /\ UNCHANGED <<vars, todo, pos, buf, counted, before, damaged>>

ReportStep == StartReport \/ Scan \/ EndOfFile \/ ReadFails \/ NextPattern \/ Finish

ReportNext == (Next /\ UNCHANGED reader) \/ ReportStep

ReportSpec == ReportInit /\ [][ReportNext]_all

-----------------------------------------------------------------------------

CountedCalls(k) == Range(counted[k])

(* A report that prints has counted every record that was acknowledged     *)
(* before it started, although later calls, torn writes and restarts went  *)
(* on in the files while it read them.                                     *)
NothingMissed ==
    /\ rpc = "printed" => \A c \in before : c \in CountedCalls(kind[c])
    /\ rpc = "empty"   => \A c \in before : kind[c] = "notifications"

(* No record is counted twice or under the other kind, also when the       *)
(* reader meets a line that is still being written.                        *)
CountedOnce ==
    \A k \in Kinds :
        /\ IsInjective(counted[k])
        /\ \A c \in CountedCalls(k) : kind[c] = k

(* Evidence that is damaged when the report starts never ends in a printed *)
(* report: numbers are not computed from the part that happens to decode.  *)
DamageReported == damaged => rpc # "printed"

(* A report is exact or it fails.                                          *)
ReportExact == NothingMissed /\ CountedOnce /\ DamageReported
=============================================================================
