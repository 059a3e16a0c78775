---------------------------- MODULE EvidenceLog ----------------------------
(***************************************************************************)
(* What the recorder promises to the HTTP handlers, without locks, files   *)
(* handles or system calls: a set of calls, each of which stores at most   *)
(* one line in the log of its own kind and day, and learns whether it did. *)
(* A process that dies answers nobody; at most the one call that was being *)
(* written may still have reached its log.                                 *)
(***************************************************************************)
EXTENDS Naturals, Sequences

CONSTANTS Calls, Kinds, Days

VARIABLES log,      \* log[k][d]: the calls whose whole line is in the file
          status,   \* status[c]: what the caller knows
          slot      \* slot[c]: the kind and day fixed when the call started

vars == <<log, status, slot>>

Slots == Kinds \X Days

Init ==
    /\ log = [k \in Kinds |-> [d \in Days |-> <<>>]]
    /\ status = [c \in Calls |-> "new"]
    /\ slot \in [Calls -> Slots]

Submit(c) ==
    /\ status[c] = "new"
    /\ \E s \in Slots : slot' = [slot EXCEPT ![c] = s]
    /\ status' = [status EXCEPT ![c] = "pending"]
    /\ UNCHANGED log

Stored(c) ==
    LET k == slot[c][1]
        d == slot[c][2]
    IN  [log EXCEPT ![k][d] = Append(@, c)]

Store(c) ==
    /\ status[c] = "pending"
    /\ log' = Stored(c)
    /\ status' = [status EXCEPT ![c] = "ok"]
    /\ UNCHANGED slot

Refuse(c) ==
    /\ status[c] = "pending"
    /\ status' = [status EXCEPT ![c] = "err"]
    /\ UNCHANGED <<log, slot>>

Die ==
    /\ \/ UNCHANGED log
       \/ \E c \in Calls : status[c] = "pending" /\ log' = Stored(c)
    /\ status' = [c \in Calls |->
                    IF status[c] = "pending" THEN "lost" ELSE status[c]]
    /\ UNCHANGED slot

Decide(c) == Store(c) \/ Refuse(c)

Next == (\E c \in Calls : Submit(c) \/ Decide(c)) \/ Die

Fairness == \A c \in Calls : WF_vars(Decide(c) \/ (Die /\ status[c] = "pending"))

Spec == Init /\ [][Next]_vars /\ Fairness
=============================================================================
