---------------------------- MODULE ServerProofs ----------------------------
(***************************************************************************)
(* The proofs about the HTTP server: the process for any number of         *)
(* requests and days (Service), and what it makes of a body (UniqueJSON,   *)
(* Admission, Notifications) and of the fixtures (ContractCheck), for any  *)
(* body and any fixtures.                                                  *)
(*                                                                         *)
(* The handlers and main only ever move the recorder by steps of the       *)
(* recorder, so its inductive invariant holds in the composition; what is  *)
(* added is where each handler is while its call is under way.  The parts  *)
(* about bodies follow; each is about a behaviour of its own.              *)
(***************************************************************************)
EXTENDS Service, Bodies, Induction, SequencesExt, SequenceTheorems, TLAPS

RP == INSTANCE RecorderProofs

Busy == {"stamped", "locked", "rotated", "opened"}

ServiceTypeOK ==
    /\ main \in {"serving", "draining", "returning"}
    /\ timedOut \in BOOLEAN
    /\ req \in [Requests -> {"none", "reading", "solving", "recording", "answered", "lost"}]
    /\ answer \in [Requests -> {"none", "refused", "late", "ok", "serverError"}]
    /\ logged \in SUBSET Requests

(* A handler makes its one call after it has read and solved, waits for    *)
(* it, and dies with the process.                                          *)
HandlerInv ==
    \A c \in Requests :
        /\ req[c] \in {"none", "reading", "solving"} => pc[c] = "new"
        /\ pc[c] \in Busy => req[c] = "recording"
        /\ req[c] = "recording" => pc[c] \in Busy \cup {"done"} /\ outcome[c] # "lost"
        /\ pc[c] = "done" => outcome[c] # "none"
        /\ phase = "down" => ~Running(c)

(* A result is sent after the call has returned, and after its error has   *)
(* been logged.                                                            *)
ResultInv ==
    \A c \in Requests : answer[c] \in {"ok", "serverError"} =>
        /\ req[c] = "answered" /\ pc[c] = "done"
        /\ outcome[c] = "ok" \/ (outcome[c] = "err" /\ c \in logged)

(* main closes the recorder after Shutdown has returned, and a Shutdown    *)
(* that did not time out leaves no handler that could open a file again.   *)
ShutdownInv ==
    /\ phase = "closed" => main = "returning"
    /\ main = "returning" /\ ~timedOut => \A c \in Requests : ~Running(c)
    /\ phase = "closed" /\ ~timedOut => file = R!NoHandles

SInv == RP!IInv /\ ServiceTypeOK /\ HandlerInv /\ ResultInv /\ ShutdownInv

-----------------------------------------------------------------------------
(* The recorder the handlers use is the one the recorder's proofs are about. *)
LEMMA SameInit == R!Init <=> RP!Init
  BY DEF R!Init, RP!Init, R!NoHandles, RP!NoHandles, R!NoFds, RP!NoFds,
         R!Kinds, RP!Kinds, R!Days, RP!Days, R!NoDay, RP!NoDay

LEMMA SameNext == R!Next <=> RP!Next
  BY DEF R!Next, RP!Next, R!Stamp, RP!Stamp, R!Step, RP!Step,
         R!EncodeFails, RP!EncodeFails, R!Progress, RP!Progress, R!Lock, RP!Lock,
         R!Rotate, RP!Rotate, R!Open, RP!Open, R!Write, RP!Write, R!Close, RP!Close,
         R!ProcessDies, RP!ProcessDies, R!Restart, RP!Restart, R!Tick, RP!Tick,
         R!Goto, RP!Goto, R!Return, RP!Return, R!closeLocked, RP!closeLocked,
         R!rotateLocked, RP!rotateLocked, R!ReleasedFds, RP!ReleasedFds,
         R!NoHandles, RP!NoHandles, R!NoFds, RP!NoFds, R!Opened, RP!Opened,
         R!ChmodFails, RP!ChmodFails, R!Appended, RP!Appended,
         R!WriteWhole, RP!WriteWhole, R!WriteFails, RP!WriteFails,
         R!Alive, RP!Alive, R!InFlight, RP!InFlight, R!Kinds, RP!Kinds,
         R!Days, RP!Days, R!NoDay, RP!NoDay, R!Parts, RP!Parts,
         R!Fragments, RP!Fragments

(* Every step of the service is a step of the recorder or leaves it alone. *)
LEMMA NextUsesRecorder == [Next]_vars => R!Next \/ UNCHANGED recorder
<1> SUFFICES ASSUME [Next]_vars PROVE R!Next \/ UNCHANGED recorder
  OBVIOUS
<1>1. ASSUME NEW c \in Requests,
             Accept(c) \/ Refuse(c) \/ TooLate(c) \/ StartSolving(c) \/ Reply(c)
      PROVE  UNCHANGED recorder
  BY <1>1 DEF Accept, Refuse, TooLate, StartSolving, Reply
<1>2. ASSUME NEW c \in Requests, RecordNotification(c) \/ RecordAuction(c) \/ Recording(c)
      PROVE  R!Next
  BY <1>2 DEF RecordNotification, RecordAuction, Recording, R!Next, R!Kinds, Requests
<1>3. CASE Signal \/ Drained \/ DrainTimeout \/ UNCHANGED vars
  BY <1>3 DEF Signal, Drained, DrainTimeout, vars
<1>4. CASE CloseRecorder \/ Exit \/ Crash \/ Restart \/ Tick
  BY <1>4 DEF CloseRecorder, Exit, Crash, Restart, Tick, R!Next
<1> QED BY <1>1, <1>2, <1>3, <1>4 DEF Next, Handler, ShutDown

LEMMA NextRecorderInv == SInv /\ [Next]_vars => RP!IInv'
<1> SUFFICES ASSUME RP!IInv, [Next]_vars PROVE RP!IInv'
  BY DEF SInv
<1>1. RP!Next \/ UNCHANGED recorder
  BY NextUsesRecorder, SameNext
<1>2. [RP!Next]_(RP!vars)
  BY <1>1 DEF recorder, RP!vars
<1> QED BY <1>2, RP!NextIInv, ServiceAssumption

(* What one step of a call inside the recorder does to the handlers' view. *)
LEMMA CallStep ==
    ASSUME SInv, NEW c \in Requests, R!Step(c)
    PROVE  /\ pc[c] \in Busy /\ pc'[c] \in Busy \cup {"done"}
           /\ pc'[c] = "done" => outcome'[c] \in {"ok", "err"}
           /\ pc'[c] # "done" => outcome'[c] = outcome[c]
           /\ \A b \in Requests : b # c => pc'[b] = pc[b] /\ outcome'[b] = outcome[b]
           /\ UNCHANGED phase
<1> USE DEF Requests, Busy
<1>0. pc \in [Calls -> RP!Locations]
      /\ outcome \in [Calls -> {"none", "ok", "err", "lost"}]
  BY DEF SInv, RP!IInv, RP!TypeOK
<1>1. \/ \E r \in {"ok", "err"} : R!Return(c, r)
      \/ R!Goto(c, "rotated") \/ R!Goto(c, "opened")
      \/ pc' = [pc EXCEPT ![c] = "locked"] /\ UNCHANGED outcome
  BY DEF R!Step, R!Progress, R!EncodeFails, R!Lock, R!Rotate, R!Open, R!Write,
         R!WriteWhole, R!WriteFails, R!ChmodFails
<1>2. pc[c] \in Busy /\ UNCHANGED phase
  BY DEF R!Step, R!Progress, R!EncodeFails, R!Lock, R!Rotate, R!Open, R!Write
<1> QED BY <1>0, <1>1, <1>2 DEF R!Return, R!Goto

-----------------------------------------------------------------------------
LEMMA InitSInv == Init => SInv
<1> SUFFICES ASSUME Init PROVE SInv
  OBVIOUS
<1>1. RP!IInv
  BY SameInit, RP!InitIInv, ServiceAssumption DEF Init
<1>2. pc = [c \in Calls |-> "new"] /\ phase = "up"
  BY DEF Init, R!Init
<1> QED
  BY <1>1, <1>2 DEF Init, SInv, ServiceTypeOK, HandlerInv, ResultInv, ShutdownInv,
                    Requests, Running, Busy

(* Steps of a handler outside the recorder. *)
LEMMA HandlerStep ==
    ASSUME SInv, NEW c \in Requests,
           Accept(c) \/ Refuse(c) \/ TooLate(c) \/ StartSolving(c) \/ Reply(c)
    PROVE  ServiceTypeOK' /\ HandlerInv' /\ ResultInv' /\ ShutdownInv'
<1> USE DEF SInv, ServiceTypeOK, HandlerInv, ResultInv, ShutdownInv, Requests, Running, Busy
<1>0. UNCHANGED <<pc, outcome, phase, file, main, timedOut>>
  BY DEF Accept, Refuse, TooLate, StartSolving, Reply, recorder
<1>1. CASE Accept(c)
  BY <1>0, <1>1 DEF Accept, Moves
<1>2. CASE Refuse(c) \/ TooLate(c)
  BY <1>0, <1>2 DEF Refuse, TooLate, Answers, Moves
<1>3. CASE StartSolving(c)
  BY <1>0, <1>3 DEF StartSolving, Moves
<1>4. CASE Reply(c)
  <2>1. outcome[c] \in {"ok", "err"}
    BY <1>4 DEF Reply, RP!IInv, RP!TypeOK
  <2> QED BY <1>0, <1>4, <2>1 DEF Reply, LogFailure, Answers, Moves
<1> QED BY <1>1, <1>2, <1>3, <1>4

(* A handler calls the recorder. *)
LEMMA CallStarts ==
    ASSUME SInv, NEW c \in Requests, RecordAuction(c) \/ RecordNotification(c)
    PROVE  ServiceTypeOK' /\ HandlerInv' /\ ResultInv' /\ ShutdownInv'
<1> USE DEF SInv, ServiceTypeOK, HandlerInv, ResultInv, ShutdownInv, Requests, Running, Busy
<1>0. /\ req[c] \in {"reading", "solving"} /\ req' = [req EXCEPT ![c] = "recording"]
      /\ pc[c] = "new" /\ pc' = [pc EXCEPT ![c] = "stamped"]
      /\ UNCHANGED <<outcome, phase, file, main, timedOut, answer, logged>>
  BY DEF RecordAuction, RecordNotification, Moves, R!Stamp, R!Goto
<1>1. pc \in [Calls -> RP!Locations] /\ outcome[c] = "none" /\ phase # "down"
  BY <1>0 DEF RP!IInv, RP!TypeOK, RP!Fresh
<1> QED BY <1>0, <1>1

(* The recorder goes on with a handler's call. *)
LEMMA CallGoesOn ==
    ASSUME SInv, NEW c \in Requests, Recording(c)
    PROVE  ServiceTypeOK' /\ HandlerInv' /\ ResultInv' /\ ShutdownInv'
<1> USE DEF SInv, ServiceTypeOK, HandlerInv, ResultInv, ShutdownInv, Requests, Running, Busy
<1>0. R!Step(c) /\ req[c] = "recording" /\ UNCHANGED <<main, timedOut, req, answer, logged>>
  BY DEF Recording, service
<1>1. /\ pc[c] \in Busy /\ pc'[c] \in Busy \cup {"done"}
      /\ pc'[c] = "done" => outcome'[c] \in {"ok", "err"}
      /\ pc'[c] # "done" => outcome'[c] = outcome[c]
      /\ \A b \in Requests : b # c => pc'[b] = pc[b] /\ outcome'[b] = outcome[b]
      /\ UNCHANGED phase
  BY <1>0, CallStep
<1>2. HandlerInv'
  BY <1>0, <1>1
<1>3. ResultInv'
  BY <1>0, <1>1
<1>4. ShutdownInv'
  BY <1>0, <1>1
<1> QED BY <1>0, <1>2, <1>3, <1>4

(* main drains the handlers and closes the recorder. *)
LEMMA MainStep ==
    ASSUME SInv, Signal \/ Drained \/ DrainTimeout \/ CloseRecorder
    PROVE  ServiceTypeOK' /\ HandlerInv' /\ ResultInv' /\ ShutdownInv'
<1> USE DEF SInv, ServiceTypeOK, HandlerInv, ResultInv, ShutdownInv, Requests, Running, Busy
<1>1. CASE Signal \/ Drained \/ DrainTimeout
  BY <1>1 DEF Signal, Drained, DrainTimeout, recorder
<1>2. CASE CloseRecorder
  BY <1>2 DEF CloseRecorder, service, R!Close, R!closeLocked
<1> QED BY <1>1, <1>2

(* The process ends, with its handlers, or starts again. *)
LEMMA ProcessStep ==
    ASSUME SInv, Exit \/ Crash \/ Restart
    PROVE  ServiceTypeOK' /\ HandlerInv' /\ ResultInv' /\ ShutdownInv'
<1> USE DEF SInv, ServiceTypeOK, HandlerInv, ResultInv, ShutdownInv, Requests, Running, Busy
<1>1. CASE Exit \/ Crash
  <2>0. /\ req' = [c \in Requests |-> IF Running(c) THEN "lost" ELSE req[c]]
        /\ phase' = "down" /\ UNCHANGED <<main, timedOut, answer, logged>>
        /\ pc' = [c \in Calls |-> IF pc[c] \in Busy THEN "done" ELSE pc[c]]
        /\ outcome' = [c \in Calls |-> IF pc[c] \in Busy THEN "lost" ELSE outcome[c]]
    BY <1>1 DEF Exit, Crash, Gone, R!ProcessDies, R!InFlight
  <2>1. ServiceTypeOK'
    BY <2>0
  <2>2. HandlerInv'
    BY <2>0
  <2>3. ResultInv'
    BY <2>0
  <2>4. ShutdownInv'
    BY <2>0
  <2> QED BY <2>1, <2>2, <2>3, <2>4
<1>2. CASE Restart
  BY <1>2 DEF Restart, R!Restart
<1> QED BY <1>1, <1>2

LEMMA NextSInv == SInv /\ [Next]_vars => SInv'
<1> SUFFICES ASSUME SInv, [Next]_vars
             PROVE  ServiceTypeOK' /\ HandlerInv' /\ ResultInv' /\ ShutdownInv'
  BY NextRecorderInv DEF SInv
<1>1. CASE Tick \/ UNCHANGED vars
  BY <1>1 DEF Tick, R!Tick, vars, service, recorder, SInv, ServiceTypeOK, HandlerInv,
              ResultInv, ShutdownInv, Running
<1> QED
  BY <1>1, HandlerStep, CallStarts, CallGoesOn, MainStep, ProcessStep
  DEF Next, Handler, ShutDown

-----------------------------------------------------------------------------
(* Whatever fails, whoever closes the recorder and whenever the process    *)
(* dies: a client that has its result has its record in the right file, or *)
(* the loss is in the log.                                                 *)
THEOREM ResultsRecorded == Spec => []NoSilentLoss
<1>1. SInv => NoSilentLoss
  <2> SUFFICES ASSUME SInv, NEW c \in Requests, answer[c] \in {"ok", "serverError"},
                      outcome[c] = "ok"
               PROVE  StoredWhole(c)
    BY DEF SInv, ResultInv, NoSilentLoss
  <2> DEFINE f == disk[kind[c]][stamp[c]]
  <2>0. c \in Calls /\ RP!IInv /\ RP!TypeOK /\ kind[c] \in RP!Kinds /\ stamp[c] \in RP!Days
    BY DEF SInv, RP!IInv, RP!TypeOK, Requests
  <2>1. PICK i \in DOMAIN f : f[i].call = c /\ f[i].part = "line"
    BY <2>0 DEF RP!IInv, RP!AnswerExact, RP!TrueOf
  <2>2. f[i] \in RP!Chunks
    BY <2>0, <2>1, RP!ChunkType, ServiceAssumption
  <2>3. f[i] = [call |-> c, part |-> "line"]
    BY <2>1, <2>2 DEF RP!Chunks
  <2> QED BY <2>3 DEF StoredWhole
<1> QED BY <1>1, InitSInv, NextSInv, PTL DEF Spec

(* A shutdown that did not time out leaves no handler at work and no file  *)
(* open, and none is opened afterwards.                                    *)
THEOREM ShutdownClean == Spec => []CleanShutdown
<1>1. SInv => CleanShutdown
  <2> SUFFICES ASSUME SInv, phase = "closed", ~timedOut
               PROVE  /\ \A c \in Requests : ~Running(c) /\ ~R!InFlight(c)
                      /\ \A k \in R!Kinds, d \in R!Days : fds[k][d] = 0
    BY DEF CleanShutdown
  <2>1. (\A c \in Requests : ~Running(c)) /\ file = R!NoHandles
    BY DEF SInv, ShutdownInv
  <2>2. \A c \in Requests : ~R!InFlight(c)
    BY <2>1 DEF SInv, HandlerInv, Running, R!InFlight, Busy
  <2>3. \A k \in R!Kinds, d \in R!Days : fds[k][d] = 0
    BY <2>1 DEF SInv, RP!IInv, RP!NoDescriptorLeak, R!NoHandles, R!NoDay, R!Kinds, RP!Kinds,
                R!Days, RP!Days
  <2> QED BY <2>1, <2>2, <2>3
<1> QED BY <1>1, InitSInv, NextSInv, PTL DEF Spec

(* The service is an environment the recorder's specification allows: all  *)
(* its steps are steps of the recorder, so what is proved of the recorder  *)
(* alone holds under the handlers, the shutdown and the restarts.          *)
THEOREM RecorderUnderService ==
    Spec => R!Init /\ [][R!Next]_(R!vars)
<1>1. Init => R!Init
  BY DEF Init
<1>2. [Next]_vars => [R!Next]_(R!vars)
  BY NextUsesRecorder DEF recorder, R!vars
<1> QED BY <1>1, <1>2, PTL DEF Spec

-----------------------------------------------------------------------------
(***************************************************************************)
(* The walk over a body, token by token (module UniqueJSON).  There is a   *)
(* frame for each bracket that is open, and a frame of an object holds the *)
(* keys read since its bracket.                                            *)
(***************************************************************************)
(***************************************************************************)
(* The depth of each token of a text, and the bracket around it.           *)
(***************************************************************************)
Openers == {"{", "["}
Closers == {"}", "]"}
Tokens  == Keys \cup {"scalar"} \cup Openers \cup Closers
Opening(t) == IF t \in Openers THEN 1 ELSE 0
Closing(t) == IF t \in Closers THEN 1 ELSE 0
Change(t)  == Opening(t) - Closing(t)

DepthIn(s, i) ==
    LET depth[n \in 1 .. Len(s) + 1] ==
            IF n = 1 THEN 0
            ELSE depth[n - 1] + Opening(s[n - 1]) - Closing(s[n - 1])
    IN  depth[i]

(* The last bracket before position i that opens frame k. *)
OpensAt(s, o, k) == s[o] \in Openers /\ DepthIn(s, o) = k - 1
Opened(s, i, k) == {0} \cup {o \in 1 .. i - 1 : OpensAt(s, o, k)}
Bracket(s, i, k) == Max(Opened(s, i, k))

LEMMA DepthAsWalked ==
    ASSUME NEW i
    PROVE  /\ W!Depth(i) = DepthIn(read, i)
           /\ W!Depth(i)' = DepthIn(read', i)
  BY DEF W!Depth, DepthIn, W!Opens, W!Closes, Opening, Closing, Openers, Closers

LEMMA DepthIs ==
    ASSUME NEW s \in Seq(Tokens)
    PROVE  /\ DepthIn(s, 1) = 0
           /\ \A n \in 2 .. Len(s) + 1 : DepthIn(s, n) = DepthIn(s, n - 1) + Change(s[n - 1])
           /\ \A n \in 1 .. Len(s) + 1 : DepthIn(s, n) \in Int
<1> DEFINE Z == Len(s)
           After(n, v) == v + Opening(s[n]) - Closing(s[n])
           step == [p \in (1 .. Z) \X Int |-> After(p[1], p[2])]
           Body(d) == [n \in 1 .. Z + 1 |-> IF n = 1 THEN 0 ELSE After(n - 1, d[n - 1])]
<1>1. Z \in Nat
  OBVIOUS
<1>0. \A n, v : v \in Int => After(n, v) \in Int /\ After(n, v) = v + Change(s[n])
  <2>1. \A t : Opening(t) \in Int /\ Closing(t) \in Int
    BY DEF Opening, Closing
  <2> QED BY <2>1 DEF Change
<1> HIDE DEF After
<1>2. step \in [(1 .. Z) \X Int -> Int]
  BY <1>0
<1>3. PICK g : Iterates(g, Z, Int, 0, step)
  <2>1. 0 \in Int
    OBVIOUS
  <2> HIDE DEF step, Z
  <2> QED BY <1>1, <1>2, <2>1, RecursionExists
<1>4. /\ g \in [0 .. Z -> Int] /\ g[0] = 0
      /\ \A n \in 1 .. Z : g[n] = After(n, g[n - 1])
  <2>1. g \in [0 .. Z -> Int] /\ g[0] = 0 /\ \A n \in 1 .. Z : g[n] = step[<<n, g[n - 1]>>]
    BY <1>3 DEF Iterates
  <2> HIDE DEF Z
  <2>2. \A n \in 1 .. Z : n - 1 \in 0 .. Z
    BY <1>1
  <2> QED BY <2>1, <2>2
<1> DEFINE f == [n \in 1 .. Z + 1 |-> g[n - 1]]
           d == CHOOSE d : d = Body(d)
<1> HIDE DEF Z
<1>5. f = Body(f)
  <2>1. ASSUME NEW n \in 1 .. Z + 1
        PROVE  f[n] = IF n = 1 THEN 0 ELSE After(n - 1, f[n - 1])
    <3>1. CASE n = 1
      BY <1>1, <1>4, <3>1, 1 - 1 = 0
    <3>2. CASE n # 1
      <4>1. n - 1 \in 1 .. Z /\ n - 1 \in 1 .. Z + 1
        BY <1>1, <3>2
      <4>2. f[n] = g[n - 1] /\ f[n - 1] = g[n - 1 - 1]
        BY <4>1
      <4>3. g[n - 1] = After(n - 1, g[n - 1 - 1])
        BY <1>4, <4>1
      <4> QED BY <3>2, <4>2, <4>3
    <3> QED BY <3>1, <3>2
  <2> QED BY <2>1
<1>6. d = Body(d)
  BY <1>5
<1>7. \A i : DepthIn(s, i) = d[i]
  BY DEF DepthIn, Z, After
<1> HIDE DEF d
<1>8. d[1] = 0 /\ \A n \in 2 .. Z + 1 : d[n] = After(n - 1, d[n - 1])
  <2>1. 1 \in 1 .. Z + 1 /\ \A n \in 2 .. Z + 1 : n \in 1 .. Z + 1 /\ n # 1
    BY <1>1
  <2> QED BY <1>6, <2>1
<1>9. \A n \in 1 .. Z + 1 : d[n] \in Int
  <2> DEFINE S == { n \in Nat : n <= Z => d[n + 1] \in Int }
  <2>1. 0 \in S
    BY <1>8, 0 + 1 = 1
  <2>2. ASSUME NEW n \in Nat, n \in S PROVE n + 1 \in S
    <3> SUFFICES ASSUME n + 1 <= Z PROVE d[n + 1 + 1] \in Int
      OBVIOUS
    <3>1. d[n + 1] \in Int /\ n + 1 + 1 \in 2 .. Z + 1 /\ n + 1 + 1 - 1 = n + 1
      BY <1>1, <2>2
    <3>2. d[n + 1 + 1] = After(n + 1 + 1 - 1, d[n + 1 + 1 - 1])
      BY <1>8, <3>1
    <3> QED BY <1>0, <3>1, <3>2
  <2> HIDE DEF S
  <2>3. Nat \subseteq S
    BY <2>1, <2>2, SetInduction
  <2> TAKE n \in 1 .. Z + 1
  <2>4. n - 1 \in Nat /\ n - 1 <= Z /\ n - 1 + 1 = n
    BY <1>1
  <2>5. n - 1 \in S
    BY <2>3, <2>4
  <2> QED BY <2>4, <2>5 DEF S
<1>10. \A n \in 2 .. Z + 1 : d[n] = d[n - 1] + Change(s[n - 1])
  <2> TAKE n \in 2 .. Z + 1
  <2>1. n - 1 \in 1 .. Z + 1
    BY <1>1
  <2>2. d[n - 1] \in Int
    BY <1>9, <2>1
  <2> QED BY <1>0, <1>8, <2>2
<1> QED BY <1>7, <1>8, <1>9, <1>10 DEF Z

LEMMA DepthKept ==
    ASSUME NEW s \in Seq(Tokens), NEW t \in Tokens
    PROVE  /\ \A i \in 1 .. Len(s) + 1 : DepthIn(Append(s, t), i) = DepthIn(s, i)
           /\ DepthIn(Append(s, t), Len(s) + 2) = DepthIn(s, Len(s) + 1) + Change(t)
<1> DEFINE r == Append(s, t)
           Z == Len(s)
           S == { n \in Nat : n <= Z => DepthIn(r, n + 1) = DepthIn(s, n + 1) }
<1>1. /\ r \in Seq(Tokens) /\ Len(r) = Z + 1 /\ Z \in Nat
      /\ r[Z + 1] = t /\ \A i \in 1 .. Z : r[i] = s[i]
  OBVIOUS
<1> HIDE DEF r, Z
<1>2. 0 \in S
  BY <1>1, DepthIs
<1>3. ASSUME NEW n \in Nat, n \in S PROVE n + 1 \in S
  <2> SUFFICES ASSUME n + 1 <= Z PROVE DepthIn(r, n + 1 + 1) = DepthIn(s, n + 1 + 1)
    OBVIOUS
  <2>1. /\ n + 1 + 1 \in 2 .. Z + 1 /\ n + 1 + 1 \in 2 .. Len(r) + 1
        /\ n + 1 + 1 - 1 = n + 1 /\ n + 1 \in 1 .. Z
    BY <1>1
  <2>2. /\ DepthIn(s, n + 1 + 1) = DepthIn(s, n + 1) + Change(s[n + 1])
        /\ DepthIn(r, n + 1 + 1) = DepthIn(r, n + 1) + Change(r[n + 1])
    <3> HIDE DEF S
    <3>1. \A m \in 2 .. Z + 1 : DepthIn(s, m) = DepthIn(s, m - 1) + Change(s[m - 1])
      BY DepthIs DEF Z
    <3>2. \A m \in 2 .. Len(r) + 1 : DepthIn(r, m) = DepthIn(r, m - 1) + Change(r[m - 1])
      BY <1>1, DepthIs
    <3>3. DepthIn(r, n + 1 + 1) = DepthIn(r, n + 1 + 1 - 1) + Change(r[n + 1 + 1 - 1])
      BY <2>1, <3>2
    <3>4. DepthIn(s, n + 1 + 1) = DepthIn(s, n + 1 + 1 - 1) + Change(s[n + 1 + 1 - 1])
      BY <2>1, <3>1
    <3> QED BY <2>1, <3>3, <3>4
  <2>3. DepthIn(r, n + 1) = DepthIn(s, n + 1)
    BY <1>1, <1>3, <2>1
  <2> QED BY <1>1, <2>1, <2>2, <2>3
<1>4. Nat \subseteq S
  <2> HIDE DEF S
  <2> QED BY <1>2, <1>3, SetInduction
<1>5. ASSUME NEW i \in 1 .. Z + 1 PROVE DepthIn(r, i) = DepthIn(s, i)
  <2>1. i - 1 \in Nat /\ i - 1 <= Z /\ i - 1 + 1 = i
    BY <1>1
  <2>2. i - 1 \in S
    BY <1>4, <2>1
  <2> QED BY <2>1, <2>2
<1>6. DepthIn(r, Z + 2) = DepthIn(s, Z + 1) + Change(t)
  <2>1. Z + 2 \in 2 .. Len(r) + 1 /\ Z + 2 - 1 = Z + 1 /\ Z + 1 \in 1 .. Z + 1
    BY <1>1
  <2>2. DepthIn(r, Z + 2) = DepthIn(r, Z + 1) + Change(r[Z + 1])
    BY <1>1, <2>1, DepthIs
  <2> QED BY <1>1, <1>5, <2>1, <2>2
<1> QED BY <1>5, <1>6 DEF r, Z

(* A bracket is a position before i, and is found when there is one. *)
LEMMA BracketIs ==
    ASSUME NEW s, NEW i \in Nat, NEW k
    PROVE  /\ Bracket(s, i, k) \in Opened(s, i, k)
           /\ \A o \in Opened(s, i, k) : o <= Bracket(s, i, k)
<1> DEFINE T == Opened(s, i, k)
           Up == { n \in Nat : \E o \in T : n = i - o }
<1>1. T \subseteq 0 .. i /\ 0 \in T
  BY DEF Opened
<1> HIDE DEF T
<1>2. Up \subseteq Nat /\ Up # {}
  <2>1. i - 0 \in Up
    BY <1>1
  <2> QED BY <2>1
<1>3. PICK n \in Up : \A m \in Up : n <= m
  <2> HIDE DEF Up
  <2> QED BY <1>2, LeastNat
<1>4. PICK o \in T : n = i - o
  BY <1>3
<1>5. \A p \in T : p <= o
  <2> TAKE p \in T
  <2>1. p \in 0 .. i /\ o \in 0 .. i
    BY <1>1
  <2>2. i - p \in Up
    BY <2>1
  <2>3. n <= i - p
    BY <1>3, <2>2
  <2> QED BY <1>4, <2>1, <2>3
<1>6. \A p \in T : o >= p
  <2> TAKE p \in T
  <2>1. p \in 0 .. i /\ o \in 0 .. i /\ p <= o
    BY <1>1, <1>5
  <2> QED BY <2>1
<1> DEFINE m == CHOOSE x \in T : \A y \in T : x >= y
<1>7. m \in T /\ \A y \in T : m >= y
  BY <1>6
<1>8. \A y \in T : y <= m
  <2> HIDE DEF m
  <2> TAKE y \in T
  <2>1. y \in 0 .. i /\ m \in 0 .. i /\ m >= y
    BY <1>1, <1>7
  <2> QED BY <2>1
<1> QED BY <1>7, <1>8 DEF Bracket, Max, T

-----------------------------------------------------------------------------
(***************************************************************************)
(* What one more token changes.                                            *)
(***************************************************************************)
AroundIn(s, i)  == Bracket(s, i, DepthIn(s, i))
KeysIn(s)       == {i \in DOMAIN s : s[i] \in Keys}
SeenIn(s, o)    == {s[i] : i \in {i \in KeysIn(s) : AroundIn(s, i) = o}}
TopIn(s)        == {i \in DOMAIN s : DepthIn(s, i) = 0 /\ s[i] \notin Closers}
RepeatedIn(s)   == {i \in KeysIn(s) : \E j \in KeysIn(s) :
                      j < i /\ s[j] = s[i] /\ AroundIn(s, j) = AroundIn(s, i)}

LEMMA BracketKept ==
    ASSUME NEW s \in Seq(Tokens), NEW t \in Tokens, NEW k
    PROVE  /\ \A i \in 1 .. Len(s) + 1 : Bracket(Append(s, t), i, k) = Bracket(s, i, k)
           /\ t \notin Openers \/ DepthIn(s, Len(s) + 1) # k - 1
              => Bracket(Append(s, t), Len(s) + 2, k) = Bracket(s, Len(s) + 1, k)
           /\ t \in Openers /\ DepthIn(s, Len(s) + 1) = k - 1
              => Bracket(Append(s, t), Len(s) + 2, k) = Len(s) + 1
<1> DEFINE r == Append(s, t)
           Z == Len(s)
<1>1. /\ Z \in Nat /\ r[Z + 1] = t /\ \A i \in 1 .. Z : r[i] = s[i]
  OBVIOUS
<1>2. \A i \in 1 .. Z + 1 : DepthIn(r, i) = DepthIn(s, i)
  BY DepthKept
<1> HIDE DEF r, Z
<1>0. Z + 1 \in 1 .. Z + 1 /\ \A o \in 1 .. Z : o \in 1 .. Z + 1
  BY <1>1
<1>3. \A o \in 1 .. Z : OpensAt(r, o, k) <=> OpensAt(s, o, k)
  BY <1>0, <1>1, <1>2 DEF OpensAt
<1>4. ASSUME NEW i \in 1 .. Z + 1 PROVE Opened(r, i, k) = Opened(s, i, k)
  <2>1. \A o \in 1 .. i - 1 : o \in 1 .. Z
    BY <1>1
  <2> QED BY <1>3, <2>1 DEF Opened
<1>5. ASSUME t \notin Openers \/ DepthIn(s, Z + 1) # k - 1
      PROVE  Opened(r, Z + 2, k) = Opened(s, Z + 1, k)
  <2>1. ~OpensAt(r, Z + 1, k)
    BY <1>0, <1>1, <1>2, <1>5 DEF OpensAt
  <2>2. /\ \A o : o \in 1 .. Z + 2 - 1 <=> o \in 1 .. Z \/ o = Z + 1
        /\ \A o : o \in 1 .. Z + 1 - 1 <=> o \in 1 .. Z
    BY <1>1
  <2>3. ASSUME NEW p \in Opened(r, Z + 2, k) PROVE p \in Opened(s, Z + 1, k)
    <3>1. p = 0 \/ (p \in 1 .. Z + 2 - 1 /\ OpensAt(r, p, k))
      BY <1>1 DEF Opened
    <3>2. p = 0 \/ (p \in 1 .. Z + 1 - 1 /\ OpensAt(s, p, k))
      BY <1>3, <2>1, <2>2, <3>1
    <3> QED BY <1>1, <3>2 DEF Opened
  <2>4. ASSUME NEW p \in Opened(s, Z + 1, k) PROVE p \in Opened(r, Z + 2, k)
    <3>1. p = 0 \/ (p \in 1 .. Z + 1 - 1 /\ OpensAt(s, p, k))
      BY <1>1 DEF Opened
    <3>2. p = 0 \/ (p \in 1 .. Z + 2 - 1 /\ OpensAt(r, p, k))
      BY <1>3, <2>2, <3>1
    <3> QED BY <1>1, <3>2 DEF Opened
  <2> QED BY <2>3, <2>4
<1>6. ASSUME t \in Openers, DepthIn(s, Z + 1) = k - 1
      PROVE  Bracket(r, Z + 2, k) = Z + 1
  <2>1. Z + 1 \in 1 .. Z + 1 /\ OpensAt(r, Z + 1, k)
    BY <1>0, <1>1, <1>2, <1>6 DEF OpensAt
  <2>2. Z + 1 \in Opened(r, Z + 2, k)
    BY <1>1, <2>1 DEF Opened
  <2>3. Z + 2 \in Nat
    BY <1>1
  <2>4. /\ Bracket(r, Z + 2, k) \in Opened(r, Z + 2, k)
        /\ Z + 1 <= Bracket(r, Z + 2, k)
    BY <2>2, <2>3, BracketIs
  <2> QED BY <1>1, <2>4 DEF Opened
<1> QED BY <1>4, <1>5, <1>6 DEF Bracket, r, Z

LEMMA AroundKept ==
    ASSUME NEW s \in Seq(Tokens), NEW t \in Tokens
    PROVE  /\ \A i \in 1 .. Len(s) : AroundIn(Append(s, t), i) = AroundIn(s, i)
           /\ \A d : DepthIn(s, Len(s) + 1) = d =>
                AroundIn(Append(s, t), Len(s) + 1) = Bracket(s, Len(s) + 1, d)
<1>1. Len(s) \in Nat
  OBVIOUS
<1>2. \A i \in 1 .. Len(s) : i \in 1 .. Len(s) + 1
  BY <1>1
<1>3. Len(s) + 1 \in 1 .. Len(s) + 1
  BY <1>1
<1>4. \A i \in 1 .. Len(s) + 1 : DepthIn(Append(s, t), i) = DepthIn(s, i)
  BY DepthKept
<1>5. \A k : \A i \in 1 .. Len(s) + 1 : Bracket(Append(s, t), i, k) = Bracket(s, i, k)
  BY BracketKept
<1> QED BY <1>2, <1>3, <1>4, <1>5 DEF AroundIn

(* The last bracket that opens frame k has k - 1 brackets around it.       *)
LEMMA BracketDepth ==
    ASSUME NEW s \in Seq(Tokens), NEW k, Bracket(s, Len(s) + 1, k) # 0
    PROVE  /\ Bracket(s, Len(s) + 1, k) \in 1 .. Len(s)
           /\ DepthIn(s, Bracket(s, Len(s) + 1, k)) = k - 1
<1>1. Len(s) \in Nat /\ Len(s) + 1 \in Nat /\ Len(s) + 1 - 1 = Len(s)
  OBVIOUS
<1>2. Bracket(s, Len(s) + 1, k) \in Opened(s, Len(s) + 1, k)
  BY <1>1, BracketIs
<1> DEFINE b == Bracket(s, Len(s) + 1, k)
<1>3. b \in 1 .. Len(s) + 1 - 1 /\ OpensAt(s, b, k)
  BY <1>2 DEF Opened
<1> QED BY <1>1, <1>3 DEF OpensAt

LEMMA TokenAdded ==
    ASSUME NEW s \in Seq(Tokens), NEW t \in Tokens, NEW o, 
           NEW d, d = DepthIn(s, Len(s) + 1), o = Bracket(s, Len(s) + 1, d)
    PROVE  /\ \A p \in 1 .. Len(s) : SeenIn(Append(s, t), p) =
                SeenIn(s, p) \cup (IF t \in Keys /\ p = o THEN {t} ELSE {})
           /\ RepeatedIn(Append(s, t)) =
                RepeatedIn(s) \cup (IF t \in Keys /\ t \in SeenIn(s, o) THEN {Len(s) + 1} ELSE {})
           /\ TopIn(Append(s, t)) =
                TopIn(s) \cup (IF d = 0 /\ t \notin Closers THEN {Len(s) + 1} ELSE {})
<1> DEFINE r == Append(s, t)
           Z == Len(s)
<1>1. /\ Z \in Nat /\ r[Z + 1] = t /\ (\A i \in 1 .. Z : r[i] = s[i])
      /\ DOMAIN s = 1 .. Z /\ DOMAIN r = 1 .. Z + 1
  OBVIOUS
<1>2. /\ \A i \in 1 .. Z : AroundIn(r, i) = AroundIn(s, i)
      /\ AroundIn(r, Z + 1) = o
  BY AroundKept
<1>3. \A i \in 1 .. Z + 1 : DepthIn(r, i) = DepthIn(s, i)
  BY DepthKept
<1> HIDE DEF r, Z
<1>4. \A i : i \in 1 .. Z + 1 <=> i \in 1 .. Z \/ i = Z + 1
  BY <1>1
<1>5. Z + 1 \notin 1 .. Z
  BY <1>1
<1>6. \A i : i \in KeysIn(r) <=> i \in KeysIn(s) \/ (i = Z + 1 /\ t \in Keys)
  BY <1>1, <1>4 DEF KeysIn
<1>7. \A i \in KeysIn(s) : i \in 1 .. Z
  BY <1>1 DEF KeysIn
<1>8. ASSUME NEW p
      PROVE  SeenIn(r, p) = SeenIn(s, p) \cup (IF t \in Keys /\ p = o THEN {t} ELSE {})
  <2>1. ASSUME NEW x \in SeenIn(r, p)
        PROVE  x \in SeenIn(s, p) \/ (x = t /\ t \in Keys /\ p = o)
    <3>1. PICK i \in KeysIn(r) : AroundIn(r, i) = p /\ r[i] = x
      BY DEF SeenIn
    <3> QED BY <1>1, <1>2, <1>6, <1>7, <3>1 DEF SeenIn
  <2>2. ASSUME NEW x \in SeenIn(s, p) PROVE x \in SeenIn(r, p)
    <3>1. PICK i \in KeysIn(s) : AroundIn(s, i) = p /\ s[i] = x
      BY DEF SeenIn
    <3>2. i \in KeysIn(r) /\ AroundIn(r, i) = p /\ r[i] = x
      BY <1>1, <1>2, <1>6, <1>7, <3>1
    <3> QED BY <3>2 DEF SeenIn
  <2>3. t \in Keys /\ p = o => t \in SeenIn(r, p)
    <3>1. t \in Keys => Z + 1 \in KeysIn(r)
      BY <1>6
    <3> QED BY <1>1, <1>2, <3>1 DEF SeenIn
  <2> QED BY <2>1, <2>2, <2>3
<1>9. RepeatedIn(r) = RepeatedIn(s) \cup (IF t \in Keys /\ t \in SeenIn(s, o) THEN {Z + 1} ELSE {})
  <2>1. ASSUME NEW i \in 1 .. Z PROVE i \in RepeatedIn(r) <=> i \in RepeatedIn(s)
    <3>1. \A j : j \in 1 .. Z + 1 /\ j < i => j \in 1 .. Z
      BY <1>1
    <3>2. \A j \in KeysIn(r) : j \in 1 .. Z + 1
      BY <1>1 DEF KeysIn
    <3>3. i \in KeysIn(r) <=> i \in KeysIn(s)
      BY <1>5, <1>6
    <3>4. \A j : j \in KeysIn(r) /\ j < i <=> j \in KeysIn(s) /\ j < i
      BY <1>5, <1>6, <3>1, <3>2
    <3>5. \A j \in KeysIn(s) : r[j] = s[j] /\ AroundIn(r, j) = AroundIn(s, j)
      BY <1>1, <1>2, <1>7
    <3>6. r[i] = s[i] /\ AroundIn(r, i) = AroundIn(s, i)
      BY <1>1, <1>2
    <3> QED BY <3>3, <3>4, <3>5, <3>6 DEF RepeatedIn
  <2>2. Z + 1 \in RepeatedIn(r) <=> t \in Keys /\ t \in SeenIn(s, o)
    <3>1. \A j \in KeysIn(s) : j \in 1 .. Z /\ j < Z + 1
      BY <1>1, <1>7
    <3>2. \A j : j \in KeysIn(r) /\ j < Z + 1 <=> j \in KeysIn(s)
      BY <1>1, <1>6, <3>1
    <3>3. \A j \in KeysIn(s) : r[j] = s[j] /\ AroundIn(r, j) = AroundIn(s, j)
      BY <1>1, <1>2, <3>1
    <3>4. Z + 1 \in KeysIn(r) <=> t \in Keys
      BY <1>5, <1>6, <1>7
    <3>5. t \in SeenIn(s, o) <=> \E j \in KeysIn(s) : AroundIn(s, j) = o /\ s[j] = t
      BY DEF SeenIn
    <3> QED BY <1>1, <1>2, <3>2, <3>3, <3>4, <3>5 DEF RepeatedIn
  <2>3. /\ \A i \in RepeatedIn(r) : i \in 1 .. Z \/ i = Z + 1
        /\ \A i \in RepeatedIn(s) : i \in 1 .. Z
    BY <1>1, <1>4 DEF RepeatedIn, KeysIn
  <2> QED BY <2>1, <2>2, <2>3
<1>10. TopIn(r) = TopIn(s) \cup (IF d = 0 /\ t \notin Closers THEN {Z + 1} ELSE {})
  <2>1. DepthIn(r, Z + 1) = d
    BY <1>3, <1>4 DEF Z
  <2>2. \A i \in 1 .. Z : DepthIn(r, i) = DepthIn(s, i) /\ r[i] = s[i]
    BY <1>1, <1>3, <1>4
  <2> QED BY <1>1, <1>4, <1>5, <2>1, <2>2 DEF TopIn
<1> QED BY <1>8, <1>9, <1>10 DEF r, Z

-----------------------------------------------------------------------------
(***************************************************************************)
(* The stack holds a frame per bracket that is open, with the keys of that *)
(* bracket.                                                                *)
(***************************************************************************)
Frame == [delim : Openers, seen : SUBSET Keys]

OpenBracket(s, k) == Bracket(s, Len(s) + 1, k)

FramesOf(s, st) ==
    /\ DepthIn(s, Len(s) + 1) = Len(st)
    /\ \A k \in DOMAIN st :
          OpenBracket(s, k) # 0 /\ st[k].seen = SeenIn(s, OpenBracket(s, k))

LEMMA TokenFacts ==
    ASSUME W!WalkConstants
    PROVE  /\ \A t \in Keys \cup {"scalar"} :
                t \in Tokens /\ t \notin Openers /\ t \notin Closers /\ Change(t) = 0
           /\ \A t \in Openers : t \in Tokens /\ t \notin Keys /\ t \notin Closers /\ Change(t) = 1
           /\ \A t \in Closers : t \in Tokens /\ t \notin Keys /\ t \notin Openers /\ Change(t) = -1
           /\ "scalar" \notin Keys
<1>1. Keys \cap {"scalar", "{", "}", "[", "]"} = {}
  BY DEF W!WalkConstants, W!Scalar
<1>2. /\ \A t \in Keys \cup {"scalar"} : t \notin Openers /\ t \notin Closers
      /\ \A t \in Openers : t \notin Keys /\ t \notin Closers
      /\ \A t \in Closers : t \notin Keys /\ t \notin Openers
      /\ "scalar" \notin Keys
  BY <1>1 DEF Openers, Closers
<1>3. \A t : Change(t) = (IF t \in Openers THEN 1 ELSE 0) - (IF t \in Closers THEN 1 ELSE 0)
  BY DEF Change, Opening, Closing
<1>4. \A t \in Keys \cup {"scalar"} : Change(t) = 0
  BY <1>2, <1>3
<1>5. \A t \in Openers : Change(t) = 1
  BY <1>2, <1>3
<1>6. \A t \in Closers : Change(t) = -1
  BY <1>2, <1>3
<1>7. \A t \in Keys \cup {"scalar"} \cup Openers \cup Closers : t \in Tokens
  BY DEF Tokens
<1> QED BY <1>2, <1>4, <1>5, <1>6, <1>7

(* Frames that stay open keep their brackets. *)
LEMMA FramesKept ==
    ASSUME W!WalkConstants, NEW s \in Seq(Tokens), NEW t \in Tokens, 
           NEW st \in Seq(Frame), FramesOf(s, st),
           NEW k \in DOMAIN st
    PROVE  /\ OpenBracket(Append(s, t), k) = OpenBracket(s, k)
           /\ OpenBracket(s, k) # 0
           /\ k # Len(st) \/ t \notin Keys =>
                SeenIn(Append(s, t), OpenBracket(s, k)) = st[k].seen
           /\ k = Len(st) /\ t \in Keys =>
                SeenIn(Append(s, t), OpenBracket(s, k)) = st[k].seen \cup {t}
<1> DEFINE r == Append(s, t)
           Z == Len(s)
           L == Len(st)
<1>1. Z \in Nat /\ L \in Nat /\ k \in 1 .. L /\ Len(r) = Z + 1
  OBVIOUS
<1>2. DepthIn(s, Z + 1) = L /\ L # k - 1
  BY <1>1 DEF FramesOf
<1>3. Bracket(r, Z + 2, k) = Bracket(s, Z + 1, k)
  BY <1>2, BracketKept
<1>4. OpenBracket(s, k) # 0 /\ st[k].seen = SeenIn(s, OpenBracket(s, k))
  BY DEF FramesOf
<1>5. OpenBracket(s, k) \in 1 .. Z /\ DepthIn(s, OpenBracket(s, k)) = k - 1
  BY <1>4, BracketDepth DEF OpenBracket
<1>6. SeenIn(r, OpenBracket(s, k)) =
        SeenIn(s, OpenBracket(s, k))
        \cup (IF t \in Keys /\ OpenBracket(s, k) = OpenBracket(s, L) THEN {t} ELSE {})
  BY <1>2, <1>5, TokenAdded DEF OpenBracket
<1>7. k # L => OpenBracket(s, k) # OpenBracket(s, L)
  <2> SUFFICES ASSUME k # L, OpenBracket(s, k) = OpenBracket(s, L) PROVE FALSE
    OBVIOUS
  <2>1. L \in DOMAIN st
    BY <1>1
  <2>2. OpenBracket(s, L) # 0
    BY <2>1 DEF FramesOf
  <2>3. DepthIn(s, OpenBracket(s, L)) = L - 1
    BY <2>2, BracketDepth DEF OpenBracket
  <2> QED BY <1>1, <1>5, <2>3
<1>8. OpenBracket(r, k) = OpenBracket(s, k)
  <2>1. Len(r) + 1 = Z + 2
    BY <1>1
  <2> QED BY <1>3, <2>1 DEF OpenBracket
<1> QED BY <1>4, <1>6, <1>7, <1>8

LEMMA DepthAfter ==
    ASSUME NEW s \in Seq(Tokens), NEW t \in Tokens
    PROVE  /\ Append(s, t) \in Seq(Tokens) /\ Len(Append(s, t)) + 1 = Len(s) + 2
           /\ DepthIn(Append(s, t), Len(Append(s, t)) + 1) = DepthIn(s, Len(s) + 1) + Change(t)
<1>1. /\ Append(s, t) \in Seq(Tokens) /\ Len(Append(s, t)) = Len(s) + 1
      /\ Len(s) \in Nat
  OBVIOUS
<1>2. Len(Append(s, t)) + 1 = Len(s) + 2
  BY <1>1
<1> QED BY <1>1, <1>2, DepthKept

LEMMA ScalarFrames ==
    ASSUME W!WalkConstants, NEW s \in Seq(Tokens), NEW st \in Seq(Frame), FramesOf(s, st)
    PROVE  FramesOf(Append(s, "scalar"), st)
<1>1. "scalar" \in Tokens /\ "scalar" \notin Keys /\ Change("scalar") = 0
  BY TokenFacts
<1>0. Len(st) \in Nat
  OBVIOUS
<1>2. DepthIn(Append(s, "scalar"), Len(Append(s, "scalar")) + 1) = Len(st)
  BY <1>0, <1>1, DepthAfter DEF FramesOf
<1> QED BY <1>1, <1>2, FramesKept DEF FramesOf

LEMMA KeyFrames ==
    ASSUME W!WalkConstants, NEW s \in Seq(Tokens), NEW st \in Seq(Frame), FramesOf(s, st),
           st # <<>>, NEW key \in Keys
    PROVE  /\ FramesOf(Append(s, key), [st EXCEPT ![Len(st)].seen = @ \cup {key}])
           /\ [st EXCEPT ![Len(st)].seen = @ \cup {key}] \in Seq(Frame)
<1> DEFINE new == [st EXCEPT ![Len(st)].seen = @ \cup {key}]
<1>1. key \in Tokens /\ Change(key) = 0
  BY TokenFacts
<1>0. Len(st) \in Nat
  OBVIOUS
<1>2. Len(st) \in DOMAIN st /\ DOMAIN st = 1 .. Len(st)
  OBVIOUS
<1>3. st \in [1 .. Len(st) -> Frame]
  OBVIOUS
<1>4. /\ new \in [1 .. Len(st) -> Frame]
      /\ \A k \in 1 .. Len(st) : new[k].seen =
            IF k = Len(st) THEN st[k].seen \cup {key} ELSE st[k].seen
  BY <1>2, <1>3 DEF Frame
<1>5. new \in Seq(Frame) /\ Len(new) = Len(st) /\ DOMAIN new = DOMAIN st
  BY <1>0, <1>2, <1>4
<1>6. DepthIn(Append(s, key), Len(Append(s, key)) + 1) = Len(st)
  BY <1>0, <1>1, DepthAfter DEF FramesOf
<1>7. ASSUME NEW k \in DOMAIN st
      PROVE  /\ OpenBracket(Append(s, key), k) # 0
             /\ new[k].seen = SeenIn(Append(s, key), OpenBracket(Append(s, key), k))
  BY <1>1, <1>2, <1>4, FramesKept
<1> QED BY <1>5, <1>6, <1>7 DEF FramesOf

LEMMA OpenFrames ==
    ASSUME W!WalkConstants, NEW s \in Seq(Tokens), NEW st \in Seq(Frame), FramesOf(s, st),
           NEW delim \in Openers
    PROVE  FramesOf(Append(s, delim), Append(st, [delim |-> delim, seen |-> {}]))
<1> DEFINE r == Append(s, delim)
           new == Append(st, [delim |-> delim, seen |-> {}])
           Z == Len(s)
           L == Len(st)
<1>1. delim \in Tokens /\ delim \notin Keys /\ Change(delim) = 1
  BY TokenFacts
<1>0. L \in Nat /\ Z \in Nat
  OBVIOUS
<1>2. /\ Len(new) = L + 1 /\ DOMAIN new = 1 .. L + 1 /\ DOMAIN st = 1 .. L
      /\ (\A k \in 1 .. L : new[k] = st[k]) /\ new[L + 1].seen = {}
  OBVIOUS
<1>3. r \in Seq(Tokens) /\ Len(r) + 1 = Z + 2
  BY <1>0, <1>1, DepthAfter
<1>4. DepthIn(s, Z + 1) = L
  BY DEF FramesOf
<1>5. DepthIn(r, Len(r) + 1) = L + 1
  BY <1>0, <1>1, <1>4, DepthAfter
<1> HIDE DEF new
<1>6. ASSUME NEW k \in 1 .. L
      PROVE  OpenBracket(r, k) # 0 /\ new[k].seen = SeenIn(r, OpenBracket(r, k))
  BY <1>0, <1>1, <1>2, FramesKept
<1>7. OpenBracket(r, L + 1) = Z + 1
  <2>1. L + 1 - 1 = L
    BY <1>0, <1>1
  <2>2. Bracket(r, Z + 2, L + 1) = Z + 1
    <3>1. \A k : DepthIn(s, Z + 1) = k - 1 => Bracket(r, Z + 2, k) = Z + 1
      BY <1>1, BracketKept
    <3> QED BY <1>4, <2>1, <3>1
  <2> QED BY <1>3, <2>2 DEF OpenBracket
<1>8. SeenIn(r, Z + 1) = {}
  <2> SUFFICES ASSUME NEW i \in KeysIn(r), AroundIn(r, i) = Z + 1 PROVE FALSE
    BY DEF SeenIn
  <2>1. i \in 1 .. Z + 1 /\ i \in Nat /\ r[Z + 1] = delim /\ r[i] \in Keys
    BY <1>0, <1>1 DEF KeysIn
  <2>2. i \in 1 .. Z
    BY <1>0, <1>1, <2>1
  <2>3. AroundIn(r, i) \in Opened(r, i, DepthIn(r, i))
    BY <2>1, BracketIs DEF AroundIn
  <2>4. AroundIn(r, i) = 0 \/ AroundIn(r, i) \in 1 .. i - 1
    BY <2>1, <2>3 DEF Opened
  <2> HIDE DEF r, Z
  <2> QED BY <1>0, <1>1, <2>2, <2>4
<1>9. ASSUME NEW k \in DOMAIN new
      PROVE  OpenBracket(r, k) # 0 /\ new[k].seen = SeenIn(r, OpenBracket(r, k))
  <2>1. CASE k \in 1 .. L
    BY <1>6, <2>1
  <2>2. CASE k = L + 1
    <3>1. Z + 1 # 0
      BY <1>0, <1>1
    <3> QED BY <1>2, <1>7, <1>8, <2>2, <3>1
  <2> QED BY <1>0, <1>1, <1>2, <2>1, <2>2
<1> QED BY <1>2, <1>5, <1>9 DEF FramesOf

LEMMA CloseFrames ==
    ASSUME W!WalkConstants, NEW s \in Seq(Tokens), NEW st \in Seq(Frame), FramesOf(s, st),
           st # <<>>, NEW t \in Closers
    PROVE  FramesOf(Append(s, t), Front(st)) /\ Front(st) \in Seq(Frame)
<1> DEFINE r == Append(s, t)
           new == Front(st)
           L == Len(st)
<1>1. t \in Tokens /\ t \notin Keys /\ Change(t) = -1
  BY TokenFacts
<1>0. L \in Nat \ {0}
  OBVIOUS
<1>2. /\ new \in Seq(Frame) /\ Len(new) = L - 1 /\ DOMAIN new = 1 .. L - 1
      /\ DOMAIN st = 1 .. L
      /\ \A k \in 1 .. L - 1 : new[k] = st[k] /\ k \in 1 .. L
  <2>1. new \in Seq(Frame) /\ Len(new) = L - 1 /\ \A k \in 1 .. L - 1 : new[k] = st[k]
    <3>1. 1 \in 1 .. L + 1 /\ L - 1 \in 0 .. L /\ L - 1 - 1 + 1 = L - 1
      BY <1>0
    <3>2. /\ SubSeq(st, 1, L - 1) \in Seq(Frame)
          /\ Len(SubSeq(st, 1, L - 1)) = IF 1 <= L - 1 THEN L - 1 - 1 + 1 ELSE 0
          /\ \A i \in 1 .. L - 1 - 1 + 1 : SubSeq(st, 1, L - 1)[i] = st[1 + i - 1]
      BY <3>1, SubSeqProperties
    <3>3. \A i \in 1 .. L - 1 : 1 + i - 1 = i
      OBVIOUS
    <3> QED BY <1>0, <3>1, <3>2, <3>3 DEF Front
  <2>2. DOMAIN new = 1 .. L - 1 /\ DOMAIN st = 1 .. L
    BY <2>1
  <2> HIDE DEF new, L
  <2> QED BY <1>0, <2>1, <2>2
<1>3. DepthIn(r, Len(r) + 1) = L - 1
  BY <1>0, <1>1, DepthAfter DEF FramesOf
<1> HIDE DEF new, L
<1>4. ASSUME NEW k \in 1 .. L - 1
      PROVE  OpenBracket(r, k) # 0 /\ new[k].seen = SeenIn(r, OpenBracket(r, k))
  BY <1>0, <1>1, <1>2, FramesKept
<1> QED BY <1>2, <1>3, <1>4 DEF FramesOf, new

-----------------------------------------------------------------------------
(***************************************************************************)
(* The walk.                                                               *)
(***************************************************************************)
Walking ==
    /\ result = "none" /\ FramesOf(read, stack)
    /\ RepeatedIn(read) = {}
    /\ at = "value" /\ stack = <<>> => read = <<>>
    /\ at = "more" => stack # <<>>
    /\ at = "end" => stack = <<>> /\ read # <<>>
    /\ read # <<>> => TopIn(read) = {1}

Told ==
    /\ result = "accepted" =>
          RepeatedIn(read) = {} /\ TopIn(read) = {1} /\ DepthIn(read, Len(read) + 1) = 0
    /\ result = "duplicate" => RepeatedIn(read) = {Len(read)}
    /\ result = "multiple" => TopIn(read) = {1, Len(read)} /\ Len(read) # 1

WalkInv ==
    /\ read \in Seq(Tokens) /\ stack \in Seq(Frame)
    /\ at \in {"value", "more", "end", "done"}
    /\ at # "done" => Walking
    /\ at = "done" => Told

LEMMA TopAfter ==
    ASSUME W!WalkConstants, NEW s \in Seq(Tokens), NEW t \in Tokens,
           \/ s # <<>> /\ TopIn(s) = {1} /\ DepthIn(s, Len(s) + 1) # 0
           \/ s = <<>> /\ t \notin Closers
    PROVE  TopIn(Append(s, t)) = {1}
<1> DEFINE d == DepthIn(s, Len(s) + 1)
<1>1. TopIn(Append(s, t)) = TopIn(s) \cup (IF d = 0 /\ t \notin Closers THEN {Len(s) + 1} ELSE {})
  BY TokenAdded
<1>2. CASE s # <<>> /\ TopIn(s) = {1} /\ d # 0
  BY <1>1, <1>2
<1>3. CASE s = <<>> /\ t \notin Closers
  <2>1. Len(s) + 1 = 1 /\ DOMAIN s = {}
    BY <1>3
  <2>2. d = 0 /\ TopIn(s) = {}
    BY <2>1, DepthIs DEF TopIn
  <2> QED BY <1>1, <1>3, <2>1, <2>2
<1> QED BY <1>2, <1>3

LEMMA FramesCount ==
    ASSUME NEW st \in Seq(Frame), NEW s, FramesOf(s, st)
    PROVE  DepthIn(s, Len(s) + 1) = 0 <=> st = <<>>
<1>1. Len(st) = 0 <=> st = <<>>
  OBVIOUS
<1> QED BY <1>1 DEF FramesOf

(* A value begins: the first one of the text, or one inside a frame. *)
LEMMA ValueBegins ==
    ASSUME W!WalkConstants, WalkInv, at = "value", NEW t \in Openers \cup {"scalar"},
           read' = Append(read, t)
    PROVE  /\ read' \in Seq(Tokens) /\ read' # <<>>
           /\ RepeatedIn(read') = {} /\ TopIn(read') = {1}
<1>1. t \in Tokens /\ t \notin Keys /\ t \notin Closers
  BY TokenFacts
<1>2. Walking /\ read \in Seq(Tokens) /\ stack \in Seq(Frame)
  BY DEF WalkInv
<1>3. read' \in Seq(Tokens) /\ read' # <<>>
  BY <1>1, <1>2
<1>4. RepeatedIn(read') = {}
  BY <1>1, <1>2, TokenAdded DEF Walking
<1>5. TopIn(read') = {1}
  BY <1>1, <1>2, TopAfter, FramesCount DEF Walking
<1> QED BY <1>3, <1>4, <1>5

LEMMA ReadScalarKeeps ==
    ASSUME W!WalkConstants, WalkInv, W!ReadScalar PROVE WalkInv'
<1>1. /\ at = "value" /\ read' = Append(read, "scalar") /\ stack' = stack /\ result' = result
      /\ at' = IF stack = <<>> THEN "end" ELSE "more"
  BY DEF W!ReadScalar, W!Token, W!Scalar, W!After
<1>2. Walking /\ read \in Seq(Tokens) /\ stack \in Seq(Frame)
  BY <1>1 DEF WalkInv
<1>3. /\ read' \in Seq(Tokens) /\ read' # <<>>
      /\ RepeatedIn(read') = {} /\ TopIn(read') = {1}
  BY <1>1, ValueBegins
<1>4. FramesOf(read', stack')
  BY <1>1, <1>2, ScalarFrames DEF Walking
<1> QED BY <1>1, <1>2, <1>3, <1>4 DEF WalkInv, Walking

LEMMA OpenFrameKeeps ==
    ASSUME W!WalkConstants, WalkInv, NEW delim \in Openers, W!OpenFrame(delim) PROVE WalkInv'
<1>1. /\ at = "value" /\ read' = Append(read, delim) /\ result' = result /\ at' = "more"
      /\ stack' = Append(stack, [delim |-> delim, seen |-> {}])
  BY DEF W!OpenFrame, W!Token
<1>2. Walking /\ read \in Seq(Tokens) /\ stack \in Seq(Frame)
  BY <1>1 DEF WalkInv
<1>3. /\ read' \in Seq(Tokens) /\ read' # <<>>
      /\ RepeatedIn(read') = {} /\ TopIn(read') = {1}
  BY <1>1, ValueBegins
<1>4. FramesOf(read', stack')
  BY <1>1, <1>2, OpenFrames DEF Walking
<1>5. stack' \in Seq(Frame) /\ stack' # <<>>
  <2>1. [delim |-> delim, seen |-> {}] \in Frame
    BY DEF Frame
  <2> QED BY <1>1, <1>2, <2>1
<1> QED BY <1>1, <1>2, <1>3, <1>4, <1>5 DEF WalkInv, Walking

LEMMA ReadKeyKeeps ==
    ASSUME W!WalkConstants, WalkInv, NEW key \in Keys, W!ReadKey(key) PROVE WalkInv'
<1>1. /\ at = "more" /\ read' = Append(read, key)
      /\ IF key \in stack[Len(stack)].seen
         THEN at' = "done" /\ result' = "duplicate" /\ stack' = stack
         ELSE /\ stack' = [stack EXCEPT ![Len(stack)].seen = @ \cup {key}]
              /\ at' = "value" /\ result' = result
  BY DEF W!ReadKey, W!Token, W!Top, W!Return
<1>2. /\ Walking /\ read \in Seq(Tokens) /\ stack \in Seq(Frame) /\ stack # <<>>
      /\ key \in Tokens
  BY <1>1, TokenFacts DEF WalkInv, Walking
<1>3. Len(stack) \in DOMAIN stack /\ read' \in Seq(Tokens) /\ read' # <<>> /\ Len(read') = Len(read) + 1
  BY <1>1, <1>2
<1>4. /\ stack[Len(stack)].seen = SeenIn(read, OpenBracket(read, Len(stack)))
      /\ DepthIn(read, Len(read) + 1) = Len(stack)
  BY <1>2, <1>3 DEF Walking, FramesOf
<1>5. RepeatedIn(read') = IF key \in stack[Len(stack)].seen THEN {Len(read')} ELSE {}
  BY <1>1, <1>2, <1>3, <1>4, TokenAdded DEF Walking, OpenBracket
<1>6. CASE key \in stack[Len(stack)].seen
  BY <1>1, <1>2, <1>3, <1>5, <1>6 DEF WalkInv, Told
<1>7. CASE key \notin stack[Len(stack)].seen
  <2>1. FramesOf(read', stack') /\ stack' \in Seq(Frame)
    <3>1. /\ FramesOf(Append(read, key), [stack EXCEPT ![Len(stack)].seen = @ \cup {key}])
          /\ [stack EXCEPT ![Len(stack)].seen = @ \cup {key}] \in Seq(Frame)
      BY <1>2, KeyFrames DEF Walking
    <3>2. stack' = [stack EXCEPT ![Len(stack)].seen = @ \cup {key}]
      BY <1>1, <1>7
    <3> QED BY <1>1, <3>1, <3>2
  <2>2. stack' # <<>>
    BY <1>1, <1>2, <1>7
  <2>3. DepthIn(read, Len(read) + 1) # 0
    BY <1>2, FramesCount DEF Walking
  <2>4. read # <<>>
    <3>1. read = <<>> => Len(read) + 1 = 1
      OBVIOUS
    <3> QED BY <1>2, <2>3, <3>1, DepthIs
  <2>5. TopIn(read') = {1}
    BY <1>1, <1>2, <2>3, <2>4, TopAfter DEF Walking
  <2> QED BY <1>1, <1>2, <1>3, <1>5, <1>7, <2>1, <2>2, <2>5 DEF WalkInv, Walking
<1> QED BY <1>6, <1>7

LEMMA CloseKeeps ==
    ASSUME W!WalkConstants, WalkInv, W!Close PROVE WalkInv'
<1>1. PICK t \in Closers :
        /\ at = "more" /\ read' = Append(read, t) /\ stack' = Front(stack) /\ result' = result
        /\ at' = IF Front(stack) = <<>> THEN "end" ELSE "more"
  BY DEF W!Close, W!Token, W!Top, W!After, Closers, W!Front, Front
<1>2. /\ Walking /\ read \in Seq(Tokens) /\ stack \in Seq(Frame) /\ stack # <<>>
      /\ t \in Tokens /\ t \notin Keys
  BY <1>1, TokenFacts DEF WalkInv, Walking
<1>3. read' \in Seq(Tokens) /\ read' # <<>>
  BY <1>1, <1>2
<1>4. FramesOf(read', stack') /\ stack' \in Seq(Frame)
  BY <1>1, <1>2, CloseFrames DEF Walking
<1>5. RepeatedIn(read') = {}
  BY <1>1, <1>2, TokenAdded DEF Walking
<1>6. DepthIn(read, Len(read) + 1) # 0
  BY <1>2, FramesCount DEF Walking
<1>7. read # <<>>
  <2>1. read = <<>> => Len(read) + 1 = 1
    OBVIOUS
  <2> QED BY <1>2, <1>6, <2>1, DepthIs
<1>8. TopIn(read') = {1}
  BY <1>1, <1>2, <1>6, <1>7, TopAfter DEF Walking
<1> QED BY <1>1, <1>2, <1>3, <1>4, <1>5, <1>8 DEF WalkInv, Walking

LEMMA TrailingKeeps ==
    ASSUME W!WalkConstants, WalkInv, W!Trailing PROVE WalkInv'
<1>1. PICK t \in Openers \cup {"scalar"} :
        /\ at = "end" /\ read' = Append(read, t) /\ stack' = stack
        /\ at' = "done" /\ result' = "multiple"
  BY DEF W!Trailing, W!Token, W!Return, W!Scalar, Openers
<1>2. /\ Walking /\ read \in Seq(Tokens) /\ stack \in Seq(Frame) /\ stack = <<>> /\ read # <<>>
      /\ t \in Tokens /\ t \notin Closers
  BY <1>1, TokenFacts DEF WalkInv, Walking
<1>3. read' \in Seq(Tokens) /\ Len(read') = Len(read) + 1 /\ Len(read') # 1
  BY <1>1, <1>2
<1>4. DepthIn(read, Len(read) + 1) = 0
  BY <1>2, FramesCount DEF Walking
<1>5. TopIn(read') = {1, Len(read')}
  BY <1>1, <1>2, <1>3, <1>4, TokenAdded DEF Walking
<1> QED BY <1>1, <1>2, <1>3, <1>5 DEF WalkInv, Told

LEMMA WalkStep ==
    ASSUME W!WalkConstants, WalkInv, [W!Next]_(W!vars) PROVE WalkInv'
<1>1. CASE UNCHANGED W!vars
  BY <1>1 DEF WalkInv, Walking, Told, W!vars
<1>2. CASE W!Element
  BY <1>2 DEF W!Element, WalkInv, Walking
<1>3. CASE W!EndOfFile
  <2>1. at = "end" /\ at' = "done" /\ result' = "accepted" /\ read' = read /\ stack' = stack
    BY <1>3 DEF W!EndOfFile, W!Return
  <2>2. Walking /\ read \in Seq(Tokens) /\ stack \in Seq(Frame) /\ stack = <<>> /\ read # <<>>
    BY <2>1 DEF WalkInv, Walking
  <2>3. DepthIn(read, Len(read) + 1) = 0
    BY <2>2, FramesCount DEF Walking
  <2> QED BY <2>1, <2>2, <2>3 DEF WalkInv, Walking, Told
<1>4. CASE W!SyntaxError
  BY <1>4 DEF W!SyntaxError, W!Return, WalkInv, Told
<1>5. CASE \E delim \in {"{", "["} : W!OpenFrame(delim)
  <2>1. PICK delim \in Openers : W!OpenFrame(delim)
    BY <1>5 DEF Openers
  <2> QED BY <2>1, OpenFrameKeeps
<1> QED BY <1>1, <1>2, <1>3, <1>4, <1>5, ReadScalarKeeps, ReadKeyKeeps, CloseKeeps, TrailingKeeps
        DEF W!Next

(* What the walk tells of the tokens is what the property says of them.    *)
LEMMA ToldIsExact == WalkInv => W!WalkExact
<1> SUFFICES ASSUME WalkInv PROVE W!WalkExact
  OBVIOUS
<1>1. \A i : W!Depth(i) = DepthIn(read, i)
  BY DepthAsWalked
<1>2. \A i : W!Around(i) = AroundIn(read, i)
  BY <1>1 DEF W!Around, AroundIn, Bracket, Opened, OpensAt, W!Max, Max, W!Opens, Openers
<1>3. W!KeyTokens = KeysIn(read) /\ W!Repeated = RepeatedIn(read)
  BY <1>2 DEF W!KeyTokens, KeysIn, W!Repeated, RepeatedIn
<1>4. W!TopValues = TopIn(read)
  BY <1>1 DEF W!TopValues, TopIn, W!Closes, Closers
<1>5. Told
  BY DEF WalkInv, Walking, Told
<1>6. W!Unambiguous
  <2>1. TopIn(read) = {1} => 1 \in DOMAIN read
    BY DEF TopIn
  <2> QED BY <1>1, <1>3, <1>4, <1>5, <2>1 DEF W!Unambiguous, Told
<1>7. W!NoFalseAlarm
  BY <1>3, <1>4, <1>5 DEF W!NoFalseAlarm, Told
<1> QED BY <1>6, <1>7 DEF W!WalkExact

(* Objects of any number, however they are nested, with whatever keys and  *)
(* values: a text is accepted exactly when no object gives a key twice and *)
(* there is one value, and what is reported as a repetition is one.        *)
LEMMA WalkPartExact ==
    ASSUME W!WalkConstants PROVE W!Spec => []W!WalkExact
<1>1. W!Init => WalkInv
  <2> SUFFICES ASSUME W!Init PROVE WalkInv
    OBVIOUS
  <2>1. read = <<>> /\ stack = <<>> /\ at = "value" /\ result = "none"
    BY DEF W!Init
  <2>2. DepthIn(read, Len(read) + 1) = 0
    <3>1. Len(read) + 1 = 1 /\ read \in Seq(Tokens)
      BY <2>1
    <3> QED BY <3>1, DepthIs
  <2>3. FramesOf(read, stack)
    BY <2>1, <2>2 DEF FramesOf
  <2>4. RepeatedIn(read) = {}
    BY <2>1 DEF RepeatedIn, KeysIn
  <2> QED BY <2>1, <2>3, <2>4 DEF WalkInv, Walking
<1>2. WalkInv /\ [W!Next]_(W!vars) => WalkInv'
  BY WalkStep
<1> QED BY <1>1, <1>2, ToldIsExact, PTL DEF W!Spec

-----------------------------------------------------------------------------
(***************************************************************************)
(* An auction from the body to the reply (module Admission).               *)
(***************************************************************************)
(***************************************************************************)
(* The contract leaves no key that Go's decoder would take for a field it  *)
(* is not spelled as, so the order of the keys does not matter.            *)
(***************************************************************************)
LEMMA Names ==
    /\ A!AuctionRequired \cup {"id"} \subseteq A!FieldNames
    /\ {"decimals", "symbol", "referencePrice", "availableBalance", "trusted"} \subseteq A!FieldNames
    /\ {"sellAmount", "buyAmount", "fee"} \subseteq A!FieldNames
    /\ {"kind", "factor", "maxVolumeFactor", "quote"} \subseteq A!FieldNames
    /\ A!OrderRequired \cup A!OrderOptional \subseteq A!FieldNames
    /\ {"kind", "id", "address", "gasEstimate"} \subseteq A!FieldNames
    /\ \A k \in DOMAIN A!LiquidityFields : A!LiquidityFields[k] \subseteq A!FieldNames
<1>1. /\ A!AuctionRequired \cup {"id"} \subseteq DOMAIN A!Auction
      /\ {"decimals", "symbol", "referencePrice", "availableBalance", "trusted"} \subseteq DOMAIN A!TokenInfo
      /\ {"sellAmount", "buyAmount", "fee"} \subseteq DOMAIN A!FeeQuote
      /\ {"kind", "factor", "maxVolumeFactor", "quote"} \subseteq DOMAIN A!FeePolicy
  BY DEF A!AuctionRequired, A!Auction, A!TokenInfo, A!FeeQuote, A!FeePolicy
<1>2. DOMAIN A!Order = A!OrderRequired \cup A!OrderOptional
  BY DEF A!Order
<1>3. DOMAIN A!Liquidity = {"kind", "id", "address", "gasEstimate"}
                            \cup UNION {A!LiquidityFields[k] : k \in DOMAIN A!LiquidityFields}
  BY DEF A!Liquidity
<1> QED BY <1>1, <1>2, <1>3 DEF A!FieldNames

LEMMA Unaliased ==
    ASSUME A!NoFieldIsAnAlias, NEW o, DOMAIN o \subseteq A!FieldNames, NEW f, NEW m
    PROVE  /\ A!KeysFor(o, f, m) = A!KeysFor(o, f, "exact")
           /\ A!KeysFor(o, f, m) # {} => A!Winner(o, f, m) = A!Winner(o, f, "exact")
           /\ f \in DOMAIN o => f \in A!KeysFor(o, f, m) /\ A!Winner(o, f, m) = f
           /\ \A k \in A!KeysFor(o, f, m) : k = f /\ f \in DOMAIN o
<1>1. ASSUME NEW n PROVE A!KeysFor(o, f, n) = IF f \in DOMAIN o THEN {f} ELSE {}
  BY DEF A!KeysFor, A!NoFieldIsAnAlias
<1>2. ASSUME NEW n, f \in DOMAIN o PROVE A!Winner(o, f, n) = f
  <2>1. A!KeysFor(o, f, n) = {f}
    BY <1>1, <1>2
  <2> DEFINE P(k) == {f} = {k} \/ (k = f <=> n = "aliasFirst")
  <2>2. A!Winner(o, f, n) = CHOOSE k \in {f} : P(k)
    BY <2>1 DEF A!Winner
  <2>3. \E k \in {f} : P(k)
    BY <2>1
  <2> HIDE DEF P
  <2>4. (CHOOSE k \in {f} : P(k)) \in {f}
    BY <2>3
  <2> QED BY <2>2, <2>4
<1> QED BY <1>1, <1>2

LEMMA TokenExact ==
    ASSUME A!NoFieldIsAnAlias, NEW v, A!validateToken(v), NEW m
    PROVE  A!DecodeToken(v, m) = A!DecodeToken(v, "exact")
<1>1. DOMAIN v.obj \subseteq A!FieldNames /\ A!object(v)
  BY Names DEF A!validateToken, A!fields
<1>2. ~A!isNull(v)
  BY <1>1 DEF A!object, A!isNull, A!Null
<1>3. \A f : /\ A!KeysFor(v.obj, f, m) = A!KeysFor(v.obj, f, "exact")
             /\ A!KeysFor(v.obj, f, m) # {} => A!Winner(v.obj, f, m) = A!Winner(v.obj, f, "exact")
  BY <1>1, Unaliased
<1> QED BY <1>2, <1>3 DEF A!DecodeToken, A!Struct

LEMMA QuoteExact ==
    ASSUME A!NoFieldIsAnAlias, NEW v, A!Exactly(v, {"sellAmount", "buyAmount", "fee"}), NEW m
    PROVE  A!Struct(v, A!FeeQuote, A!Scalar, m) = A!Struct(v, A!FeeQuote, A!Scalar, "exact")
<1>1. DOMAIN v.obj \subseteq A!FieldNames /\ A!object(v)
  BY Names DEF A!Exactly, A!fields
<1>2. ~A!isNull(v)
  BY <1>1 DEF A!object, A!isNull, A!Null
<1>3. \A f : /\ A!KeysFor(v.obj, f, m) = A!KeysFor(v.obj, f, "exact")
             /\ A!KeysFor(v.obj, f, m) # {} => A!Winner(v.obj, f, m) = A!Winner(v.obj, f, "exact")
  BY <1>1, Unaliased
<1> QED BY <1>2, <1>3 DEF A!Struct

PolicyValue(w, type, m) ==
    IF type # "quote" THEN A!Scalar(w, type)
    ELSE IF A!isNull(w) THEN A!Nil ELSE A!Struct(w, A!FeeQuote, A!Scalar, m)

LEMMA PolicyExact ==
    ASSUME A!NoFieldIsAnAlias, NEW v, A!validateFeePolicy(v), NEW m
    PROVE  A!DecodePolicy(v, m) = A!DecodePolicy(v, "exact")
<1>1. DOMAIN v.obj \subseteq A!FieldNames /\ A!object(v)
  BY Names DEF A!validateFeePolicy, A!Exactly, A!fields
<1>2. ~A!isNull(v)
  BY <1>1 DEF A!object, A!isNull, A!Null
<1>3. \A f : /\ A!KeysFor(v.obj, f, m) = A!KeysFor(v.obj, f, "exact")
             /\ A!KeysFor(v.obj, f, m) # {} => A!Winner(v.obj, f, m) = A!Winner(v.obj, f, "exact")
             /\ f \in DOMAIN v.obj => f \in A!KeysFor(v.obj, f, m) /\ A!Winner(v.obj, f, m) = f
             /\ \A k \in A!KeysFor(v.obj, f, m) : k = f /\ f \in DOMAIN v.obj
  BY <1>1, Unaliased
<1>4. \A f \in DOMAIN A!FeePolicy : A!FeePolicy[f] = "quote" <=> f = "quote"
  BY DEF A!FeePolicy
<1>5. "quote" \in DOMAIN v.obj => A!Exactly(v.obj.quote, {"sellAmount", "buyAmount", "fee"})
  BY DEF A!validateFeePolicy, A!Exactly, A!fields
<1>6. \A f \in DOMAIN A!FeePolicy : f \in DOMAIN v.obj =>
        PolicyValue(v.obj[f], A!FeePolicy[f], m) = PolicyValue(v.obj[f], A!FeePolicy[f], "exact")
  BY <1>4, <1>5, QuoteExact DEF PolicyValue
<1>7. \A t : PolicyValue(A!Null, t, m) = PolicyValue(A!Null, t, "exact")
  BY DEF PolicyValue, A!isNull
<1> DEFINE Fields(n) == [f \in DOMAIN A!FeePolicy |->
                           IF A!KeysFor(v.obj, f, n) # {}
                           THEN PolicyValue(v.obj[A!Winner(v.obj, f, n)], A!FeePolicy[f], n)
                           ELSE IF A!FeePolicy[f] = "raw" THEN A!Nil ELSE PolicyValue(A!Null, A!FeePolicy[f], n)]
           Spoilt(n) == \E f \in DOMAIN A!FeePolicy : \E k \in A!KeysFor(v.obj, f, n) :
                           PolicyValue(v.obj[k], A!FeePolicy[f], n) = A!Bad
<1>8. ASSUME NEW n
      PROVE  A!DecodePolicy(v, n) =
                IF ~A!object(v) THEN A!Bad ELSE IF Spoilt(n) THEN A!Bad ELSE A!Obj(Fields(n))
  BY <1>2 DEF A!DecodePolicy, A!Struct, PolicyValue
<1>9. Fields(m) = Fields("exact") /\ (Spoilt(m) <=> Spoilt("exact"))
  BY <1>3, <1>6, <1>7
<1> HIDE DEF Fields, Spoilt
<1> QED BY <1>8, <1>9

PoliciesValue(w, m) == LET policy(x) == A!DecodePolicy(x, m) IN A!List(w, policy)

LEMMA PoliciesExact ==
    ASSUME A!NoFieldIsAnAlias, NEW w, \A i \in DOMAIN w.arr : A!validateFeePolicy(w.arr[i]), NEW m
    PROVE  PoliciesValue(w, m) = PoliciesValue(w, "exact")
<1>1. \A i \in DOMAIN w.arr : A!DecodePolicy(w.arr[i], m) = A!DecodePolicy(w.arr[i], "exact")
  BY PolicyExact
<1> QED BY <1>1 DEF PoliciesValue, A!List

OrderValue(w, type, m) ==
    CASE type = "raws"     -> A!List(w, A!Raw)
      [] type = "policies" -> PoliciesValue(w, m)
      [] OTHER             -> A!Scalar(w, type)

LEMMA OrderTypes ==
    /\ DOMAIN A!Order = A!OrderRequired \cup A!OrderOptional
    /\ \A f \in DOMAIN A!Order :
          /\ A!Order[f] = "policies" <=> f = "feePolicies"
          /\ A!Order[f] = "raws" <=> f \in A!OrderLists \cup {"wrappers"}
          /\ A!Order[f] = "raw" <=> f = "flashloanHint"
          /\ f \in A!OrderStrings => A!Order[f] = "string"
<1>1. {"feePolicies", "flashloanHint", "validTo", "partiallyFillable"} \cap (A!OrderLists \cup {"wrappers"}) = {}
  BY DEF A!OrderLists
<1>2. /\ DOMAIN A!Order = A!OrderRequired \cup A!OrderOptional
      /\ \A f \in DOMAIN A!Order : A!Order[f] =
            CASE f \in A!OrderLists \cup {"wrappers"} -> "raws" [] f = "feePolicies" -> "policies"
              [] f = "flashloanHint" -> "raw" [] f = "validTo" -> "int64"
              [] f = "partiallyFillable" -> "bool" [] OTHER -> "string"
  BY DEF A!Order
<1>3. A!OrderStrings \cap (A!OrderLists \cup {"wrappers", "feePolicies", "flashloanHint", "validTo", "partiallyFillable"}) = {}
  BY DEF A!OrderStrings, A!OrderLists
<1> QED BY <1>1, <1>2, <1>3

LEMMA OrderExact ==
    ASSUME A!NoFieldIsAnAlias, NEW v, A!validateOrder(v), NEW m
    PROVE  A!DecodeOrder(v, m) = A!DecodeOrder(v, "exact")
<1>1. DOMAIN v.obj \subseteq A!FieldNames /\ A!object(v)
  BY Names DEF A!validateOrder, A!fields
<1>2. ~A!isNull(v)
  BY <1>1 DEF A!object, A!isNull, A!Null
<1>3. \A f : /\ A!KeysFor(v.obj, f, m) = A!KeysFor(v.obj, f, "exact")
             /\ A!KeysFor(v.obj, f, m) # {} => A!Winner(v.obj, f, m) = A!Winner(v.obj, f, "exact")
             /\ f \in DOMAIN v.obj => f \in A!KeysFor(v.obj, f, m) /\ A!Winner(v.obj, f, m) = f
             /\ \A k \in A!KeysFor(v.obj, f, m) : k = f /\ f \in DOMAIN v.obj
  BY <1>1, Unaliased
<1>4. "feePolicies" \in DOMAIN v.obj =>
        \A i \in DOMAIN v.obj.feePolicies.arr : A!validateFeePolicy(v.obj.feePolicies.arr[i])
  BY DEF A!validateOrder
<1>5. "feePolicies" \in DOMAIN v.obj =>
        PoliciesValue(v.obj.feePolicies, m) = PoliciesValue(v.obj.feePolicies, "exact")
  BY <1>4, PoliciesExact
<1>6. \A f \in DOMAIN A!Order : f \in DOMAIN v.obj =>
        OrderValue(v.obj[f], A!Order[f], m) = OrderValue(v.obj[f], A!Order[f], "exact")
  BY <1>5, OrderTypes DEF OrderValue
<1>7. \A t : OrderValue(A!Null, t, m) = OrderValue(A!Null, t, "exact")
  BY DEF OrderValue, PoliciesValue, A!List, A!isNull
<1> DEFINE Fields(n) == [f \in DOMAIN A!Order |->
                           IF A!KeysFor(v.obj, f, n) # {}
                           THEN OrderValue(v.obj[A!Winner(v.obj, f, n)], A!Order[f], n)
                           ELSE IF A!Order[f] = "raw" THEN A!Nil ELSE OrderValue(A!Null, A!Order[f], n)]
           Spoilt(n) == \E f \in DOMAIN A!Order : \E k \in A!KeysFor(v.obj, f, n) :
                           OrderValue(v.obj[k], A!Order[f], n) = A!Bad
<1>8. ASSUME NEW n
      PROVE  A!DecodeOrder(v, n) =
                IF ~A!object(v) THEN A!Bad ELSE IF Spoilt(n) THEN A!Bad ELSE A!Obj(Fields(n))
  BY <1>2 DEF A!DecodeOrder, A!Struct, OrderValue, PoliciesValue
<1>9. Fields(m) = Fields("exact") /\ (Spoilt(m) <=> Spoilt("exact"))
  BY <1>3, <1>6, <1>7
<1> HIDE DEF Fields, Spoilt
<1> QED BY <1>8, <1>9

LEMMA LiquidityExact ==
    ASSUME A!NoFieldIsAnAlias, NEW v, A!validateLiquidity(v), NEW m
    PROVE  A!DecodeLiquidity(v, m) = A!DecodeLiquidity(v, "exact")
<1>1. DOMAIN v.obj \subseteq A!FieldNames /\ A!object(v)
  <2> DEFINE which == A!requiredString(v.obj, "kind")
  <2>1. /\ which \in DOMAIN A!LiquidityFields
        /\ A!Exactly(v, {"kind", "id", "address", "gasEstimate"} \cup A!LiquidityFields[which])
    BY DEF A!validateLiquidity
  <2> HIDE DEF which
  <2>2. A!LiquidityFields[which] \subseteq UNION {A!LiquidityFields[k] : k \in DOMAIN A!LiquidityFields}
    BY <2>1
  <2> QED BY <2>1, <2>2, Names DEF A!Exactly, A!fields
<1>2. ~A!isNull(v)
  BY <1>1 DEF A!object, A!isNull, A!Null
<1>3. \A f : /\ A!KeysFor(v.obj, f, m) = A!KeysFor(v.obj, f, "exact")
             /\ A!KeysFor(v.obj, f, m) # {} => A!Winner(v.obj, f, m) = A!Winner(v.obj, f, "exact")
  BY <1>1, Unaliased
<1> QED BY <1>2, <1>3 DEF A!DecodeLiquidity, A!Struct

TokensValue(w, m)    == LET token(x) == A!DecodeToken(x, m) IN A!Map(w, token)
OrdersValue(w, m)    == LET order(x) == A!DecodeOrder(x, m) IN A!List(w, order)
LiquidityValue(w, m) == LET entry(x) == A!DecodeLiquidity(x, m) IN A!List(w, entry)

AuctionValue(w, type, m) ==
    CASE type = "tokens"    -> TokensValue(w, m)
      [] type = "orders"    -> OrdersValue(w, m)
      [] type = "liquidity" -> LiquidityValue(w, m)
      [] type = "owners"    -> A!List(w, A!StringOf)
      [] OTHER              -> A!Scalar(w, type)

LEMMA AuctionTypes ==
    /\ DOMAIN A!Auction = A!AuctionRequired \cup {"id"}
    /\ \A f \in DOMAIN A!Auction :
          /\ \A t \in {"tokens", "orders", "liquidity"} : (A!Auction[f] = t) <=> (f = t)
          /\ A!Auction[f] # "raw"
  BY DEF A!Auction, A!AuctionRequired

(* The decoder does not depend on the order of the keys, and reads each    *)
(* field from the value the document has under its name.                   *)
LEMMA DecodeAuctionIs ==
    ASSUME A!NoFieldIsAnAlias, NEW v, A!ValidateAuctionJSON(v), NEW m
    PROVE  /\ A!DecodeAuction(v, m) = A!DecodeAuction(v, "exact")
           /\ A!DecodeAuction(v, m) # A!Bad =>
                /\ A!DecodeAuction(v, m) = A!Obj(A!DecodeAuction(v, m).obj)
                /\ \A f \in A!AuctionRequired :
                      /\ A!DecodeAuction(v, m).obj[f] = AuctionValue(v.obj[f], A!Auction[f], "exact")
                      /\ A!DecodeAuction(v, m).obj[f] # A!Bad
<1>1. DOMAIN v.obj \subseteq A!FieldNames /\ A!object(v) /\ A!AuctionRequired \subseteq DOMAIN v.obj
  BY Names DEF A!ValidateAuctionJSON, A!fields
<1>2. ~A!isNull(v)
  BY <1>1 DEF A!object, A!isNull, A!Null
<1>3. \A f : /\ A!KeysFor(v.obj, f, m) = A!KeysFor(v.obj, f, "exact")
             /\ A!KeysFor(v.obj, f, m) # {} => A!Winner(v.obj, f, m) = A!Winner(v.obj, f, "exact")
             /\ f \in DOMAIN v.obj => f \in A!KeysFor(v.obj, f, m) /\ A!Winner(v.obj, f, m) = f
             /\ \A k \in A!KeysFor(v.obj, f, m) : k = f /\ f \in DOMAIN v.obj
  BY <1>1, Unaliased
<1>4. /\ \A t \in DOMAIN v.obj.tokens.obj : A!validateToken(v.obj.tokens.obj[t])
      /\ \A i \in DOMAIN v.obj.orders.arr : A!validateOrder(v.obj.orders.arr[i])
      /\ \A i \in DOMAIN v.obj.liquidity.arr : A!validateLiquidity(v.obj.liquidity.arr[i])
  BY DEF A!ValidateAuctionJSON
<1>5. TokensValue(v.obj.tokens, m) = TokensValue(v.obj.tokens, "exact")
  <2>1. \A t \in DOMAIN v.obj.tokens.obj :
          A!DecodeToken(v.obj.tokens.obj[t], m) = A!DecodeToken(v.obj.tokens.obj[t], "exact")
    BY <1>4, TokenExact
  <2> QED BY <2>1 DEF TokensValue, A!Map
<1>6. OrdersValue(v.obj.orders, m) = OrdersValue(v.obj.orders, "exact")
  <2>1. \A i \in DOMAIN v.obj.orders.arr :
          A!DecodeOrder(v.obj.orders.arr[i], m) = A!DecodeOrder(v.obj.orders.arr[i], "exact")
    BY <1>4, OrderExact
  <2> QED BY <2>1 DEF OrdersValue, A!List
<1>7. LiquidityValue(v.obj.liquidity, m) = LiquidityValue(v.obj.liquidity, "exact")
  <2>1. \A i \in DOMAIN v.obj.liquidity.arr :
          A!DecodeLiquidity(v.obj.liquidity.arr[i], m) = A!DecodeLiquidity(v.obj.liquidity.arr[i], "exact")
    BY <1>4, LiquidityExact
  <2> QED BY <2>1 DEF LiquidityValue, A!List
<1>8. \A f \in DOMAIN A!Auction : f \in DOMAIN v.obj =>
        AuctionValue(v.obj[f], A!Auction[f], m) = AuctionValue(v.obj[f], A!Auction[f], "exact")
  BY <1>5, <1>6, <1>7, AuctionTypes DEF AuctionValue
<1>9. \A t : AuctionValue(A!Null, t, m) = AuctionValue(A!Null, t, "exact")
  BY DEF AuctionValue, TokensValue, OrdersValue, LiquidityValue, A!List, A!Map, A!isNull
<1> DEFINE Fields(n) == [f \in DOMAIN A!Auction |->
                           IF A!KeysFor(v.obj, f, n) # {}
                           THEN AuctionValue(v.obj[A!Winner(v.obj, f, n)], A!Auction[f], n)
                           ELSE IF A!Auction[f] = "raw" THEN A!Nil ELSE AuctionValue(A!Null, A!Auction[f], n)]
           Spoilt(n) == \E f \in DOMAIN A!Auction : \E k \in A!KeysFor(v.obj, f, n) :
                           AuctionValue(v.obj[k], A!Auction[f], n) = A!Bad
<1>10. ASSUME NEW n
       PROVE  A!DecodeAuction(v, n) =
                IF ~A!object(v) THEN A!Bad ELSE IF Spoilt(n) THEN A!Bad ELSE A!Obj(Fields(n))
  BY <1>2 DEF A!DecodeAuction, A!Struct, AuctionValue, TokensValue, OrdersValue, LiquidityValue
<1>11. Fields(m) = Fields("exact") /\ (Spoilt(m) <=> Spoilt("exact"))
  BY <1>3, <1>8, <1>9
<1>12. ASSUME NEW f \in A!AuctionRequired
       PROVE  /\ Fields("exact")[f] = AuctionValue(v.obj[f], A!Auction[f], "exact")
              /\ Fields("exact")[f] = A!Bad => Spoilt("exact")
  <2>1. f \in DOMAIN A!Auction /\ f \in DOMAIN v.obj
    BY <1>1, AuctionTypes
  <2>2. f \in A!KeysFor(v.obj, f, "exact") /\ A!Winner(v.obj, f, "exact") = f
    BY <1>3, <2>1
  <2> QED BY <2>1, <2>2
<1> HIDE DEF Fields, Spoilt
<1>13. \A x : A!Obj(x).obj = x
  BY DEF A!Obj
<1> QED BY <1>1, <1>10, <1>11, <1>12, <1>13
-----------------------------------------------------------------------------
(* The tests of validateAuction. *)
Accepted ==
    /\ A!Nil \notin {auction.tokens, auction.orders, auction.liquidity,
                     auction.surplusCapturingJitOrderOwners}
    /\ A!TokensValid(auction.tokens.obj) /\ A!OrdersValid(auction.orders.arr)
    /\ A!LiquidityValid(auction.liquidity.arr)

(* Once the document is decoded it stays what it was, and so does what was *)
(* made of it.                                                             *)
AdmissionInv ==
    /\ at \in {"decoded", "admitted", "answered"} =>
         /\ A!ValidateAuctionJSON(doc)
         /\ A!UnmarshalAuction(doc, mode) # A!Bad
         /\ auction = A!UnmarshalAuction(doc, mode).obj
    /\ at \in {"admitted", "answered"} => Accepted

LEMMA AdmissionInvInvariant == A!Spec => []AdmissionInv
<1>1. A!Init => AdmissionInv
  BY DEF A!Init, AdmissionInv
<1>2. AdmissionInv /\ [A!Next]_(A!vars) => AdmissionInv'
  <2> SUFFICES ASSUME AdmissionInv, [A!Next]_(A!vars) PROVE AdmissionInv'
    OBVIOUS
  <2>1. CASE A!Edit \/ A!Post
    BY <2>1 DEF A!Edit, A!Post, AdmissionInv
  <2>2. CASE A!decodeUniqueJSON
    BY <2>2 DEF A!decodeUniqueJSON, A!Refused, AdmissionInv
  <2>3. CASE A!validateAuction
    BY <2>3 DEF A!validateAuction, A!Refused, AdmissionInv, Accepted
  <2>4. CASE A!Answer
    BY <2>4 DEF A!Answer, AdmissionInv, Accepted
  <2>5. CASE UNCHANGED A!vars
    BY <2>5 DEF A!vars, AdmissionInv, Accepted
  <2> QED BY <2>1, <2>2, <2>3, <2>4, <2>5 DEF A!Next
<1> QED BY <1>1, <1>2, PTL DEF A!Spec

(* What is admitted is what DecodeAuction gives, with each item inside its *)
(* bounds.                                                                 *)
LEMMA DecodedIs ==
    ASSUME A!NoFieldIsAnAlias, AdmissionInv, at \in {"decoded", "admitted", "answered"}
    PROVE  /\ A!ValidateAuctionJSON(doc)
           /\ A!Obj(auction) = A!DecodeAuction(doc, "exact")
           /\ \A f \in A!AuctionRequired :
                 /\ auction[f] = AuctionValue(doc.obj[f], A!Auction[f], "exact")
                 /\ auction[f] # A!Bad
           /\ \A o \in A!ItemsOf(auction.orders) : A!OrderBounds(o)
<1>1. /\ A!ValidateAuctionJSON(doc)
      /\ A!UnmarshalAuction(doc, mode) # A!Bad
      /\ auction = A!UnmarshalAuction(doc, mode).obj
  BY DEF AdmissionInv
<1>2. /\ A!UnmarshalAuction(doc, mode) = A!DecodeAuction(doc, mode)
      /\ \A o \in A!ItemsOf(A!DecodeAuction(doc, mode).obj.orders) : A!OrderBounds(o)
  BY <1>1 DEF A!UnmarshalAuction
<1> QED BY <1>1, <1>2, DecodeAuctionIs

(* Whatever the driver's document, however often it was edited and         *)
(* whichever way its keys are ordered: what decodeUniqueJSON hands to      *)
(* validateAuction and Solve is what a decoder that compares keys exactly  *)
(* reads.  The contract has refused every other key before json.Unmarshal, *)
(* which would have taken it for a field, comes to see it.                 *)
LEMMA SolvePartReads ==
    ASSUME A!NoFieldIsAnAlias PROVE A!Spec => []A!ReadsWhatTheDriverWrote
<1>1. AdmissionInv => A!ReadsWhatTheDriverWrote
  BY DecodedIs DEF A!ReadsWhatTheDriverWrote, A!Admitted
<1> QED BY <1>1, AdmissionInvInvariant, PTL

-----------------------------------------------------------------------------
(* The orders and tokens of an admitted auction are lists and maps of what *)
(* was read from the items of the document.                                *)
LEMMA ItemsRead ==
    ASSUME A!NoFieldIsAnAlias, AdmissionInv, A!Admitted
    PROVE  /\ auction.orders = A!Arr([i \in DOMAIN doc.obj.orders.arr |->
                                         A!DecodeOrder(doc.obj.orders.arr[i], "exact")])
           /\ A!ItemsOf(auction.orders) = {A!Orders[i].obj : i \in DOMAIN A!Orders}
           /\ \A i \in DOMAIN A!Orders : A!validateOrder(doc.obj.orders.arr[i])
                /\ A!DecodeOrder(doc.obj.orders.arr[i], "exact") # A!Bad
                /\ A!Orders[i] = A!DecodeOrder(doc.obj.orders.arr[i], "exact")
<1>1. /\ A!ValidateAuctionJSON(doc) /\ Accepted
      /\ auction.orders = AuctionValue(doc.obj.orders, A!Auction.orders, "exact")
      /\ auction.orders # A!Bad
  BY DecodedIs DEF A!Admitted, AdmissionInv, A!AuctionRequired
<1>2. auction.orders # A!Nil
  BY <1>1 DEF Accepted
<1>3. auction.orders = OrdersValue(doc.obj.orders, "exact")
  BY <1>1 DEF AuctionValue, A!Auction
<1>4. /\ auction.orders = A!Arr([i \in DOMAIN doc.obj.orders.arr |->
                                   A!DecodeOrder(doc.obj.orders.arr[i], "exact")])
      /\ \A i \in DOMAIN doc.obj.orders.arr : A!DecodeOrder(doc.obj.orders.arr[i], "exact") # A!Bad
  BY <1>1, <1>2, <1>3 DEF OrdersValue, A!List
<1>5. \A x : A!Arr(x).arr = x /\ A!array(A!Arr(x))
  BY DEF A!Arr, A!array
<1>6. A!ItemsOf(auction.orders) = {A!Orders[i].obj : i \in DOMAIN A!Orders}
  BY <1>2, <1>4, <1>5 DEF A!ItemsOf, A!Orders
<1>7. \A i \in DOMAIN doc.obj.orders.arr : A!validateOrder(doc.obj.orders.arr[i])
  BY <1>1 DEF A!ValidateAuctionJSON
<1> QED BY <1>4, <1>5, <1>6, <1>7 DEF A!Orders

(* Names EqualFold takes for one another are the same in lower case, as    *)
(* they are when no letter beyond A to Z occurs in them.                   *)
TokensPlain ==
    \A t, u \in DOMAIN auction.tokens.obj : A!EqualFold(t, u) => A!ToLower(t) = A!ToLower(u)

(* What validateAuction and UnmarshalJSON let through is what Solve takes  *)
(* for granted, for orders, pools and tokens of any number: positive       *)
(* amounts, names that differ, and one price at most for a token.  That    *)
(* the two ways the code compares tokens, ToLower here and EqualFold       *)
(* there, agree on the tokens of the auction is an assumption.             *)
LEMMA SolvePartFit ==
    ASSUME A!NoFieldIsAnAlias PROVE A!Spec => [](TokensPlain => A!FitToSolve)
<1>1. AdmissionInv => (TokensPlain => A!FitToSolve)
  <2> SUFFICES ASSUME AdmissionInv, TokensPlain, A!Admitted
               PROVE  A!FitToSolve
    BY DEF A!FitToSolve
  <2>1. Accepted /\ \A o \in A!ItemsOf(auction.orders) : A!OrderBounds(o)
    BY DecodedIs DEF AdmissionInv, A!Admitted
  <2>2. \A i \in DOMAIN A!Orders : \A f \in {"sellAmount", "buyAmount", "fullSellAmount"} :
          U256Of[A!Orders[i].obj[f].str] > 0
    <3> TAKE i \in DOMAIN A!Orders
    <3>1. A!Orders[i].obj \in A!ItemsOf(auction.orders)
      BY ItemsRead
    <3> QED BY <2>1, <3>1 DEF A!OrderBounds, A!validDecimalU256
  <2>3. \A i, j \in DOMAIN A!Orders :
          i # j => A!ToLower(A!Orders[i].obj.uid.str) # A!ToLower(A!Orders[j].obj.uid.str)
    BY <2>1 DEF Accepted, A!OrdersValid, A!Orders
  <2>4. \A i, j \in DOMAIN auction.liquidity.arr :
          i # j => auction.liquidity.arr[i].obj.id # auction.liquidity.arr[j].obj.id
    BY <2>1 DEF Accepted, A!LiquidityValid
  <2>5. \A t \in DOMAIN auction.tokens.obj : \A u, v \in A!PricesOf(t) : u = v
    BY <2>1 DEF A!PricesOf, TokensPlain, Accepted, A!TokensValid
  <2> QED BY <2>2, <2>3, <2>4, <2>5 DEF A!FitToSolve
<1> QED BY <1>1, AdmissionInvInvariant, PTL

-----------------------------------------------------------------------------
(* A field the document has is read from the value it has there.           *)
LEMMA OrderRead ==
    ASSUME A!NoFieldIsAnAlias, NEW v, A!validateOrder(v), A!DecodeOrder(v, "exact") # A!Bad,
           NEW k \in DOMAIN v.obj
    PROVE  /\ A!DecodeOrder(v, "exact").obj[k] = OrderValue(v.obj[k], A!Order[k], "exact")
           /\ OrderValue(v.obj[k], A!Order[k], "exact") # A!Bad
<1>1. /\ DOMAIN v.obj \subseteq A!FieldNames /\ A!object(v)
      /\ DOMAIN v.obj \subseteq DOMAIN A!Order
  BY Names, OrderTypes DEF A!validateOrder, A!fields
<1>2. ~A!isNull(v)
  BY <1>1 DEF A!object, A!isNull, A!Null
<1>3. k \in A!KeysFor(v.obj, k, "exact") /\ A!Winner(v.obj, k, "exact") = k
  BY <1>1, Unaliased
<1> DEFINE Fields == [f \in DOMAIN A!Order |->
                        IF A!KeysFor(v.obj, f, "exact") # {}
                        THEN OrderValue(v.obj[A!Winner(v.obj, f, "exact")], A!Order[f], "exact")
                        ELSE IF A!Order[f] = "raw" THEN A!Nil ELSE OrderValue(A!Null, A!Order[f], "exact")]
           Spoilt == \E f \in DOMAIN A!Order : \E j \in A!KeysFor(v.obj, f, "exact") :
                        OrderValue(v.obj[j], A!Order[f], "exact") = A!Bad
<1>4. A!DecodeOrder(v, "exact") =
         IF ~A!object(v) THEN A!Bad ELSE IF Spoilt THEN A!Bad ELSE A!Obj(Fields)
  BY <1>2 DEF A!DecodeOrder, A!Struct, OrderValue, PoliciesValue
<1>5. Fields[k] = OrderValue(v.obj[k], A!Order[k], "exact")
  BY <1>1, <1>3
<1>6. OrderValue(v.obj[k], A!Order[k], "exact") = A!Bad => Spoilt
  BY <1>1, <1>3
<1> HIDE DEF Fields, Spoilt
<1>7. A!Obj(Fields).obj = Fields
  BY DEF A!Obj
<1> QED BY <1>1, <1>4, <1>5, <1>6, <1>7

(* An order Solve takes is one whose document says nothing the engine does *)
(* not encode: eligible sees every field the contract lets through, as the *)
(* driver wrote it.                                                        *)
LEMMA SolvePartEncoded ==
    ASSUME A!NoFieldIsAnAlias PROVE A!Spec => []A!NothingIgnored
<1>1. AdmissionInv => A!NothingIgnored
  <2> SUFFICES ASSUME AdmissionInv, A!Admitted, NEW i \in DOMAIN A!Orders,
                      A!Eligible(A!Orders[i].obj), NEW k \in DOMAIN A!DocOrder(i)
               PROVE  LET v == A!DocOrder(i)[k] IN
                        /\ k \in A!OrderRequired \cup A!OrderOptional
                        /\ k \in A!OrderLists \cup {"wrappers", "feePolicies"} =>
                              A!array(v) /\ DOMAIN v.arr = {}
                        /\ k = "flashloanHint" => A!isNull(v)
                        /\ k \in {"sellTokenSource", "buyTokenDestination"} =>
                              A!stringValue(v) /\ v.str \in {"", "erc20"}
    BY DEF A!NothingIgnored
  <2> DEFINE w == doc.obj.orders.arr[i]
             o == A!Orders[i].obj
  <2>1. A!validateOrder(w) /\ A!DecodeOrder(w, "exact") # A!Bad /\ o = A!DecodeOrder(w, "exact").obj
    BY ItemsRead
  <2>2. /\ DOMAIN w.obj \subseteq A!OrderRequired \cup A!OrderOptional /\ A!DocOrder(i) = w.obj
        /\ k \in DOMAIN w.obj
    BY <2>1 DEF A!validateOrder, A!fields, A!DocOrder
  <2>3. A!Eligible(o)
    OBVIOUS
  <2> HIDE DEF w, o
  <2>4. o[k] = OrderValue(w.obj[k], A!Order[k], "exact") /\ o[k] # A!Bad
    BY <2>1, <2>2, OrderRead
  <2>5. ASSUME k \in A!OrderLists \cup {"wrappers", "feePolicies"}
        PROVE  A!array(w.obj[k]) /\ DOMAIN w.obj[k].arr = {}
    <3>1. A!array(w.obj[k])
      BY <2>1, <2>2, <2>5 DEF A!validateOrder
    <3>2. ~A!isNull(w.obj[k])
      BY <3>1 DEF A!array, A!isNull, A!Null
    <3>3. A!Order[k] \in {"raws", "policies"}
      BY <2>5, OrderTypes DEF A!OrderRequired, A!OrderOptional
    <3> DEFINE policy(x) == A!DecodePolicy(x, "exact")
               x == w.obj[k]
    <3>4. o[k] = A!List(x, A!Raw) \/ o[k] = A!List(x, policy)
      BY <2>4, <3>3 DEF OrderValue, PoliciesValue
    <3>5. \/ o[k] = A!Arr([j \in DOMAIN x.arr |-> A!Raw(x.arr[j])])
          \/ o[k] = A!Arr([j \in DOMAIN x.arr |-> policy(x.arr[j])])
      BY <2>4, <3>2, <3>4 DEF A!List
    <3>6. o[k] # A!Nil
      BY <3>5 DEF A!Arr, A!Nil
    <3>7. o[k].arr = <<>>
      BY <2>3, <2>5, <3>6 DEF A!Eligible
    <3>8. \A s : A!Arr(s).arr = s
      BY DEF A!Arr
    <3> HIDE DEF policy, x
    <3>9. \/ [j \in DOMAIN x.arr |-> A!Raw(x.arr[j])] = <<>>
          \/ [j \in DOMAIN x.arr |-> policy(x.arr[j])] = <<>>
      BY <3>5, <3>7, <3>8
    <3>10. DOMAIN x.arr = {}
      BY <3>9
    <3> QED BY <3>1, <3>10 DEF x
  <2>6. ASSUME k = "flashloanHint" PROVE A!isNull(w.obj[k])
    <3>0. A!Order[k] = "raw"
      BY <2>6, OrderTypes DEF A!OrderOptional
    <3>1. o[k] = w.obj[k]
      BY <2>4, <3>0 DEF OrderValue, A!Scalar
    <3>2. o[k] \in {A!Nil, A!Null}
      BY <2>3, <2>6 DEF A!Eligible
    <3>3. A!isNull(w.obj[k]) \/ A!object(w.obj[k])
      BY <2>1, <2>2, <2>6 DEF A!validateOrder, A!Exactly
    <3> QED BY <3>1, <3>2, <3>3 DEF A!isNull, A!object, A!Nil
  <2>7. ASSUME k \in {"sellTokenSource", "buyTokenDestination"}
        PROVE  A!stringValue(w.obj[k]) /\ w.obj[k].str \in {"", "erc20"}
    <3>1. A!stringValue(w.obj[k])
      BY <2>1, <2>7 DEF A!validateOrder, A!OrderStrings
    <3>2. ~A!isNull(w.obj[k])
      BY <3>1 DEF A!stringValue, A!isNull, A!Null
    <3>3. A!Order[k] = "string"
      BY <2>7, OrderTypes DEF A!OrderRequired, A!OrderStrings
    <3>4. o[k] = w.obj[k]
      BY <2>4, <3>2, <3>3 DEF OrderValue, A!Scalar
    <3>5. o[k].str \in {"", "erc20"}
      BY <2>3, <2>7 DEF A!Eligible
    <3> QED BY <3>1, <3>4, <3>5
  <2> QED BY <2>2, <2>5, <2>6, <2>7
<1> QED BY <1>1, AdmissionInvInvariant, PTL
-----------------------------------------------------------------------------
(* The contract holds of what is marshalled, part by part.                 *)
LEMMA HopValid == ASSUME NEW h PROVE A!validateInteraction(A!MarshalHop(h))
<1>1. \A x : A!Obj(x).obj = x /\ A!object(A!Obj(x))
  BY DEF A!Obj, A!object
<1> DEFINE o == [kind |-> A!Str("liquidity"), id |-> A!Str(h), inputToken |-> A!Str("t"),
                 outputToken |-> A!Str("u"), inputAmount |-> A!Str("5"), outputAmount |-> A!Str("5"),
                 internalize |-> A!Bool(FALSE)]
<1>2. A!MarshalHop(h) = A!Obj(o)
  BY DEF A!MarshalHop
<1>3. DOMAIN o = {"kind", "id", "inputToken", "outputToken", "inputAmount", "outputAmount", "internalize"}
  OBVIOUS
<1>4. A!requiredString(o, "kind") = "liquidity"
  BY DEF A!requiredString, A!isNull, A!Null, A!Str, A!stringValue
<1>5. A!stringValue(o.id) /\ A!boolValue(o.internalize)
  BY DEF A!stringValue, A!boolValue, A!Str, A!Bool
<1> HIDE DEF o
<1> QED BY <1>1, <1>2, <1>3, <1>4, <1>5 DEF A!validateInteraction, A!Exactly, A!fields

LEMMA TradeValid == ASSUME NEW t PROVE A!validateTrade(A!MarshalTrade(t))
<1>1. \A x : A!Obj(x).obj = x /\ A!object(A!Obj(x))
  BY DEF A!Obj, A!object
<1> DEFINE o == [kind |-> A!Str("fulfillment"), order |-> A!Str(t), executedAmount |-> A!Str("5")]
<1>2. A!MarshalTrade(t) = A!Obj(o)
  BY DEF A!MarshalTrade
<1>3. DOMAIN o = {"kind", "order", "executedAmount"}
  OBVIOUS
<1>4. A!requiredString(o, "kind") = "fulfillment"
  BY DEF A!requiredString, A!isNull, A!Null, A!Str, A!stringValue
<1> HIDE DEF o
<1> QED BY <1>1, <1>2, <1>3, <1>4 DEF A!validateTrade, A!fields

LEMMA SolutionValid == ASSUME NEW s PROVE A!validateSolution(A!MarshalSolution(s))
<1>1. \A x : A!Obj(x).obj = x /\ A!object(A!Obj(x)) /\ A!Arr(x).arr = x /\ A!array(A!Arr(x))
  BY DEF A!Obj, A!object, A!Arr, A!array
<1> DEFINE prices == [t \in s.prices |-> A!Str("5")]
           trades == [i \in DOMAIN s.trades |-> A!MarshalTrade(s.trades[i])]
           hops   == [i \in DOMAIN s.interactions |-> A!MarshalHop(s.interactions[i])]
           fixed  == [id |-> A!Num("7"), prices |-> A!Obj(prices), trades |-> A!Arr(trades),
                      interactions |-> A!Arr(hops)]
           o      == [f \in DOMAIN fixed \cup (IF s.gas = 0 THEN {} ELSE {"gas"}) |->
                        IF f = "gas" THEN A!Num("7") ELSE fixed[f]]
<1>2. A!MarshalSolution(s) = A!Obj(o)
  BY DEF A!MarshalSolution
<1>3. /\ \A t \in DOMAIN prices : A!stringValue(prices[t])
      /\ \A i \in DOMAIN trades : A!validateTrade(trades[i])
      /\ \A i \in DOMAIN hops : A!validateInteraction(hops[i])
  BY TradeValid, HopValid DEF A!stringValue, A!Str
<1> HIDE DEF prices, trades, hops
<1>4. /\ DOMAIN fixed = {"id", "prices", "trades", "interactions"}
      /\ fixed.id = A!Num("7") /\ fixed.prices = A!Obj(prices)
      /\ fixed.trades = A!Arr(trades) /\ fixed.interactions = A!Arr(hops)
  OBVIOUS
<1> HIDE DEF fixed
<1>5. /\ {"id", "prices", "trades", "interactions"} \subseteq DOMAIN o
      /\ DOMAIN o \subseteq {"id", "prices", "trades", "interactions", "gas"}
      /\ \A f \in {"id", "prices", "trades", "interactions"} : o[f] = fixed[f]
  BY <1>4
<1> HIDE DEF o
<1>6. /\ o.id = A!Num("7") /\ o.prices = A!Obj(prices)
      /\ o.trades = A!Arr(trades) /\ o.interactions = A!Arr(hops)
  BY <1>4, <1>5
<1>7. A!numberValue(o.id)
  BY <1>6 DEF A!numberValue, A!Num
<1> QED BY <1>1, <1>2, <1>3, <1>5, <1>6, <1>7 DEF A!validateSolution, A!fields

LEMMA ResponseValid ==
    ASSUME NEW r PROVE A!ValidateSolveResponseJSON(A!Obj([solutions |-> A!SolutionsOf(r)]))
<1>1. \A x : A!Obj(x).obj = x /\ A!object(A!Obj(x)) /\ A!Arr(x).arr = x /\ A!array(A!Arr(x))
  BY DEF A!Obj, A!object, A!Arr, A!array
<1> DEFINE list == [i \in DOMAIN r |-> A!MarshalSolution(r[i])]
<1>2. A!SolutionsOf(r) = A!Arr(list) /\ \A i \in DOMAIN list : A!validateSolution(list[i])
  BY SolutionValid DEF A!SolutionsOf
<1> HIDE DEF list
<1> QED BY <1>1, <1>2 DEF A!ValidateSolveResponseJSON, A!Exactly, A!fields

(* Whatever Solve returns, writeJSON's check of the contract passes: the   *)
(* branch that answers 500 is never taken after a solve.                   *)
LEMMA SolvePartReplies == A!Spec => []A!AnswersPassTheContract
<1>1. A!Init => A!AnswersPassTheContract
  BY DEF A!Init, A!AnswersPassTheContract
<1>2. A!AnswersPassTheContract /\ [A!Next]_(A!vars) => A!AnswersPassTheContract'
  <2> SUFFICES ASSUME A!AnswersPassTheContract, [A!Next]_(A!vars) PROVE A!AnswersPassTheContract'
    OBVIOUS
  <2>1. CASE A!Answer
    BY <2>1, ResponseValid DEF A!Answer, A!writeJSON, A!AnswersPassTheContract
  <2>2. CASE A!Edit \/ A!Post \/ A!decodeUniqueJSON \/ A!validateAuction \/ UNCHANGED A!vars
    BY <2>2 DEF A!Edit, A!Post, A!decodeUniqueJSON, A!validateAuction, A!Refused, A!vars,
                A!AnswersPassTheContract
  <2> QED BY <2>1, <2>2 DEF A!Next
<1> QED BY <1>1, <1>2, PTL DEF A!Spec

-----------------------------------------------------------------------------
(***************************************************************************)
(* A notification into the evidence and back (module Notifications).       *)
(***************************************************************************)
(* What an id that is neither missing nor null is read as tells its value. *)
LEMMA IdKept ==
    ASSUME NEW v, ~N!isNull(v), N!UnmarshalID(v) # N!Bad
    PROVE  /\ N!UnmarshalID(v) # N!Nil
           /\ N!MarshalID(N!UnmarshalID(v)) = v
           /\ v # N!Bad
<1>1. CASE N!array(v)
  <2>1. N!UnmarshalID(v) = [single |-> N!Nil, merged |-> v]
    BY <1>1 DEF N!UnmarshalID, N!Merged
  <2>2. v # N!Nil /\ v # N!Bad
    BY <1>1 DEF N!array, N!Nil, N!Bad
  <2> QED BY <2>1, <2>2 DEF N!MarshalID, N!Nil
<1>2. CASE ~N!array(v)
  <2>1. N!UnmarshalID(v) = [single |-> v, merged |-> N!Nil] /\ "num" \in DOMAIN v
    BY <1>2 DEF N!UnmarshalID, N!Single, N!Uint64, N!uint64NumberValue
  <2>2. v # N!Nil /\ v # N!Bad
    BY <2>1 DEF N!Nil, N!Bad
  <2> QED BY <2>1, <2>2 DEF N!MarshalID, N!Nil
<1> QED BY <1>1, <1>2

(* What a document says, and what the notification made of it holds.       *)
IdIn(o) == IF N!Has(o, "solutionId") THEN N!UnmarshalID(o.solutionId) ELSE N!Nil

Read(o) == [auctionId  |-> IF N!Has(o, "auctionId") THEN o.auctionId ELSE N!Nil,
            solutionId |-> IdIn(o), kind |-> o.kind, extra |-> N!Extra(o)]

Sound(o) ==
    /\ N!AuctionIdOk(o) /\ IdIn(o) # N!Bad
    /\ N!Has(o, "kind") /\ N!stringValue(o.kind) /\ o.kind.str # ""
    /\ N!validateNotificationKind(o.kind.str, N!Extra(o))

LEMMA UnmarshalIs ==
    ASSUME NEW v
    PROVE  /\ N!Unmarshal(v) # N!Bad <=> N!object(v) /\ Sound(v.obj)
           /\ N!Unmarshal(v) # N!Bad => N!Unmarshal(v) = Read(v.obj)
<1>1. N!Unmarshal(v) = IF ~N!object(v) THEN N!Bad ELSE IF Sound(v.obj) THEN Read(v.obj) ELSE N!Bad
  BY DEF N!Unmarshal, Sound, Read, IdIn
<1>2. Read(v.obj) # N!Bad
  BY DEF Read, N!Bad
<1> QED BY <1>1, <1>2

(* The record a notification is marshalled to.                             *)
Written(n) ==
    [f \in N!Reserved \cup DOMAIN n.extra |->
        CASE f = "auctionId"  -> IF n.auctionId = N!Nil THEN N!Null ELSE n.auctionId
          [] f = "solutionId" -> N!MarshalID(n.solutionId)
          [] f = "kind"       -> n.kind
          [] OTHER            -> n.extra[f]]

LEMMA WrittenBack ==
    ASSUME NEW o, Sound(o), NEW n, n = Read(o)
    PROVE  /\ N!MarshalID(n.solutionId) # N!Bad
           /\ DOMAIN Written(n) = DOMAIN o \cup N!Reserved
           /\ \A f \in DOMAIN o : Written(n)[f] = o[f]
           /\ \A f \in N!Reserved \ DOMAIN o : Written(n)[f] = N!Null
<1>1. /\ n.auctionId = IF N!Has(o, "auctionId") THEN o.auctionId ELSE N!Nil
      /\ n.solutionId = IdIn(o) /\ n.kind = o.kind /\ n.extra = N!Extra(o)
  BY DEF Read
<1>2. N!MarshalID(n.solutionId) =
         IF N!Has(o, "solutionId") THEN o.solutionId ELSE N!Null
  BY <1>1, IdKept DEF IdIn, Sound, N!Has, N!MarshalID
<1>3. (IF n.auctionId = N!Nil THEN N!Null ELSE n.auctionId) =
         IF N!Has(o, "auctionId") THEN o.auctionId ELSE N!Null
  <2>1. N!Has(o, "auctionId") => o.auctionId # N!Nil
    BY DEF Sound, N!AuctionIdOk, N!stringValue, N!Nil
  <2> QED BY <1>1, <2>1
<1>4. N!MarshalID(n.solutionId) # N!Bad
  <2>1. N!Null # N!Bad
    BY DEF N!Null, N!Bad
  <2>2. N!Has(o, "solutionId") => o.solutionId # N!Bad
    BY IdKept DEF N!Has, Sound, IdIn
  <2> QED BY <1>2, <2>1, <2>2
<1>5. /\ DOMAIN N!Extra(o) = DOMAIN o \ N!Reserved
      /\ \A f \in DOMAIN o \ N!Reserved : N!Extra(o)[f] = o[f]
  BY DEF N!Extra
<1>6. "kind" \in DOMAIN o
  BY DEF Sound, N!Has
<1>7. DOMAIN Written(n) = DOMAIN o \cup N!Reserved
  BY <1>1, <1>5 DEF Written
<1>8. /\ Written(n)["auctionId"] = IF N!Has(o, "auctionId") THEN o.auctionId ELSE N!Null
      /\ Written(n)["solutionId"] = IF N!Has(o, "solutionId") THEN o.solutionId ELSE N!Null
      /\ Written(n)["kind"] = o.kind
      /\ \A f \in DOMAIN o \ N!Reserved : Written(n)[f] = o[f]
  BY <1>1, <1>2, <1>3, <1>5 DEF Written, N!Reserved
<1>9. \A f \in N!Reserved \ DOMAIN o : Written(n)[f] = N!Null
  BY <1>6, <1>8 DEF N!Reserved, N!Has
<1>10. \A f \in DOMAIN o : Written(n)[f] = o[f]
  BY <1>8 DEF N!Reserved, N!Has, N!isNull
<1> QED BY <1>4, <1>7, <1>9, <1>10

(* A document with null for each missing id reads as the document does.    *)
LEMMA RereadSame ==
    ASSUME NEW o, Sound(o), NEW r, DOMAIN r = DOMAIN o \cup N!Reserved,
           \A f \in DOMAIN o : r[f] = o[f], \A f \in N!Reserved \ DOMAIN o : r[f] = N!Null
    PROVE  Sound(r) /\ Read(r) = Read(o)
<1>1. \A f \in N!Reserved : N!Has(r, f) <=> N!Has(o, f)
  BY DEF N!Has, N!isNull
<1>2. \A f \in N!Reserved : N!Has(o, f) => r[f] = o[f]
  BY DEF N!Has
<1>3. N!Extra(r) = N!Extra(o)
  BY DEF N!Extra
<1>4. {"auctionId", "solutionId", "kind"} = N!Reserved
  BY DEF N!Reserved
<1>5. /\ N!Has(r, "auctionId") <=> N!Has(o, "auctionId")
      /\ N!Has(r, "solutionId") <=> N!Has(o, "solutionId")
      /\ N!Has(r, "kind") /\ r.kind = o.kind
      /\ N!Has(o, "auctionId") => r.auctionId = o.auctionId
      /\ N!Has(o, "solutionId") => r.solutionId = o.solutionId
  BY <1>1, <1>2, <1>4 DEF Sound
<1>6. IdIn(r) = IdIn(o)
  BY <1>5 DEF IdIn
<1> QED BY <1>3, <1>5, <1>6 DEF Sound, Read, N!AuctionIdOk

-----------------------------------------------------------------------------
(* The notification is the document as read, the record what is written of *)
(* it, and nothing has failed to be written.                               *)
NoteInv ==
    /\ at # "failed"
    /\ at \in {"decoded", "recorded", "reread"} =>
         N!object(doc) /\ Sound(doc.obj) /\ notification = Read(doc.obj)
    /\ at \in {"recorded", "reread"} => record = N!Obj(Written(notification))
    /\ at = "reread" => again = N!Unmarshal(record)

LEMMA NoteInvInvariant == N!Spec => []NoteInv
<1>1. N!Init => NoteInv
  BY DEF N!Init, NoteInv
<1>2. NoteInv /\ [N!Next]_(N!vars) => NoteInv'
  <2> SUFFICES ASSUME NoteInv, [N!Next]_(N!vars) PROVE NoteInv'
    OBVIOUS
  <2>1. CASE N!Edit \/ N!Post
    BY <2>1 DEF N!Edit, N!Post, NoteInv
  <2>2. CASE N!handleNotify
    <3> DEFINE given == IF N!ValidateNotificationJSON(doc) THEN N!Unmarshal(doc) ELSE N!Bad
    <3>1. IF given = N!Bad THEN at' = "ignored" /\ UNCHANGED notification
                            ELSE at' = "decoded" /\ notification' = given
      BY <2>2 DEF N!handleNotify
    <3>2. UNCHANGED <<doc, edits, record, again>>
      BY <2>2 DEF N!handleNotify
    <3>3. given # N!Bad => N!object(doc) /\ Sound(doc.obj) /\ given = Read(doc.obj)
      BY UnmarshalIs
    <3> HIDE DEF given
    <3> QED BY <3>1, <3>2, <3>3 DEF NoteInv
  <2>3. CASE N!Record
    <3>1. at = "decoded" /\ Sound(doc.obj) /\ notification = Read(doc.obj)
      BY <2>3 DEF N!Record, NoteInv
    <3>2. N!Marshal(notification) = N!Obj(Written(notification))
      BY <3>1, WrittenBack DEF N!Marshal, Written
    <3>3. N!Obj(Written(notification)) # N!Bad
      BY DEF N!Obj, N!Bad
    <3> QED BY <2>3, <3>1, <3>2, <3>3 DEF N!Record, NoteInv
  <2>4. CASE N!Reread
    BY <2>4 DEF N!Reread, NoteInv
  <2>5. CASE UNCHANGED N!vars
    BY <2>5 DEF N!vars, NoteInv
  <2> QED BY <2>1, <2>2, <2>3, <2>4, <2>5 DEF N!Next
<1> QED BY <1>1, <1>2, PTL DEF N!Spec

(* A notification that handleNotify takes is always recorded, its record   *)
(* has every field of the document and only null ids beside, and reading   *)
(* the record gives the notification again.  This needs no assumption on   *)
(* the documents: MarshalID undoes UnmarshalID.                            *)
LEMMA NotifyPartReturns == N!Spec => []N!RoundTrip
<1>1. NoteInv => N!RoundTrip
  <2> SUFFICES ASSUME NoteInv PROVE N!RoundTrip
    OBVIOUS
  <2>0. at # "failed"
    BY DEF NoteInv
  <2>1. \A x : N!Obj(x).obj = x /\ N!object(N!Obj(x))
    BY DEF N!Obj, N!object
  <2>2. ASSUME at \in {"recorded", "reread"}
        PROVE  /\ Sound(doc.obj) /\ notification = Read(doc.obj)
               /\ record.obj = Written(Read(doc.obj)) /\ N!object(record)
    BY <2>1, <2>2 DEF NoteInv
  <2>3. N!NothingLost
    <3>1. ASSUME at = "recorded"
          PROVE  /\ DOMAIN record.obj = DOMAIN doc.obj \cup N!Reserved
                 /\ \A f \in DOMAIN doc.obj : record.obj[f] = doc.obj[f]
                 /\ \A f \in N!Reserved \ DOMAIN doc.obj : record.obj[f] = N!Null
      <4> DEFINE n == Read(doc.obj)
      <4>1. Sound(doc.obj) /\ record.obj = Written(n)
        BY <2>2, <3>1
      <4> QED BY <4>1, WrittenBack
    <3> QED BY <3>1 DEF N!NothingLost, N!isNull
  <2>4. ASSUME at = "reread" PROVE again = notification
    <3>1. Sound(record.obj) /\ Read(record.obj) = Read(doc.obj)
      <4> DEFINE r == Written(Read(doc.obj))
      <4>1. /\ DOMAIN r = DOMAIN doc.obj \cup N!Reserved
            /\ \A f \in DOMAIN doc.obj : r[f] = doc.obj[f]
            /\ \A f \in N!Reserved \ DOMAIN doc.obj : r[f] = N!Null
        BY <2>2, <2>4, WrittenBack
      <4> HIDE DEF r
      <4>2. Sound(r) /\ Read(r) = Read(doc.obj)
        BY <2>2, <2>4, <4>1, RereadSame
      <4> QED BY <2>2, <2>4, <4>2 DEF r
    <3>2. again = N!Unmarshal(record)
      BY <2>4 DEF NoteInv
    <3> QED BY <2>2, <2>4, <3>1, <3>2, UnmarshalIs
  <2> QED BY <2>0, <2>3, <2>4 DEF N!RoundTrip
<1> QED BY <1>1, NoteInvInvariant, PTL

-----------------------------------------------------------------------------
(***************************************************************************)
(* The check of the fixtures (module ContractCheck).                       *)
(***************************************************************************)
Fixture(j) == manifest.fixtures[j]

(* The first n fixtures of the manifest are listed, once each, and are     *)
(* what the manifest says of them.                                         *)
ListedUpTo(n) ==
    /\ DOMAIN listed = {Fixture(j).path : j \in 1 .. n}
    /\ \A j \in 1 .. n :
          /\ C!Regular(Fixture(j).path)
          /\ Fixture(j).sha256 = dir[Fixture(j).path].data
          /\ Fixture(j).kind = dir[Fixture(j).path].data.is
          /\ listed[Fixture(j).path] = Fixture(j).kind
    /\ \A j, k \in 1 .. n : Fixture(j).path = Fixture(k).path => j = k

Found == (DOMAIN dir \cap JSONNames) \ {"manifest.json"}

Reproduced(p) == Solved[dir[p.auction].data.meaning] = dir[p.solution].data.meaning

Kept(n) == Recoded[dir[n].data.meaning] = dir[n].data.meaning

(* What each stage of run has established by the time it is left.          *)
CheckInv ==
    /\ dir \in Directories /\ manifest \in Manifests /\ item \in Nat \ {0}
    /\ at = "fixtures" => item <= Len(manifest.fixtures) + 1 /\ ListedUpTo(item - 1)
    /\ at = "manifest" => listed = <<>>
    /\ at \in {"fixtures", "inventory", "pairs", "trips", "pass"} =>
          manifest.pinned /\ manifest.fixtures # <<>>
    /\ at \in {"inventory", "pairs", "trips", "pass"} => ListedUpTo(Len(manifest.fixtures))
    /\ at \in {"pairs", "trips", "pass"} => DOMAIN listed = Found
    /\ at = "pairs" => \A j \in DOMAIN manifest.pairs : j < item => Reproduced(manifest.pairs[j])
    /\ at \in {"trips", "pass"} => \A j \in DOMAIN manifest.pairs : Reproduced(manifest.pairs[j])
    /\ at = "trips" => \A j \in DOMAIN manifest.trips : j < item => Kept(manifest.trips[j])
    /\ at = "pass" => \A j \in DOMAIN manifest.trips : Kept(manifest.trips[j])

Stages == {"manifest", "fixtures", "inventory", "pairs", "trips", "pass"}

LEMMA Lists ==
    ASSUME C!ContractConstants, CheckInv
    PROVE  /\ Len(manifest.fixtures) \in Nat /\ DOMAIN manifest.fixtures = 1 .. Len(manifest.fixtures)
           /\ Len(manifest.pairs) \in Nat /\ DOMAIN manifest.pairs = 1 .. Len(manifest.pairs)
           /\ Len(manifest.trips) \in Nat /\ DOMAIN manifest.trips = 1 .. Len(manifest.trips)
           /\ manifest.fixtures # <<>> => Len(manifest.fixtures) > 0
<1>1. /\ manifest.fixtures \in Seq(C!Range(manifest.fixtures))
      /\ manifest.pairs \in Seq(C!Range(manifest.pairs))
      /\ manifest.trips \in Seq(C!Range(manifest.trips))
  BY DEF C!ContractConstants, CheckInv
<1> QED BY <1>1, LenProperties, EmptySeq

(* An error ends the run, and claims nothing.                              *)
LEMMA FailKeeps ==
    ASSUME CheckInv, NEW error, error \notin Stages, C!Fail(error)
    PROVE  CheckInv'
BY DEF C!Fail, CheckInv, Stages

LEMMA CheckFixtureKeeps ==
    ASSUME C!ContractConstants, CheckInv, C!CheckFixture PROVE CheckInv'
<1> DEFINE f == manifest.fixtures[item]
<1>1. CASE \E error \in {"duplicate path", "no regular file", "digest mismatch", "invalid fixture"} : C!Fail(error)
  BY <1>1, FailKeeps DEF Stages
<1>2. CASE /\ f.path \notin DOMAIN listed /\ C!Regular(f.path)
           /\ f.sha256 = dir[f.path].data /\ dir[f.path].data.is = f.kind
           /\ listed' = [n \in DOMAIN listed \cup {f.path} |-> IF n = f.path THEN f.kind ELSE listed[n]]
           /\ item' = item + 1 /\ UNCHANGED <<dir, manifest, at>>
  <2>1. at = "fixtures" /\ item <= Len(manifest.fixtures)
    BY DEF C!CheckFixture
  <2>2. PICK m \in Nat : m = item
    BY DEF CheckInv
  <2>3. m # 0 /\ ListedUpTo(m - 1) /\ Len(manifest.fixtures) \in Nat
    BY <2>1, <2>2, Lists DEF CheckInv
  <2>4. 1 .. m = (1 .. m - 1) \cup {m} /\ m \notin 1 .. m - 1
    BY <2>3
  <2> DEFINE g == [n \in DOMAIN listed \cup {f.path} |-> IF n = f.path THEN f.kind ELSE listed[n]]
  <2>5. /\ DOMAIN g = DOMAIN listed \cup {f.path} /\ g[f.path] = f.kind
        /\ \A n \in DOMAIN listed : n # f.path => g[n] = listed[n]
    OBVIOUS
  <2>6. f = Fixture(m)
    BY <2>2 DEF Fixture
  <2> HIDE DEF g, f
  <2>7. /\ listed' = g /\ dir' = dir /\ manifest' = manifest /\ at' = at
        /\ f.path \notin DOMAIN listed /\ C!Regular(f.path)
        /\ f.sha256 = dir[f.path].data /\ dir[f.path].data.is = f.kind
    BY <1>2 DEF g, f
  <2>8. DOMAIN g = {Fixture(j).path : j \in 1 .. m}
    BY <2>3, <2>4, <2>5, <2>6 DEF ListedUpTo
  <2>9. \A j \in 1 .. m :
           /\ C!Regular(Fixture(j).path)
           /\ Fixture(j).sha256 = dir[Fixture(j).path].data
           /\ Fixture(j).kind = dir[Fixture(j).path].data.is
           /\ g[Fixture(j).path] = Fixture(j).kind
    BY <2>3, <2>4, <2>5, <2>6, <2>7 DEF ListedUpTo
  <2>10. \A j, k \in 1 .. m : Fixture(j).path = Fixture(k).path => j = k
    BY <2>3, <2>4, <2>6, <2>7 DEF ListedUpTo
  <2>11. ListedUpTo(m)'
    BY <2>7, <2>8, <2>9, <2>10 DEF ListedUpTo, Fixture, C!Regular
  <2>12. item' - 1 = m /\ item' <= Len(manifest.fixtures) + 1 /\ item' \in Nat \ {0}
    BY <1>2, <2>1, <2>2, <2>3
  <2>13. ListedUpTo(item - 1)'
    BY <2>11, <2>12
  <2> QED BY <2>1, <2>7, <2>12, <2>13 DEF CheckInv
<1> QED BY <1>1, <1>2 DEF C!CheckFixture

LEMMA CheckInvInvariant ==
    ASSUME C!ContractConstants PROVE C!Spec => []CheckInv
<1>1. C!Init => CheckInv
  BY DEF C!Init, CheckInv
<1>2. CheckInv /\ [C!Next]_(C!vars) => CheckInv'
  <2> SUFFICES ASSUME CheckInv, [C!Next]_(C!vars) PROVE CheckInv'
    OBVIOUS
  <2>1. CASE C!ReadManifest
    <3>1. CASE \E error \in {"not pinned", "empty"} : C!Fail(error)
      BY <3>1, FailKeeps DEF Stages
    <3>2. CASE manifest.pinned /\ manifest.fixtures # <<>> /\ C!Goto("fixtures")
      <4>1. at = "manifest" /\ listed = <<>>
        BY <2>1 DEF C!ReadManifest, CheckInv
      <4>2. ListedUpTo(0)
        BY <4>1, EmptySeq DEF ListedUpTo
      <4>3. ListedUpTo(0)'
        BY <3>2, <4>2 DEF ListedUpTo, Fixture, C!Regular, C!Goto
      <4>4. Len(manifest.fixtures) \in Nat
        BY Lists
      <4> QED BY <3>2, <4>3, <4>4 DEF C!Goto, CheckInv
    <3> QED BY <2>1, <3>1, <3>2 DEF C!ReadManifest
  <2>2. CASE C!CheckFixture
    BY <2>2, CheckFixtureKeeps
  <2>3. CASE C!FixturesDone
    <3>1. ListedUpTo(Len(manifest.fixtures))
      <4>1. item - 1 = Len(manifest.fixtures) /\ ListedUpTo(item - 1)
        BY <2>3, Lists DEF C!FixturesDone, CheckInv
      <4> QED BY <4>1
    <3>2. ListedUpTo(Len(manifest.fixtures))'
      BY <2>3, <3>1 DEF C!FixturesDone, C!Goto, ListedUpTo, Fixture, C!Regular
    <3> QED BY <2>3, <3>2 DEF C!FixturesDone, C!Goto, CheckInv
  <2>4. ASSUME UNCHANGED <<dir, manifest, listed>>
        PROVE  /\ ListedUpTo(Len(manifest.fixtures)) => ListedUpTo(Len(manifest.fixtures))'
               /\ \A j : Reproduced(manifest.pairs[j]) => Reproduced(manifest.pairs[j])'
               /\ \A j : Kept(manifest.trips[j]) => Kept(manifest.trips[j])'
               /\ Found' = Found
    <3>1. ASSUME ListedUpTo(Len(manifest.fixtures)) PROVE ListedUpTo(Len(manifest.fixtures))'
      BY <2>4, <3>1 DEF ListedUpTo, Fixture, C!Regular
    <3> QED BY <2>4, <3>1 DEF Reproduced, Kept, Found
  <2>5. ASSUME NEW next \in {"pairs", "trips", "pass"}, C!Goto(next)
        PROVE  /\ item' = 1 /\ at' = next /\ UNCHANGED <<dir, manifest, listed>>
    BY <2>5 DEF C!Goto
  <2>6. CASE C!verifyFixtureInventory
    <3>1. CASE \E error \in {"non-regular entry", "inventory mismatch"} : C!Fail(error)
      BY <3>1, FailKeeps DEF Stages
    <3>2. CASE DOMAIN listed = Found /\ C!Goto("pairs")
      <4>1. at = "inventory"
        BY <2>6 DEF C!verifyFixtureInventory
      <4>2. \A j \in DOMAIN manifest.pairs : ~(j < 1)
        BY Lists
      <4> QED BY <2>4, <2>5, <3>2, <4>1, <4>2 DEF CheckInv
    <3> QED BY <2>6, <3>1, <3>2 DEF C!verifyFixtureInventory, Found
  <2>7. CASE C!ReplayPair
    <3> DEFINE pair     == manifest.pairs[item]
               solved   == dir[pair.auction].data.meaning
               expected == dir[pair.solution].data.meaning
    <3>1. CASE \E error \in {"pair not bound", "decode", "does not replay"} : C!Fail(error)
      BY <3>1, FailKeeps DEF Stages
    <3>2. CASE C!KindOf(pair.solution) = "solution" /\ C!Replayed(solved) = expected /\ C!Go
      <4>1. at = "pairs" /\ item <= Len(manifest.pairs)
        BY <2>7 DEF C!ReplayPair
      <4>2. ListedUpTo(Len(manifest.fixtures)) /\ dir \in Directories
        BY <4>1 DEF CheckInv
      <4>3. pair.solution \in DOMAIN listed /\ listed[pair.solution] = "solution"
        BY <3>2 DEF C!KindOf
      <4>4. /\ C!Regular(pair.solution) /\ dir[pair.solution].data.is = "solution"
        BY <4>2, <4>3 DEF ListedUpTo
      <4>5. expected # NullSolutions
        BY <4>2, <4>4 DEF C!ContractConstants, C!Regular
      <4>6. Reproduced(pair)
        BY <3>2, <4>5 DEF C!Replayed, Reproduced
      <4>7. \A j \in DOMAIN manifest.pairs : j < item + 1 => Reproduced(manifest.pairs[j])
        <5>1. \A j \in DOMAIN manifest.pairs : j < item + 1 => j < item \/ j = item
          BY Lists DEF CheckInv
        <5> QED BY <4>1, <4>6, <5>1 DEF CheckInv
      <4>8. item' = item + 1 /\ item + 1 \in Nat \ {0} /\ UNCHANGED <<dir, manifest, at, listed>>
        BY <3>2 DEF C!Go, CheckInv
      <4> QED BY <2>4, <4>1, <4>7, <4>8 DEF CheckInv
    <3> QED BY <2>7, <3>1, <3>2 DEF C!ReplayPair
  <2>8. CASE C!PairsDone
    <3>1. at = "pairs" /\ \A j \in DOMAIN manifest.pairs : j < item
      BY <2>8, Lists DEF C!PairsDone, CheckInv
    <3>2. \A j \in DOMAIN manifest.trips : ~(j < 1)
      BY Lists
    <3>3. C!Goto("trips")
      BY <2>8 DEF C!PairsDone
    <3> QED BY <2>4, <2>5, <3>1, <3>2, <3>3 DEF CheckInv
  <2>9. CASE C!RoundTrip
    <3>1. CASE \E error \in {"trip not bound", "decode", "changed during round trip"} : C!Fail(error)
      BY <3>1, FailKeeps DEF Stages
    <3>2. CASE Kept(manifest.trips[item]) /\ C!Go
      <4>1. at = "trips" /\ item <= Len(manifest.trips)
        BY <2>9 DEF C!RoundTrip
      <4>2. \A j \in DOMAIN manifest.trips : j < item + 1 => Kept(manifest.trips[j])
        <5>1. \A j \in DOMAIN manifest.trips : j < item + 1 => j < item \/ j = item
          BY Lists DEF CheckInv
        <5> QED BY <3>2, <4>1, <5>1 DEF CheckInv
      <4>3. item' = item + 1 /\ item + 1 \in Nat \ {0} /\ UNCHANGED <<dir, manifest, at, listed>>
        BY <3>2 DEF C!Go, CheckInv
      <4> QED BY <2>4, <4>1, <4>2, <4>3 DEF CheckInv
    <3> QED BY <2>9, <3>1, <3>2 DEF C!RoundTrip, Kept
  <2>10. CASE C!TripsDone
    <3>1. at = "trips" /\ \A j \in DOMAIN manifest.trips : j < item
      BY <2>10, Lists DEF C!TripsDone, CheckInv
    <3>2. C!Goto("pass")
      BY <2>10 DEF C!TripsDone
    <3> QED BY <2>4, <2>5, <3>1, <3>2 DEF CheckInv
  <2>11. CASE UNCHANGED C!vars
    BY <2>11 DEF C!vars, CheckInv, ListedUpTo, Fixture, Found, Reproduced, Kept, C!Regular
  <2> QED BY <2>1, <2>2, <2>3, <2>6, <2>7, <2>8, <2>9, <2>10, <2>11 DEF C!Next
<1> QED BY <1>1, <1>2, PTL DEF C!Spec

(* A run of contractcheck that passes vouches for every JSON file of the   *)
(* directory and everything the manifest claims of them, for any directory *)
(* and any manifest.  That no valid fixture says "solutions": null is what *)
(* makes the replay of an auction without solutions an error.              *)
LEMMA FixturePartVouches ==
    ASSUME C!ContractConstants PROVE C!Spec => []C!PassVouches
<1>1. CheckInv => C!PassVouches
  <2> SUFFICES ASSUME CheckInv, at = "pass" PROVE C!PassVouches
    BY DEF C!PassVouches
  <2>1. /\ manifest.pinned /\ ListedUpTo(Len(manifest.fixtures)) /\ DOMAIN listed = Found
        /\ \A j \in DOMAIN manifest.pairs : Reproduced(manifest.pairs[j])
        /\ \A j \in DOMAIN manifest.trips : Kept(manifest.trips[j])
        /\ Len(manifest.fixtures) > 0
    BY Lists DEF CheckInv
  <2>2. /\ DOMAIN manifest.fixtures = 1 .. Len(manifest.fixtures) /\ Len(manifest.fixtures) \in Nat
    BY Lists
  <2>3. /\ C!Fixtures = {Fixture(j) : j \in 1 .. Len(manifest.fixtures)}
        /\ C!Range(manifest.pairs) = {manifest.pairs[j] : j \in DOMAIN manifest.pairs}
        /\ C!Range(manifest.trips) = {manifest.trips[j] : j \in DOMAIN manifest.trips}
    BY <2>2 DEF C!Fixtures, C!Range, Fixture
  <2>4. C!Fixtures # {}
    BY <2>1, <2>2, <2>3
  <2>5. ASSUME NEW n \in Found
        PROVE  /\ \E f \in C!Fixtures : f.path = n /\ f.sha256 = dir[n].data /\ f.kind = dir[n].data.is
               /\ \A j, k \in DOMAIN manifest.fixtures :
                     {manifest.fixtures[j].path, manifest.fixtures[k].path} = {n} => j = k
    <3>1. PICK j \in 1 .. Len(manifest.fixtures) : n = Fixture(j).path
      BY <2>1 DEF ListedUpTo
    <3>2. /\ Fixture(j) \in C!Fixtures /\ Fixture(j).path = n
          /\ Fixture(j).sha256 = dir[n].data /\ Fixture(j).kind = dir[n].data.is
      BY <2>1, <2>3, <3>1 DEF ListedUpTo
    <3>3. \A k, l \in DOMAIN manifest.fixtures :
             {manifest.fixtures[k].path, manifest.fixtures[l].path} = {n} => k = l
      <4> TAKE k, l \in DOMAIN manifest.fixtures
      <4> HAVE {manifest.fixtures[k].path, manifest.fixtures[l].path} = {n}
      <4>1. Fixture(k).path = Fixture(l).path
        BY DEF Fixture
      <4> QED BY <2>1, <2>2, <4>1 DEF ListedUpTo
    <3> QED BY <3>2, <3>3
  <2>6. \A f \in C!Fixtures : C!Regular(f.path)
    BY <2>1, <2>3 DEF ListedUpTo
  <2>7. /\ \A p \in C!Range(manifest.pairs) :
              Solved[dir[p.auction].data.meaning] = dir[p.solution].data.meaning
        /\ \A n \in C!Range(manifest.trips) :
              Recoded[dir[n].data.meaning] = dir[n].data.meaning
    BY <2>1, <2>3 DEF Reproduced, Kept
  <2> QED BY <2>1, <2>4, <2>5, <2>6, <2>7 DEF C!PassVouches, Found
<1> QED BY <1>1, CheckInvInvariant, PTL

-----------------------------------------------------------------------------
(***************************************************************************)
(* The composition (module Bodies): the part that runs is the same at      *)
(* every step, and the behaviour is one of that part's.                    *)
(***************************************************************************)
LEMMA OnePart ==
    /\ BodiesSpec /\ part = "solve" => A!Spec /\ [](part = "solve")
    /\ BodiesSpec /\ part = "notify" => N!Spec /\ [](part = "notify")
    /\ BodiesSpec /\ part = "walk" => W!Spec /\ [](part = "walk")
    /\ BodiesSpec /\ part = "fixtures" => C!Spec /\ [](part = "fixtures")
<1>1. /\ BodiesInit /\ part = "solve" => A!Init
      /\ BodiesInit /\ part = "notify" => N!Init
      /\ BodiesInit /\ part = "walk" => W!Init
      /\ BodiesInit /\ part = "fixtures" => C!Init
  BY DEF BodiesInit
<1>2. ASSUME [BodiesNext]_bodiesVars PROVE UNCHANGED part
  BY <1>2 DEF BodiesNext, bodiesVars
<1>3. /\ part = "solve" /\ [BodiesNext]_bodiesVars => [A!Next]_(A!vars) /\ (part = "solve")'
      /\ part = "notify" /\ [BodiesNext]_bodiesVars => [N!Next]_(N!vars) /\ (part = "notify")'
      /\ part = "walk" /\ [BodiesNext]_bodiesVars => [W!Next]_(W!vars) /\ (part = "walk")'
      /\ part = "fixtures" /\ [BodiesNext]_bodiesVars => [C!Next]_(C!vars) /\ (part = "fixtures")'
  <2> SUFFICES ASSUME [BodiesNext]_bodiesVars
               PROVE  /\ part = "solve" => [A!Next]_(A!vars)
                      /\ part = "notify" => [N!Next]_(N!vars)
                      /\ part = "walk" => [W!Next]_(W!vars)
                      /\ part = "fixtures" => [C!Next]_(C!vars)
    BY <1>2
  <2>1. CASE BodiesNext
    BY <2>1 DEF BodiesNext
  <2>2. CASE UNCHANGED bodiesVars
    BY <2>2 DEF bodiesVars, bodyVars, auctionVars, noteVars, walkVars, fixtureVars,
                A!vars, N!vars, W!vars, C!vars
  <2> QED BY <2>1, <2>2
<1> QED BY <1>1, <1>3, PTL DEF BodiesSpec, A!Spec, N!Spec, W!Spec, C!Spec

LEMMA OtherParts ==
    /\ BodiesSpec /\ ~(part = "solve") => [](~(part = "solve"))
    /\ BodiesSpec /\ ~(part = "notify") => [](~(part = "notify"))
    /\ BodiesSpec /\ ~(part = "walk") => [](~(part = "walk"))
    /\ BodiesSpec /\ ~(part = "fixtures") => [](~(part = "fixtures"))
<1>1. ASSUME [BodiesNext]_bodiesVars PROVE UNCHANGED part
  BY <1>1 DEF BodiesNext, bodiesVars
<1>2. ~(part = "solve") /\ [BodiesNext]_bodiesVars => ~(part = "solve")'
  BY <1>1
<1>3. ~(part = "notify") /\ [BodiesNext]_bodiesVars => ~(part = "notify")'
  BY <1>1
<1>4. ~(part = "walk") /\ [BodiesNext]_bodiesVars => ~(part = "walk")'
  BY <1>1
<1>5. ~(part = "fixtures") /\ [BodiesNext]_bodiesVars => ~(part = "fixtures")'
  BY <1>1
<1> QED BY <1>2, <1>3, <1>4, <1>5, PTL DEF BodiesSpec

(* Whatever the driver's document and the order of its keys, an admitted   *)
(* auction is what a decoder that compares keys exactly reads.             *)
THEOREM AuctionReadExactly == BodiesSpec => []ReadsWhatTheDriverWrote
<1>1. A!NoFieldIsAnAlias
  BY BodiesAssumption
<1>2. (part = "solve" => A!ReadsWhatTheDriverWrote) => ReadsWhatTheDriverWrote
  BY DEF ReadsWhatTheDriverWrote
<1> QED BY <1>1, <1>2, SolvePartReads, OnePart, OtherParts, PTL

(* An admitted auction of any size has what Solve takes for granted, where *)
(* ToLower and EqualFold agree on its tokens.                              *)
THEOREM AdmittedIsFit == BodiesSpec => [](TokensPlain => FitToSolve)
<1>1. A!NoFieldIsAnAlias
  BY BodiesAssumption
<1>2. (part = "solve" => A!FitToSolve) => FitToSolve
  BY DEF FitToSolve
<1> QED BY <1>1, <1>2, SolvePartFit, OnePart, OtherParts, PTL

(* What eligible lets through says nothing in its document that Solve does *)
(* not encode.                                                             *)
THEOREM SemanticsEncoded == BodiesSpec => []NothingIgnored
<1>1. A!NoFieldIsAnAlias
  BY BodiesAssumption
<1>2. (part = "solve" => A!NothingIgnored) => NothingIgnored
  BY DEF NothingIgnored
<1> QED BY <1>1, <1>2, SolvePartEncoded, OnePart, OtherParts, PTL

(* writeJSON's check of a reply never fails, whatever Solve returns.       *)
THEOREM RepliesPass == BodiesSpec => []AnswersPassTheContract
<1>1. (part = "solve" => A!AnswersPassTheContract) => AnswersPassTheContract
  BY DEF AnswersPassTheContract
<1> QED BY <1>1, SolvePartReplies, OnePart, OtherParts, PTL

(* A notification that is taken is recorded with all its fields, and its   *)
(* record reads back as the same notification.                             *)
THEOREM NotificationsRoundTrip == BodiesSpec => []RoundTrip
<1>1. (part = "notify" => N!RoundTrip) => RoundTrip
  BY DEF RoundTrip
<1> QED BY <1>1, NotifyPartReturns, OnePart, OtherParts, PTL

(* The walk accepts a body exactly when no object in it has a key twice    *)
(* and nothing follows its value.                                          *)
THEOREM WalkIsExact == BodiesSpec => []WalkExact
<1>1. W!WalkConstants
  BY BodiesAssumption
<1>2. (part = "walk" => W!WalkExact) => WalkExact
  BY DEF WalkExact
<1> QED BY <1>1, <1>2, WalkPartExact, OnePart, OtherParts, PTL

(* A run of contractcheck that passes has checked every file of the        *)
(* directory and every claim of the manifest.                              *)
THEOREM CheckVouches == BodiesSpec => []PassVouches
<1>1. C!ContractConstants
  BY BodiesAssumption
<1>2. (part = "fixtures" => C!PassVouches) => PassVouches
  BY DEF PassVouches
<1> QED BY <1>1, <1>2, FixturePartVouches, OnePart, OtherParts, PTL
=============================================================================
