--------------------------- MODULE RecorderProofs ---------------------------
(***************************************************************************)
(* The safety of the recorder for any number of calls and days.            *)
(***************************************************************************)
EXTENDS Recorder, Induction, SequenceTheorems, TLAPS

(* The mutex is held by exactly the call that is inside write. *)
MutexInv ==
    \A c \in Calls : mu = c <=> pc[c] \in {"locked", "rotated", "opened"}

(* A handle that is not nil is open on the recorder's current day. *)
HandleDay == \A k \in Kinds : file[k] \in {NoDay, day}

(* Past the rotation the recorder's day is the call's; past the opening    *)
(* its handle is open on that day.                                         *)
InWrite ==
    \A c \in Calls :
        /\ pc[c] \in {"rotated", "opened"} => day = stamp[c]
        /\ pc[c] = "opened" => file[kind[c]] = stamp[c]

(* A call that has not returned has written nothing and has no answer. *)
Fresh ==
    \A c \in Calls : pc[c] # "done" =>
        /\ outcome[c] = "none"
        /\ \A k \in Kinds, d \in Days : \A i \in DOMAIN disk[k][d] :
              ~ ChunkOf(c, k, d, i)

IInv ==
    /\ TypeOK
    /\ MutexInv
    /\ HandleDay
    /\ InWrite
    /\ Fresh
    /\ RightFile
    /\ AnswerExact
    /\ NoDescriptorLeak

(* What Append does to the length, the domain and the elements.            *)
LEMMA AppendFacts ==
    ASSUME NEW S, NEW f \in Seq(S), NEW x \in S
    PROVE  /\ Append(f, x) \in Seq(S)
           /\ Len(f) \in Nat /\ Len(Append(f, x)) = Len(f) + 1
           /\ \A i \in 1 .. Len(f) : Append(f, x)[i] = f[i]
           /\ Append(f, x)[Len(f) + 1] = x
           /\ DOMAIN f = 1 .. Len(f)
           /\ DOMAIN Append(f, x) = 1 .. Len(f) + 1
<1>1. Append(f, x) \in Seq(S) /\ Len(f) \in Nat /\ DOMAIN f = 1 .. Len(f)
  BY AppendProperties, LenProperties
<1>2. Len(Append(f, x)) = Len(f) + 1
  BY AppendProperties
<1>3. DOMAIN Append(f, x) = 1 .. Len(f) + 1
  BY <1>1, <1>2, LenProperties
<1>4. (\A i \in 1 .. Len(f) : Append(f, x)[i] = f[i]) /\ Append(f, x)[Len(f) + 1] = x
  BY <1>1, AppendProperties
<1> QED BY <1>1, <1>2, <1>3, <1>4

LEMMA ChunkType ==
    ASSUME TypeOK, NEW k \in Kinds, NEW d \in Days, NEW i \in DOMAIN disk[k][d]
    PROVE  disk[k][d][i] \in Chunks
<1>1. disk[k][d] \in Seq(Chunks)
  BY DEF TypeOK
<1> QED BY <1>1

-----------------------------------------------------------------------------
(* What appending a chunk to one file does to each file, element by        *)
(* element: the fact every proof about Write needs.                        *)
LEMMA AppendedFile ==
    ASSUME TypeOK, NEW c \in Calls, NEW part \in Parts,
           file[kind[c]] = stamp[c], disk' = Appended(c, part)
    PROVE  /\ disk' \in [Kinds -> [Days -> Seq(Chunks)]]
           /\ \A k \in Kinds, d \in Days :
                ~(k = kind[c] /\ d = stamp[c]) => disk'[k][d] = disk[k][d]
           /\ LET f == disk[kind[c]][stamp[c]]
                  g == disk'[kind[c]][stamp[c]]
              IN  /\ Len(g) = Len(f) + 1
                  /\ Len(f) \in Nat
                  /\ \A i \in 1 .. Len(f) : g[i] = f[i]
                  /\ g[Len(f) + 1].call = c
                  /\ g[Len(f) + 1].part = part
                  /\ DOMAIN f = 1 .. Len(f)
                  /\ DOMAIN g = 1 .. Len(f) + 1
<1> DEFINE f == disk[kind[c]][stamp[c]]
           x == [call |-> c, part |-> part]
<1>1. kind[c] \in Kinds /\ stamp[c] \in Days /\ f \in Seq(Chunks) /\ x \in Chunks
  BY DEF TypeOK, Chunks
<1>2. disk'[kind[c]][stamp[c]] = Append(f, x)
  BY <1>1 DEF Appended, TypeOK
<1>3. \A k \in Kinds, d \in Days :
         ~(k = kind[c] /\ d = stamp[c]) => disk'[k][d] = disk[k][d]
  BY <1>1 DEF Appended, TypeOK
<1>4. Append(f, x) \in Seq(Chunks)
  BY <1>1, AppendFacts
<1>5. disk' \in [Kinds -> [Days -> Seq(Chunks)]]
  BY <1>1, <1>4 DEF Appended, TypeOK
<1>6. /\ Len(Append(f, x)) = Len(f) + 1
      /\ Len(f) \in Nat
      /\ \A i \in 1 .. Len(f) : Append(f, x)[i] = f[i]
      /\ Append(f, x)[Len(f) + 1] = x
      /\ DOMAIN f = 1 .. Len(f)
      /\ DOMAIN Append(f, x) = 1 .. Len(f) + 1
  BY <1>1, AppendFacts
<1>7. x.call = c /\ x.part = part
  OBVIOUS
<1> QED
  BY <1>2, <1>3, <1>5, <1>6, <1>7

LEMMA InitIInv == Init => IInv
<1> SUFFICES ASSUME Init PROVE IInv
  OBVIOUS
<1> USE ConstantsAssumption DEF Init, Days, NoDay, NoHandles, NoFds
<1>1. TypeOK
  <2>1. disk \in [Kinds -> [Days -> Seq(Chunks)]]
    BY DEF Chunks
  <2> QED BY <2>1 DEF TypeOK, Locations, Kinds
<1>2. MutexInv
  BY DEF MutexInv
<1>3. HandleDay /\ InWrite
  BY DEF HandleDay, InWrite
<1>4. Fresh /\ RightFile
  BY DEF Fresh, RightFile
<1>5. AnswerExact
  BY DEF AnswerExact, TrueOf
<1>6. NoDescriptorLeak
  BY DEF NoDescriptorLeak
<1> QED BY <1>1, <1>2, <1>3, <1>4, <1>5, <1>6 DEF IInv


(* A step that touches no file, renames no call and answers only calls     *)
(* that have written nothing, with an error or not at all.                 *)
LEMMA QuietStep ==
    ASSUME IInv, UNCHANGED <<disk, kind, stamp>>,
           \A c \in Calls : pc'[c] # "done" => pc[c] # "done" /\ outcome'[c] = outcome[c],
           \A c \in Calls : outcome'[c] # outcome[c] =>
                               pc[c] # "done" /\ outcome'[c] \in {"err", "lost"}
    PROVE  Fresh' /\ RightFile' /\ AnswerExact'
<1>1. Fresh'
  BY DEF IInv, Fresh, ChunkOf
<1>2. RightFile'
  BY DEF IInv, RightFile
<1>3. AnswerExact'
  <2> SUFFICES ASSUME NEW c \in Calls
               PROVE  TrueOf(outcome'[c], c, disk[kind[c]][stamp[c]])
    BY DEF AnswerExact
  <2>1. CASE outcome'[c] = outcome[c]
    <3>1. TrueOf(outcome[c], c, disk[kind[c]][stamp[c]])
      BY DEF IInv, AnswerExact
    <3> QED BY <2>1, <3>1
  <2>2. CASE outcome'[c] # outcome[c]
    <3>0. pc[c] # "done" /\ kind[c] \in Kinds /\ stamp[c] \in Days
      BY <2>2 DEF IInv, TypeOK
    <3>1. \A i \in DOMAIN disk[kind[c]][stamp[c]] : disk[kind[c]][stamp[c]][i].call # c
      BY <3>0 DEF IInv, Fresh, ChunkOf
    <3>2. outcome'[c] # "ok"
      BY <2>2
    <3> QED BY <3>1, <3>2 DEF TrueOf
  <2> QED BY <2>1, <2>2
<1> QED BY <1>1, <1>2, <1>3

LEMMA StampStep ==
    ASSUME IInv, NEW c \in Calls, NEW k \in Kinds, Stamp(c, k)
    PROVE  IInv'
<1>0. /\ pc[c] = "new" /\ pc' = [pc EXCEPT ![c] = "stamped"]
      /\ kind' = [kind EXCEPT ![c] = k] /\ stamp' = [stamp EXCEPT ![c] = clock]
      /\ UNCHANGED <<phase, clock, mu, outcome, disk, day, file, fds>>
  BY DEF Stamp, Goto
<1>1. TypeOK'
  BY <1>0 DEF IInv, TypeOK, Locations
<1>2. HandleDay' /\ NoDescriptorLeak'
  BY <1>0 DEF IInv, HandleDay, NoDescriptorLeak
<1>a. \A b \in Calls : pc'[b] \in {"locked", "rotated", "opened"} <=>
                       pc[b] \in {"locked", "rotated", "opened"}
  BY <1>0 DEF IInv, TypeOK
<1>b. MutexInv'
  BY <1>0, <1>a DEF IInv, MutexInv
<1>3. InWrite'
  BY <1>0 DEF IInv, TypeOK, InWrite
<1>4. Fresh'
  <2>1. \A b \in Calls : pc'[b] # "done" => pc[b] # "done"
    BY <1>0 DEF IInv, TypeOK
  <2> QED BY <1>0, <2>1 DEF IInv, Fresh, ChunkOf
<1>5. RightFile'
  <2> SUFFICES ASSUME NEW k1 \in Kinds, NEW d1 \in Days, NEW i \in DOMAIN disk[k1][d1]
               PROVE  LET b == disk[k1][d1][i].call IN kind'[b] = k1 /\ stamp'[b] = d1
    BY <1>0 DEF RightFile
  <2>1. disk[k1][d1][i].call # c
    BY <1>0 DEF IInv, Fresh, ChunkOf
  <2>2. disk[k1][d1][i] \in Chunks
    BY ChunkType DEF IInv
  <2>3. disk[k1][d1][i].call \in Calls
    BY <2>2 DEF Chunks
  <2>4. LET b == disk[k1][d1][i].call IN kind[b] = k1 /\ stamp[b] = d1
    BY DEF IInv, RightFile
  <2> QED BY <1>0, <2>1, <2>3, <2>4 DEF IInv, TypeOK
<1>6. AnswerExact'
  <2> SUFFICES ASSUME NEW b \in Calls
               PROVE  TrueOf(outcome[b], b, disk[kind'[b]][stamp'[b]])
    BY <1>0 DEF AnswerExact
  <2>1. CASE b = c
    <3>1. outcome[b] = "none"
      BY <1>0, <2>1 DEF IInv, Fresh
    <3> QED BY <3>1 DEF TrueOf
  <2>2. CASE b # c
    <3>1. kind'[b] = kind[b] /\ stamp'[b] = stamp[b]
      BY <1>0, <2>2 DEF IInv, TypeOK
    <3>2. TrueOf(outcome[b], b, disk[kind[b]][stamp[b]])
      BY DEF IInv, AnswerExact
    <3> QED BY <3>1, <3>2
  <2> QED BY <2>1, <2>2
<1> QED BY <1>1, <1>2, <1>b, <1>3, <1>4, <1>5, <1>6 DEF IInv

LEMMA EncodeFailsStep ==
    ASSUME IInv, NEW c \in Calls, EncodeFails(c)
    PROVE  IInv'
<1> USE DEF EncodeFails, Return
<1>1. TypeOK'
  BY DEF IInv, TypeOK, Locations
<1>0. pc[c] = "stamped" /\ mu # c
  BY DEF IInv, MutexInv
<1>2. MutexInv' /\ HandleDay' /\ InWrite' /\ NoDescriptorLeak'
  BY <1>0 DEF IInv, TypeOK, MutexInv, HandleDay, InWrite, NoDescriptorLeak
<1>3. Fresh' /\ RightFile' /\ AnswerExact'
  BY QuietStep DEF IInv, TypeOK
<1> QED BY <1>1, <1>2, <1>3 DEF IInv

LEMMA LockStep ==
    ASSUME IInv, NEW c \in Calls, Lock(c)
    PROVE  IInv'
<1> USE DEF Lock
<1>1. TypeOK'
  BY DEF IInv, TypeOK, Locations
<1>2. MutexInv' /\ HandleDay' /\ InWrite' /\ NoDescriptorLeak'
  BY ConstantsAssumption DEF IInv, TypeOK, MutexInv, HandleDay, InWrite, NoDescriptorLeak
<1>3. Fresh' /\ RightFile' /\ AnswerExact'
  BY QuietStep DEF IInv, TypeOK
<1> QED BY <1>1, <1>2, <1>3 DEF IInv

(* closeLocked leaves one descriptor per handle: none. *)
LEMMA CloseLockedFds ==
    ASSUME TypeOK, NoDescriptorLeak, closeLocked
    PROVE  /\ file' \in [Kinds -> Days \cup {NoDay}]
           /\ fds' \in [Kinds -> [Days -> Nat]]
           /\ NoDescriptorLeak'
           /\ \A k \in Kinds : file'[k] = NoDay
<1> USE DEF closeLocked, NoHandles
<1>1. \A k \in Kinds : file'[k] = NoDay
  OBVIOUS
<1>2. \A k \in Kinds, d \in Days : fds'[k][d] = 0
  <2>1. \A k \in Kinds, d \in Days :
           fds'[k][d] = IF file[k] = d THEN fds[k][d] - 1 ELSE fds[k][d]
    BY DEF ReleasedFds
  <2>2. \A k \in Kinds, d \in Days : fds[k][d] = IF file[k] = d THEN 1 ELSE 0
    BY DEF NoDescriptorLeak
  <2> TAKE k \in Kinds, d \in Days
  <2>3. CASE file[k] = d
    BY <2>1, <2>2, <2>3
  <2>4. CASE file[k] # d
    BY <2>1, <2>2, <2>4
  <2> QED BY <2>3, <2>4
<1>3. \A d \in Days : d # NoDay
  BY DEF Days, NoDay
<1>4. fds' = [k \in Kinds |-> [d \in Days |-> fds'[k][d]]]
  BY DEF ReleasedFds
<1>5. fds' \in [Kinds -> [Days -> Nat]]
  BY <1>2, <1>4
<1> QED BY <1>1, <1>2, <1>3, <1>5 DEF NoDescriptorLeak

LEMMA RotateStep ==
    ASSUME IInv, NEW c \in Calls, Rotate(c)
    PROVE  IInv'
<1> USE DEF Rotate
<1>0. pc[c] = "locked" /\ mu = c /\ UNCHANGED <<phase, clock, disk, kind, stamp>>
  BY DEF IInv, MutexInv
<1>a. \A b \in Calls : b # c => pc[b] \notin {"locked", "rotated", "opened"}
  BY <1>0 DEF IInv, MutexInv
<1>b. c # Nobody /\ Nobody \notin Calls
  BY ConstantsAssumption
<1>1. CASE day = stamp[c] /\ Goto(c, "rotated") /\ UNCHANGED <<day, file, fds>>
  <2> USE DEF Goto
  <2>1. TypeOK'
    BY <1>0, <1>1 DEF IInv, TypeOK, Locations
  <2>2. MutexInv' /\ HandleDay' /\ InWrite' /\ NoDescriptorLeak'
    BY <1>0, <1>a, <1>1 DEF IInv, TypeOK, MutexInv, HandleDay, InWrite, NoDescriptorLeak
  <2>3. Fresh' /\ RightFile' /\ AnswerExact'
    BY <1>0, <1>1, QuietStep DEF IInv, TypeOK
  <2> QED BY <2>1, <2>2, <2>3 DEF IInv
<1>2. CASE rotateLocked(stamp[c]) /\ (Goto(c, "rotated") \/ Return(c, "err"))
  <2>0. /\ closeLocked /\ day' = stamp[c]
        /\ \/ pc' = [pc EXCEPT ![c] = "rotated"] /\ mu' = c /\ outcome' = outcome
           \/ /\ pc' = [pc EXCEPT ![c] = "done"] /\ mu' = Nobody
              /\ outcome' = [outcome EXCEPT ![c] = "err"]
    BY <1>0, <1>2 DEF rotateLocked, Goto, Return
  <2>1. /\ file' \in [Kinds -> Days \cup {NoDay}]
        /\ fds' \in [Kinds -> [Days -> Nat]]
        /\ NoDescriptorLeak'
        /\ \A k \in Kinds : file'[k] = NoDay
    BY <2>0, CloseLockedFds DEF IInv
  <2>2. TypeOK'
    BY <1>0, <2>0, <2>1 DEF IInv, TypeOK, Locations
  <2>3. MutexInv'
    BY <1>0, <1>a, <1>b, <2>0 DEF IInv, TypeOK, MutexInv
  <2>4. HandleDay' /\ InWrite'
    <3>1. HandleDay'
      BY <2>1 DEF HandleDay
    <3>2. \A b \in Calls : pc'[b] # "opened" /\ (pc'[b] = "rotated" => b = c)
      BY <1>0, <1>a, <2>0 DEF IInv, TypeOK
    <3>3. InWrite'
      BY <1>0, <2>0, <3>2 DEF InWrite
    <3> QED BY <3>1, <3>3
  <2>5. Fresh' /\ RightFile' /\ AnswerExact'
    BY <1>0, <2>0, QuietStep DEF IInv, TypeOK
  <2> QED BY <2>1, <2>2, <2>3, <2>4, <2>5 DEF IInv
<1> QED BY <1>1, <1>2

LEMMA OpenStep ==
    ASSUME IInv, NEW c \in Calls, Open(c)
    PROVE  IInv'
<1> USE DEF Open
<1>0. /\ pc[c] = "rotated" /\ mu = c /\ day = stamp[c]
      /\ kind[c] \in Kinds /\ stamp[c] \in Days
      /\ UNCHANGED <<phase, clock, day, disk, kind, stamp>>
  BY DEF IInv, MutexInv, InWrite, TypeOK
<1>a. \A b \in Calls : b # c => pc[b] \notin {"locked", "rotated", "opened"}
  BY <1>0 DEF IInv, MutexInv
<1>b. c # Nobody /\ Nobody \notin Calls
  BY ConstantsAssumption
<1>c. \A d \in Days : d # NoDay
  BY DEF Days, NoDay
<1>1. CASE Goto(c, "opened") /\ UNCHANGED <<file, fds>> /\ file[kind[c]] # NoDay
  <2> USE DEF Goto
  <2>0. file[kind[c]] = stamp[c]
    BY <1>0, <1>1 DEF IInv, HandleDay
  <2>1. TypeOK'
    BY <1>0, <1>1 DEF IInv, TypeOK, Locations
  <2>2. /\ MutexInv' /\ InWrite'
        /\ HandleDay' /\ NoDescriptorLeak'
    <3>1. MutexInv' /\ InWrite'
      BY <1>0, <1>a, <1>1, <2>0 DEF IInv, TypeOK, MutexInv, InWrite
    <3>2. HandleDay' /\ NoDescriptorLeak'
      BY <1>0, <1>1 DEF IInv, HandleDay, NoDescriptorLeak
    <3> QED BY <3>1, <3>2
  <2>3. Fresh' /\ RightFile' /\ AnswerExact'
    BY <1>0, <1>1, QuietStep DEF IInv, TypeOK
  <2> QED BY <2>1, <2>2, <2>3 DEF IInv
<1>2. CASE /\ file[kind[c]] = NoDay
           /\ file' = [file EXCEPT ![kind[c]] = stamp[c]]
           /\ fds' = Opened(c) /\ Goto(c, "opened")
  <2> USE DEF Goto
  <2>1. fds' \in [Kinds -> [Days -> Nat]]
    BY <1>0, <1>2 DEF IInv, TypeOK, Opened
  <2>2. NoDescriptorLeak'
    BY <1>0, <1>c, <1>2 DEF IInv, TypeOK, Opened, NoDescriptorLeak
  <2>3. TypeOK'
    BY <1>0, <1>2, <2>1 DEF IInv, TypeOK, Locations
  <2>4. MutexInv' /\ HandleDay' /\ InWrite'
    BY <1>0, <1>a, <1>2 DEF IInv, TypeOK, MutexInv, HandleDay, InWrite
  <2>5. Fresh' /\ RightFile' /\ AnswerExact'
    BY <1>0, <1>2, QuietStep DEF IInv, TypeOK
  <2> QED BY <2>2, <2>3, <2>4, <2>5 DEF IInv
<1>3. CASE Return(c, "err") /\ UNCHANGED <<file, fds>>
  <2> USE DEF Return
  <2>1. TypeOK'
    BY <1>0, <1>3 DEF IInv, TypeOK, Locations
  <2>2. MutexInv' /\ HandleDay' /\ InWrite' /\ NoDescriptorLeak'
    BY <1>0, <1>a, <1>b, <1>3 DEF IInv, TypeOK, MutexInv, HandleDay, InWrite, NoDescriptorLeak
  <2>3. Fresh' /\ RightFile' /\ AnswerExact'
    BY <1>0, <1>3, QuietStep DEF IInv, TypeOK
  <2> QED BY <2>1, <2>2, <2>3 DEF IInv
<1> QED BY <1>1, <1>2, <1>3 DEF ChmodFails

(* One more chunk of a call that had none keeps every file's chunks        *)
(* attributed to the right kind and day, and only that call's chunks new.  *)
LEMMA AppendedInv ==
    ASSUME IInv, NEW c \in Calls, NEW part \in Parts, pc[c] = "opened",
           disk' = Appended(c, part), UNCHANGED <<kind, stamp>>
    PROVE  /\ disk' \in [Kinds -> [Days -> Seq(Chunks)]]
           /\ RightFile'
           /\ \A b \in Calls, k \in Kinds, d \in Days : b # c =>
                \A i \in DOMAIN disk'[k][d] :
                    disk'[k][d][i].call = b =>
                        i \in DOMAIN disk[k][d] /\ disk'[k][d][i] = disk[k][d][i]
           /\ \A k \in Kinds, d \in Days : \A i \in DOMAIN disk[k][d] :
                i \in DOMAIN disk'[k][d] /\ disk'[k][d][i] = disk[k][d][i]
           /\ \E i \in DOMAIN disk'[kind[c]][stamp[c]] :
                /\ disk'[kind[c]][stamp[c]][i].call = c
                /\ disk'[kind[c]][stamp[c]][i].part = part
                /\ \A j \in DOMAIN disk'[kind[c]][stamp[c]] :
                      disk'[kind[c]][stamp[c]][j].call = c => j = i
<1>0. kind[c] \in Kinds /\ stamp[c] \in Days /\ file[kind[c]] = stamp[c]
  BY DEF IInv, TypeOK, InWrite
<1> DEFINE f == disk[kind[c]][stamp[c]]
           g == disk'[kind[c]][stamp[c]]
<1>1. /\ disk' \in [Kinds -> [Days -> Seq(Chunks)]]
      /\ \A k \in Kinds, d \in Days :
            ~(k = kind[c] /\ d = stamp[c]) => disk'[k][d] = disk[k][d]
      /\ Len(f) \in Nat
      /\ \A i \in 1 .. Len(f) : g[i] = f[i]
      /\ g[Len(f) + 1].call = c /\ g[Len(f) + 1].part = part
      /\ DOMAIN f = 1 .. Len(f)
      /\ DOMAIN g = 1 .. Len(f) + 1
  BY <1>0, AppendedFile DEF IInv
<1>2. \A i \in DOMAIN g : i \in DOMAIN f \/ i = Len(f) + 1
  BY <1>1
<1>3. \A k \in Kinds, d \in Days : \A i \in DOMAIN disk[k][d] : disk[k][d][i].call # c
  BY DEF IInv, Fresh, ChunkOf
<1>4. RightFile'
  <2> SUFFICES ASSUME NEW k \in Kinds, NEW d \in Days, NEW i \in DOMAIN disk'[k][d]
               PROVE  LET b == disk'[k][d][i].call IN kind[b] = k /\ stamp[b] = d
    BY DEF RightFile
  <2>1. CASE ~(k = kind[c] /\ d = stamp[c])
    <3>1. disk'[k][d] = disk[k][d]
      BY <1>1, <2>1
    <3> QED BY <3>1 DEF IInv, RightFile
  <2>2. CASE k = kind[c] /\ d = stamp[c]
    <3>1. CASE i \in DOMAIN f
      <4>1. disk'[k][d][i] = disk[k][d][i] /\ i \in DOMAIN disk[k][d]
        BY <1>1, <2>2, <3>1
      <4> QED BY <4>1 DEF IInv, RightFile
    <3>2. CASE i = Len(f) + 1
      BY <1>1, <2>2, <3>2
    <3> QED BY <1>2, <2>2, <3>1, <3>2
  <2> QED BY <2>1, <2>2
<1>5. \A k \in Kinds, d \in Days : \A i \in DOMAIN disk[k][d] :
         i \in DOMAIN disk'[k][d] /\ disk'[k][d][i] = disk[k][d][i]
  <2> TAKE k \in Kinds, d \in Days
  <2>1. CASE ~(k = kind[c] /\ d = stamp[c])
    BY <1>1, <2>1
  <2>2. CASE k = kind[c] /\ d = stamp[c]
    <3>1. DOMAIN f \subseteq DOMAIN g
      BY <1>1
    <3>2. \A i \in DOMAIN f : g[i] = f[i]
      BY <1>1
    <3> QED BY <2>2, <3>1, <3>2
  <2> QED BY <2>1, <2>2
<1>6. \A b \in Calls, k \in Kinds, d \in Days : b # c =>
         \A i \in DOMAIN disk'[k][d] : disk'[k][d][i].call = b =>
             i \in DOMAIN disk[k][d] /\ disk'[k][d][i] = disk[k][d][i]
  <2> SUFFICES ASSUME NEW b \in Calls, NEW k \in Kinds, NEW d \in Days, b # c,
                      NEW i \in DOMAIN disk'[k][d], disk'[k][d][i].call = b
               PROVE  i \in DOMAIN disk[k][d] /\ disk'[k][d][i] = disk[k][d][i]
    OBVIOUS
  <2>1. CASE ~(k = kind[c] /\ d = stamp[c])
    <3>1. disk'[k][d] = disk[k][d]
      BY <1>1, <2>1
    <3> QED BY <3>1
  <2>2. CASE k = kind[c] /\ d = stamp[c]
    <3>1. i # Len(f) + 1
      BY <1>1, <2>2
    <3>2. i \in DOMAIN disk[k][d]
      BY <1>2, <2>2, <3>1
    <3> QED BY <1>5, <3>2
  <2> QED BY <2>1, <2>2
<1>7. \A j \in DOMAIN g : g[j].call = c => j = Len(f) + 1
  <2>1. \A j \in DOMAIN f : g[j] = f[j] /\ f[j].call # c
    BY <1>0, <1>1, <1>3
  <2> QED BY <1>2, <2>1
<1>8. Len(f) + 1 \in DOMAIN g
  <2>1. Len(f) \in Nat /\ DOMAIN g = 1 .. Len(f) + 1
    BY <1>1
  <2> HIDE DEF f, g
  <2> QED BY <2>1
<1> QED BY <1>1, <1>4, <1>5, <1>6, <1>7, <1>8

(* Fresh and AnswerExact when call c leaves exactly one chunk and returns  *)
(* an answer that fits it, and every other call keeps its answer or has    *)
(* none to give.                                                           *)
LEMMA AppendedAnswer ==
    ASSUME IInv, NEW c \in Calls, NEW part \in Parts, pc[c] = "opened",
           disk' = Appended(c, part), UNCHANGED <<kind, stamp>>,
           pc'[c] = "done",
           outcome'[c] = "ok" => part = "line",
           outcome'[c] = "err" => part # "line",
           \A b \in Calls : b # c =>
              /\ pc'[b] # "done" => pc[b] # "done"
              /\ \/ outcome'[b] = outcome[b]
                 \/ outcome'[b] = "lost" /\ pc'[b] = "done"
    PROVE  Fresh' /\ AnswerExact'
<1>1. /\ \A b \in Calls, k \in Kinds, d \in Days : b # c =>
            \A i \in DOMAIN disk'[k][d] :
                disk'[k][d][i].call = b =>
                    i \in DOMAIN disk[k][d] /\ disk'[k][d][i] = disk[k][d][i]
      /\ \A k \in Kinds, d \in Days : \A i \in DOMAIN disk[k][d] :
            i \in DOMAIN disk'[k][d] /\ disk'[k][d][i] = disk[k][d][i]
      /\ \E i \in DOMAIN disk'[kind[c]][stamp[c]] :
            /\ disk'[kind[c]][stamp[c]][i].call = c
            /\ disk'[kind[c]][stamp[c]][i].part = part
            /\ \A j \in DOMAIN disk'[kind[c]][stamp[c]] :
                  disk'[kind[c]][stamp[c]][j].call = c => j = i
  BY AppendedInv, ZenonT(60)
<1>2. Fresh'
  BY <1>1 DEF IInv, Fresh, ChunkOf
<1>3. AnswerExact'
  <2> SUFFICES ASSUME NEW b \in Calls
               PROVE  TrueOf(outcome'[b], b, disk'[kind[b]][stamp[b]])
    BY DEF AnswerExact
  <2>0. kind[b] \in Kinds /\ stamp[b] \in Days
    BY DEF IInv, TypeOK
  <2>1. CASE b = c
    BY <1>1, <2>1 DEF TrueOf
  <2>2. CASE b # c /\ outcome'[b] = outcome[b]
    <3> DEFINE f == disk[kind[b]][stamp[b]]
               h == disk'[kind[b]][stamp[b]]
    <3>0. TrueOf(outcome[b], b, f)
      BY DEF IInv, AnswerExact
    <3>1. \A i \in DOMAIN h : h[i].call = b => i \in DOMAIN f /\ h[i] = f[i]
      BY <1>1, <2>0, <2>2
    <3>2. \A i \in DOMAIN f : i \in DOMAIN h /\ h[i] = f[i]
      BY <1>1, <2>0
    <3>3. ASSUME outcome'[b] = "ok"
          PROVE  \E i \in DOMAIN h :
                    /\ h[i].call = b /\ h[i].part = "line"
                    /\ \A j \in DOMAIN h : h[j].call = b => j = i
      <4>1. PICK i \in DOMAIN f : /\ f[i].call = b /\ f[i].part = "line"
                                  /\ \A j \in DOMAIN f : f[j].call = b => j = i
        BY <2>2, <3>0, <3>3 DEF TrueOf
      <4>2. \A j \in DOMAIN h : h[j].call = b => j = i
        BY <3>1, <4>1
      <4>3. i \in DOMAIN h /\ h[i] = f[i]
        BY <3>2
      <4> HIDE DEF f, h
      <4> QED BY <4>1, <4>2, <4>3
    <3>4. ASSUME outcome'[b] = "err"
          PROVE  \A i \in DOMAIN h : h[i].call = b => h[i].part # "line"
      BY <2>2, <3>0, <3>1, <3>4 DEF TrueOf
    <3> QED BY <3>3, <3>4 DEF TrueOf
  <2>3. CASE b # c /\ outcome'[b] = "lost"
    BY <2>3 DEF TrueOf
  <2> QED BY <2>1, <2>2, <2>3
<1> QED BY <1>2, <1>3

LEMMA WriteStep ==
    ASSUME IInv, NEW c \in Calls, Write(c)
    PROVE  IInv'
<1> USE DEF Write
<1>0. /\ pc[c] = "opened" /\ mu = c /\ file[kind[c]] = stamp[c]
      /\ kind[c] \in Kinds /\ stamp[c] \in Days
      /\ UNCHANGED <<phase, clock, day, kind, stamp>>
  BY DEF IInv, MutexInv, InWrite, TypeOK
<1>a. \A b \in Calls : b # c => pc[b] \notin {"locked", "rotated", "opened"}
  BY <1>0 DEF IInv, MutexInv
<1>b. c # Nobody /\ Nobody \notin Calls
  BY ConstantsAssumption
<1>c. \A d \in Days : d # NoDay
  BY DEF Days, NoDay
<1>1. CASE WriteWhole(c)
  <2> USE DEF Return
  <2>0. disk' = Appended(c, "line") /\ "line" \in Parts /\ UNCHANGED <<file, fds>>
    BY <1>1 DEF WriteWhole, Parts
  <2>1. disk' \in [Kinds -> [Days -> Seq(Chunks)]] /\ RightFile'
    BY <1>0, <2>0, AppendedInv
  <2>2. TypeOK'
    BY <1>0, <1>1, <2>1 DEF WriteWhole, IInv, TypeOK, Locations
  <2>3. MutexInv' /\ HandleDay' /\ InWrite' /\ NoDescriptorLeak'
    BY <1>0, <1>a, <1>b, <1>1
    DEF WriteWhole, IInv, TypeOK, MutexInv, HandleDay, InWrite, NoDescriptorLeak
  <2>4. /\ pc'[c] = "done" /\ outcome'[c] = "ok"
        /\ \A b \in Calls : b # c => pc'[b] = pc[b] /\ outcome'[b] = outcome[b]
    BY <1>1 DEF WriteWhole, IInv, TypeOK
  <2>5. Fresh' /\ AnswerExact'
    BY <1>0, <2>0, <2>4, AppendedAnswer
  <2> QED BY <2>1, <2>2, <2>3, <2>5 DEF IInv
<1>2. CASE WriteFails(c)
  <2> USE DEF Return
  <2>0. /\ file' = [file EXCEPT ![kind[c]] = NoDay]
        /\ fds' = [fds EXCEPT ![kind[c]][stamp[c]] = @ - 1]
        /\ fds[kind[c]][stamp[c]] = 1
        /\ mu' = Nobody
        /\ pc' = [pc EXCEPT ![c] = "done"]
        /\ outcome' = [outcome EXCEPT ![c] = "err"]
    BY <1>0, <1>2 DEF WriteFails, IInv, NoDescriptorLeak
  <2>1. disk' \in [Kinds -> [Days -> Seq(Chunks)]] /\ RightFile' /\ Fresh' /\ AnswerExact'
    <3>1. CASE UNCHANGED disk
      BY <1>0, <2>0, <3>1, QuietStep DEF IInv, TypeOK
    <3>2. CASE \E part \in Fragments : disk' = Appended(c, part)
      <4>1. PICK part \in Fragments : disk' = Appended(c, part)
        BY <3>2
      <4>2. part \in Parts /\ part # "line"
        BY DEF Fragments, Parts
      <4>3. disk' \in [Kinds -> [Days -> Seq(Chunks)]] /\ RightFile'
        BY <1>0, <4>1, <4>2, AppendedInv
      <4>4. /\ pc'[c] = "done" /\ outcome'[c] = "err"
            /\ \A b \in Calls : b # c => pc'[b] = pc[b] /\ outcome'[b] = outcome[b]
        BY <2>0 DEF IInv, TypeOK
      <4>5. Fresh' /\ AnswerExact'
        BY <1>0, <4>1, <4>2, <4>4, AppendedAnswer
      <4> QED BY <4>3, <4>5
    <3> QED BY <1>2, <3>1, <3>2 DEF WriteFails
  <2>2. fds' \in [Kinds -> [Days -> Nat]]
    <3>1. \A d \in Days : [fds[kind[c]] EXCEPT ![stamp[c]] = @ - 1][d] \in Nat
      BY <1>0, <2>0 DEF IInv, TypeOK
    <3>2. [fds[kind[c]] EXCEPT ![stamp[c]] = @ - 1] \in [Days -> Nat]
      BY <1>0, <2>0, <3>1 DEF IInv, TypeOK
    <3> QED BY <1>0, <2>0, <3>2 DEF IInv, TypeOK
  <2>3. TypeOK'
    BY <1>0, <2>0, <2>1, <2>2 DEF IInv, TypeOK, Locations
  <2>4. MutexInv' /\ HandleDay' /\ InWrite'
    BY <1>0, <1>a, <1>b, <2>0 DEF IInv, TypeOK, MutexInv, HandleDay, InWrite
  <2>5. NoDescriptorLeak'
    BY <1>0, <1>c, <2>0 DEF IInv, TypeOK, NoDescriptorLeak
  <2> QED BY <2>1, <2>3, <2>4, <2>5 DEF IInv
<1> QED BY <1>1, <1>2

LEMMA CloseStep ==
    ASSUME IInv, Close
    PROVE  IInv'
<1> USE DEF Close
<1>1. /\ file' \in [Kinds -> Days \cup {NoDay}]
      /\ fds' \in [Kinds -> [Days -> Nat]]
      /\ NoDescriptorLeak'
      /\ \A k \in Kinds : file'[k] = NoDay
  BY CloseLockedFds DEF IInv
<1>2. TypeOK'
  BY <1>1 DEF IInv, TypeOK
<1>3. \A c \in Calls : pc[c] \notin {"locked", "rotated", "opened"}
  BY ConstantsAssumption DEF IInv, MutexInv
<1>4. MutexInv' /\ HandleDay' /\ InWrite'
  BY <1>1, <1>3 DEF IInv, TypeOK, MutexInv, HandleDay, InWrite
<1>5. Fresh' /\ RightFile' /\ AnswerExact'
  BY QuietStep DEF IInv, TypeOK
<1> QED BY <1>1, <1>2, <1>4, <1>5 DEF IInv

LEMMA ProcessDiesStep ==
    ASSUME IInv, ProcessDies
    PROVE  IInv'
<1> USE DEF ProcessDies
<1>1. \A d \in Days : d # NoDay
  BY DEF Days, NoDay
<1>2. /\ file' \in [Kinds -> Days \cup {NoDay}]
      /\ fds' \in [Kinds -> [Days -> Nat]]
      /\ NoDescriptorLeak' /\ HandleDay'
  BY <1>1 DEF NoHandles, NoFds, NoDescriptorLeak, HandleDay
<1>3. /\ \A c \in Calls : pc'[c] \in {"new", "done"}
      /\ pc' \in [Calls -> Locations]
      /\ outcome' \in [Calls -> {"none", "ok", "err", "lost"}]
      /\ \A c \in Calls : pc'[c] # "done" => pc[c] # "done"
      /\ \A c \in Calls : outcome'[c] # outcome[c] => outcome'[c] = "lost" /\ pc[c] # "done"
      /\ \A c \in Calls : outcome'[c] # outcome[c] => pc'[c] = "done"
      /\ \A c \in Calls : pc[c] = "opened" => pc'[c] = "done" /\ outcome'[c] = "lost"
  BY DEF IInv, TypeOK, Locations, InFlight
<1>4. MutexInv' /\ InWrite'
  BY <1>3, ConstantsAssumption DEF MutexInv, InWrite
<1>5. disk' \in [Kinds -> [Days -> Seq(Chunks)]] /\ RightFile' /\ Fresh' /\ AnswerExact'
  <2>1. CASE UNCHANGED disk
    BY <1>3, <2>1, QuietStep DEF IInv, TypeOK
  <2>2. CASE \E c \in Calls, part \in Parts :
                pc[c] = "opened" /\ disk' = Appended(c, part)
    <3>1. PICK c \in Calls, part \in Parts :
                pc[c] = "opened" /\ disk' = Appended(c, part)
      BY <2>2
    <3>2. disk' \in [Kinds -> [Days -> Seq(Chunks)]] /\ RightFile'
      BY <3>1, AppendedInv
    <3>3. Fresh' /\ AnswerExact'
      BY <1>3, <3>1, AppendedAnswer
    <3> QED BY <3>2, <3>3
  <2> QED BY <2>1, <2>2
<1>6. TypeOK'
  BY <1>2, <1>3, <1>5 DEF IInv, TypeOK
<1> QED BY <1>2, <1>4, <1>5, <1>6 DEF IInv

LEMMA EnvironmentStep ==
    ASSUME IInv, Restart \/ Tick \/ UNCHANGED vars
    PROVE  IInv'
<1>1. UNCHANGED <<mu, day, file, fds, disk, pc, kind, stamp, outcome>>
  BY DEF Restart, Tick, vars
<1>2. TypeOK'
  <2>1. clock' \in Days
    BY ConstantsAssumption DEF IInv, TypeOK, Restart, Tick, vars, Days
  <2> QED BY <1>1, <2>1 DEF IInv, TypeOK, Restart, Tick, vars
<1>3. MutexInv' /\ HandleDay' /\ InWrite' /\ NoDescriptorLeak'
  BY <1>1 DEF IInv, MutexInv, HandleDay, InWrite, NoDescriptorLeak
<1>4. Fresh' /\ RightFile' /\ AnswerExact'
  BY <1>1, QuietStep DEF IInv, TypeOK
<1> QED BY <1>2, <1>3, <1>4 DEF IInv

(* IInv is inductive: one step per action of the recorder. *)
LEMMA NextIInv == IInv /\ [Next]_vars => IInv'
<1> SUFFICES ASSUME IInv, [Next]_vars PROVE IInv'
  OBVIOUS
<1>1. ASSUME NEW c \in Calls, NEW k \in Kinds, Stamp(c, k) PROVE IInv'
  BY <1>1, StampStep
<1>2. ASSUME NEW c \in Calls, EncodeFails(c) PROVE IInv'
  BY <1>2, EncodeFailsStep
<1>3. ASSUME NEW c \in Calls, Lock(c) PROVE IInv'
  BY <1>3, LockStep
<1>4. ASSUME NEW c \in Calls, Rotate(c) PROVE IInv'
  BY <1>4, RotateStep
<1>5. ASSUME NEW c \in Calls, Open(c) PROVE IInv'
  BY <1>5, OpenStep
<1>6. ASSUME NEW c \in Calls, Write(c) PROVE IInv'
  BY <1>6, WriteStep
<1>7. CASE Close
  BY <1>7, CloseStep
<1>8. CASE ProcessDies
  BY <1>8, ProcessDiesStep
<1>9. CASE Restart \/ Tick \/ UNCHANGED vars
  BY <1>9, EnvironmentStep
<1> QED
  BY <1>1, <1>2, <1>3, <1>4, <1>5, <1>6, <1>7, <1>8, <1>9 DEF Next, Step, Progress

(* The recorder never leaves its types: whatever fails and whenever the    *)
(* process dies, a handle is nil or open on a real day and the number of   *)
(* descriptors on a file is a natural number.                              *)
THEOREM TypeCorrect == Spec => []TypeOK
<1>1. IInv => TypeOK
  BY DEF IInv
<1> QED BY <1>1, InitIInv, NextIInv, PTL DEF Spec

(* For any number of concurrent calls and days: everything in a file was   *)
(* written by a call of that kind whose timestamp lies on that day.        *)
THEOREM RecordsInTheirFile == Spec => []RightFile
<1>1. IInv => RightFile
  BY DEF IInv
<1> QED BY <1>1, InitIInv, NextIInv, PTL DEF Spec

(* For any number of concurrent calls and days: the answer of every call   *)
(* says exactly whether its line is in the file.                           *)
THEOREM AnswersTrue == Spec => []AnswerExact
<1>1. IInv => AnswerExact
  BY DEF IInv
<1> QED BY <1>1, InitIInv, NextIInv, PTL DEF Spec

(* The recorder holds one descriptor per handle and no other. *)
THEOREM DescriptorsBounded == Spec => []NoDescriptorLeak
<1>1. IInv => NoDescriptorLeak
  BY DEF IInv
<1> QED BY <1>1, InitIInv, NextIInv, PTL DEF Spec

(* The files change only by one chunk of a call that is inside Write. *)
LEMMA NextWrites ==
    ASSUME [Next]_vars
    PROVE  \/ UNCHANGED disk
           \/ \E c \in Calls, part \in Parts : pc[c] = "opened" /\ disk' = Appended(c, part)
<1>1. ASSUME NEW c \in Calls, Write(c)
      PROVE  \/ UNCHANGED disk
             \/ \E part \in Parts : pc[c] = "opened" /\ disk' = Appended(c, part)
  BY <1>1 DEF Write, WriteWhole, WriteFails, Parts, Fragments
<1>2. ASSUME NEW c \in Calls, Step(c)
      PROVE  Write(c) \/ UNCHANGED disk
  BY <1>2 DEF Step, Progress, EncodeFails, Lock, Rotate, Open
<1>3. ASSUME NEW c \in Calls, NEW k \in Kinds, Stamp(c, k)
      PROVE  UNCHANGED disk
  BY <1>3 DEF Stamp
<1>4. CASE Close \/ Restart \/ Tick \/ UNCHANGED vars
  BY <1>4 DEF Close, Restart, Tick, vars
<1>5. CASE ProcessDies
  BY <1>5 DEF ProcessDies
<1> QED BY <1>1, <1>2, <1>3, <1>4, <1>5 DEF Next

(* A step leaves every file as it is or adds to its end. *)
LEMMA NextExtends ==
    ASSUME IInv, [Next]_vars
    PROVE  \A k \in Kinds, d \in Days : Extends(disk[k][d], disk'[k][d])
<1>0. TypeOK
  BY DEF IInv
<1>1. \A k \in Kinds, d \in Days : Extends(disk[k][d], disk[k][d])
  <2> TAKE k \in Kinds, d \in Days
  <2>1. Len(disk[k][d]) \in Nat
    BY <1>0, LenProperties DEF TypeOK
  <2> QED BY <2>1 DEF Extends
<1>2. ASSUME NEW c \in Calls, NEW part \in Parts, pc[c] = "opened",
             disk' = Appended(c, part)
      PROVE  \A k \in Kinds, d \in Days : Extends(disk[k][d], disk'[k][d])
  <2>0. kind[c] \in Kinds /\ stamp[c] \in Days /\ file[kind[c]] = stamp[c]
    BY <1>2 DEF IInv, TypeOK, InWrite
  <2> DEFINE f == disk[kind[c]][stamp[c]]
             g == disk'[kind[c]][stamp[c]]
  <2>1. /\ \A k \in Kinds, d \in Days :
              ~(k = kind[c] /\ d = stamp[c]) => disk'[k][d] = disk[k][d]
        /\ Len(g) = Len(f) + 1 /\ Len(f) \in Nat
        /\ \A i \in 1 .. Len(f) : g[i] = f[i]
        /\ DOMAIN f = 1 .. Len(f)
    BY <1>0, <1>2, <2>0, AppendedFile
  <2>2. Extends(f, g)
    <3> HIDE DEF f, g
    <3>1. Len(f) <= Len(g)
      BY <2>1
    <3>2. \A i \in DOMAIN f : g[i] = f[i]
      BY <2>1
    <3> QED BY <3>1, <3>2 DEF Extends
  <2> TAKE k \in Kinds, d \in Days
  <2>3. CASE ~(k = kind[c] /\ d = stamp[c])
    BY <1>1, <2>1, <2>3
  <2>4. CASE k = kind[c] /\ d = stamp[c]
    BY <2>2, <2>4
  <2> QED BY <2>3, <2>4
<1>3. CASE UNCHANGED disk
  BY <1>1, <1>3
<1>4. CASE \E c \in Calls, part \in Parts : pc[c] = "opened" /\ disk' = Appended(c, part)
  BY <1>2, <1>4
<1>5. UNCHANGED disk \/ \E c \in Calls, part \in Parts : pc[c] = "opened" /\ disk' = Appended(c, part)
  BY NextWrites
<1> QED BY <1>3, <1>4, <1>5

(* No step of the recorder, of main or of a dying process changes or       *)
(* removes what is already in a file.                                      *)
THEOREM FilesOnlyGrow == Spec => AppendOnly
<1>1. IInv /\ [Next]_vars => [\A k \in Kinds, d \in Days : Extends(disk[k][d], disk'[k][d])]_disk
  BY NextExtends
<1> QED BY <1>1, InitIInv, NextIInv, PTL DEF Spec, AppendOnly

-----------------------------------------------------------------------------
(***************************************************************************)
(* The recorder implements the evidence log.  The log of a file is the     *)
(* calls of its whole lines, a recursive function of the file: what one    *)
(* Append does to it is shown by induction over the file.                  *)
(***************************************************************************)
(* The calls of the whole lines among the first n chunks of f, by number.  *)
Line(f, n, before) ==
    IF n = 0 THEN <<>>
    ELSE IF f[n].part = "line" THEN Append(before[n - 1], f[n].call)
    ELSE before[n - 1]

UpTo(f) == CHOOSE g : g = [n \in 0 .. Len(f) |-> Line(f, n, g)]

LEMMA WholeLinesUpTo ==
    ASSUME NEW f PROVE WholeLines(f) = UpTo(f)[Len(f)]
  BY DEF WholeLines, UpTo, Line

LEMMA UpToEquation ==
    ASSUME NEW f \in Seq(Chunks)
    PROVE  UpTo(f) = [n \in 0 .. Len(f) |-> Line(f, n, UpTo(f))]
<1> DEFINE N == Len(f)
           A == Seq(Calls)
           step == [p \in (1 .. N) \X A |->
                      IF f[p[1]].part = "line" THEN Append(p[2], f[p[1]].call) ELSE p[2]]
<1>1. N \in Nat /\ DOMAIN f = 1 .. N /\ <<>> \in A
  BY LenProperties
<1>2. \A n \in 1 .. N : f[n].call \in Calls
  <2> TAKE n \in 1 .. N
  <2>1. f[n] \in Chunks
    BY <1>1, ElementOfSeq
  <2> QED BY <2>1 DEF Chunks
<1>3. ASSUME NEW p \in (1 .. N) \X A
      PROVE  (IF f[p[1]].part = "line" THEN Append(p[2], f[p[1]].call) ELSE p[2]) \in A
  BY <1>2, AppendProperties
<1>4. step \in [(1 .. N) \X A -> A]
  BY <1>3
<1>5. PICK g : Iterates(g, N, A, <<>>, step)
  <2> HIDE DEF N, A, step
  <2> QED BY <1>1, <1>4, RecursionExists
<1>6. ASSUME NEW n \in 0 .. N PROVE g[n] = Line(f, n, g)
  <2>1. CASE n = 0
    BY <1>5, <2>1 DEF Line, Iterates
  <2>2. CASE n # 0
    <3>1. n \in 1 .. N /\ n - 1 \in 0 .. N
      BY <1>1, <2>2
    <3>2. <<n, g[n - 1]>> \in (1 .. N) \X A
      BY <1>5, <3>1 DEF Iterates
    <3>3. step[<<n, g[n - 1]>>] =
            IF f[n].part = "line" THEN Append(g[n - 1], f[n].call) ELSE g[n - 1]
      BY <3>2
    <3> QED BY <1>5, <2>2, <3>1, <3>3 DEF Line, Iterates
  <2> QED BY <2>1, <2>2
<1>7. g = [n \in 0 .. N |-> Line(f, n, g)]
  BY <1>5, <1>6 DEF Iterates
<1> QED BY <1>7 DEF UpTo

LEMMA WholeLinesAppend ==
    ASSUME NEW f \in Seq(Chunks), NEW x \in Chunks
    PROVE  WholeLines(Append(f, x)) =
             IF x.part = "line" THEN Append(WholeLines(f), x.call) ELSE WholeLines(f)
<1> DEFINE N == Len(f)
           h == Append(f, x)
<1>1. /\ N \in Nat /\ h \in Seq(Chunks) /\ Len(h) = N + 1
      /\ \A n \in 1 .. N : h[n] = f[n]
      /\ h[N + 1] = x
  BY AppendProperties, LenProperties
<1>2. /\ \A n \in 0 .. N : UpTo(f)[n] = Line(f, n, UpTo(f))
      /\ \A n \in 0 .. N + 1 : UpTo(h)[n] = Line(h, n, UpTo(h))
  <2>1. UpTo(h) = [n \in 0 .. N + 1 |-> Line(h, n, UpTo(h))]
    BY <1>1, UpToEquation
  <2> QED BY <1>1, <2>1, UpToEquation
<1> DEFINE S == { n \in Nat : n <= N => UpTo(h)[n] = UpTo(f)[n] }
<1> HIDE DEF N, h
<1>3. 0 \in S
  BY <1>1, <1>2 DEF Line
<1>4. ASSUME NEW n \in Nat, n \in S PROVE n + 1 \in S
  <2> SUFFICES ASSUME n + 1 <= N PROVE UpTo(h)[n + 1] = UpTo(f)[n + 1]
    OBVIOUS
  <2>1. UpTo(h)[n] = UpTo(f)[n] /\ h[n + 1] = f[n + 1] /\ n + 1 # 0 /\ n + 1 - 1 = n
    BY <1>1, <1>4
  <2>2. /\ UpTo(h)[n + 1] = Line(h, n + 1, UpTo(h))
        /\ UpTo(f)[n + 1] = Line(f, n + 1, UpTo(f))
    BY <1>1, <1>2
  <2> QED BY <2>1, <2>2 DEF Line
<1> HIDE DEF S
<1>5. N \in S
  BY <1>1, <1>3, <1>4, SetInduction
<1>6. UpTo(h)[N] = UpTo(f)[N]
  BY <1>1, <1>5 DEF S
<1>7. UpTo(h)[N + 1] = IF x.part = "line" THEN Append(UpTo(f)[N], x.call) ELSE UpTo(f)[N]
  <2>1. UpTo(h)[N + 1] = Line(h, N + 1, UpTo(h)) /\ N + 1 # 0 /\ N + 1 - 1 = N
    BY <1>1, <1>2
  <2> QED BY <1>1, <1>6, <2>1 DEF Line
<1> QED BY <1>1, <1>7, WholeLinesUpTo DEF N, h

LEMMA WholeLinesEmpty == WholeLines(<<>>) = <<>>
<1>1. <<>> \in Seq(Chunks) /\ Len(<<>>) = 0
  OBVIOUS
<1>2. UpTo(<<>>) = [n \in 0 .. 0 |-> Line(<<>>, n, UpTo(<<>>))]
  BY <1>1, UpToEquation
<1> QED BY <1>1, <1>2, WholeLinesUpTo DEF Line

-----------------------------------------------------------------------------
(* What the evidence log sees of the recorder. *)
Log    == [k \in Kinds |-> [d \in Days |-> WholeLines(disk[k][d])]]
Status == [c \in Calls |-> IF InFlight(c) THEN "pending"
                           ELSE IF pc[c] = "new" THEN "new" ELSE outcome[c]]
Slot   == [c \in Calls |-> <<kind[c], stamp[c]>>]

(* A whole line is stored in the log, a fragment is nothing to it. *)
LEMMA AppendedLog ==
    ASSUME TypeOK, NEW c \in Calls, NEW part \in Parts,
           file[kind[c]] = stamp[c], disk' = Appended(c, part)
    PROVE  /\ part = "line" => Log' = [Log EXCEPT ![Slot[c][1]][Slot[c][2]] = Append(@, c)]
           /\ part # "line" => Log' = Log
<1> DEFINE f == disk[kind[c]][stamp[c]]
           x == [call |-> c, part |-> part]
<1>1. kind[c] \in Kinds /\ stamp[c] \in Days /\ f \in Seq(Chunks) /\ x \in Chunks
  BY DEF TypeOK, Chunks
<1>2. disk'[kind[c]][stamp[c]] = Append(f, x)
  BY <1>1 DEF Appended, TypeOK
<1>3. \A k \in Kinds, d \in Days :
         ~(k = kind[c] /\ d = stamp[c]) => disk'[k][d] = disk[k][d]
  BY <1>1 DEF Appended, TypeOK
<1>4. WholeLines(Append(f, x)) =
         IF part = "line" THEN Append(WholeLines(f), c) ELSE WholeLines(f)
  BY <1>1, WholeLinesAppend
<1> DEFINE New(k, d) == IF part = "line" /\ k = kind[c] /\ d = stamp[c]
                        THEN Append(WholeLines(f), c) ELSE WholeLines(disk[k][d])
<1>5. \A k \in Kinds, d \in Days : WholeLines(disk'[k][d]) = New(k, d)
  BY <1>2, <1>3, <1>4
<1> HIDE DEF f, x
<1>6. Log' = [k \in Kinds |-> [d \in Days |-> New(k, d)]]
  BY <1>5 DEF Log
<1>7. Slot[c][1] = kind[c] /\ Slot[c][2] = stamp[c]
  BY DEF Slot
<1>8. CASE part # "line"
  BY <1>6, <1>8 DEF Log
<1>9. CASE part = "line"
  <2>1. WholeLines(f) = Log[kind[c]][stamp[c]]
    BY <1>1 DEF Log, f
  <2> DEFINE K == kind[c]
             D == stamp[c]
             L == [Log EXCEPT ![K][D] = Append(@, c)]
  <2>2. L = [k \in Kinds |-> [d \in Days |->
                IF k = K /\ d = D THEN Append(Log[K][D], c) ELSE Log[k][d]]]
    BY <1>1 DEF Log
  <2>3. \A k \in Kinds, d \in Days : New(k, d) =
                IF k = K /\ d = D THEN Append(Log[K][D], c) ELSE Log[k][d]
    BY <1>9, <2>1 DEF Log
  <2>4. Log' = L
    <3> HIDE DEF L, New, K, D
    <3> QED BY <1>6, <2>2, <2>3
  <2> QED BY <1>7, <1>9, <2>4
<1> QED BY <1>8, <1>9

(* A call that returns is one of the two decisions of the log. *)
LEMMA ReturnedStatus ==
    ASSUME TypeOK, NEW c \in Calls, InFlight(c), NEW r \in {"ok", "err"}, Return(c, r),
           UNCHANGED <<kind, stamp>>
    PROVE  Status' = [Status EXCEPT ![c] = r] /\ Status[c] = "pending" /\ Slot' = Slot
<1>1. Slot' = Slot /\ Status[c] = "pending"
  BY DEF Slot, Status
<1>2. \A b \in Calls : Status'[b] = [Status EXCEPT ![c] = r][b]
  BY DEF Return, Status, InFlight, TypeOK
<1>3. Status' = [Status EXCEPT ![c] = r]
  BY <1>2 DEF Status
<1> QED BY <1>1, <1>3

LEMMA SameStatus ==
    ASSUME TypeOK, NEW c \in Calls, InFlight(c), NEW l \in {"locked", "rotated", "opened"},
           pc' = [pc EXCEPT ![c] = l], UNCHANGED <<outcome, kind, stamp>>
    PROVE  Status' = Status /\ Slot' = Slot
<1>1. \A b \in Calls : InFlight(b)' <=> InFlight(b)
  BY DEF InFlight, TypeOK
<1>2. \A b \in Calls : pc'[b] = "new" <=> pc[b] = "new"
  BY DEF InFlight, TypeOK
<1> QED BY <1>1, <1>2 DEF Status, Slot

(* A step of a call decides it in the log, or is invisible there. *)
LEMMA CallRefines ==
    ASSUME IInv, NEW c \in Calls, Step(c)
    PROVE  \/ Abstract!Decide(c)
           \/ Log' = Log /\ Status' = Status /\ Slot' = Slot
<1>0. TypeOK
  BY DEF IInv
<1>a. UNCHANGED <<kind, stamp>> /\ InFlight(c)
  BY DEF Step, Progress, EncodeFails, Lock, Rotate, Open, Write, InFlight
<1>b. ASSUME UNCHANGED disk PROVE Log' = Log
  BY <1>b DEF Log
<1>c. ASSUME Log' = Log, Return(c, "err") PROVE Abstract!Decide(c)
  <2>1. Status' = [Status EXCEPT ![c] = "err"] /\ Status[c] = "pending" /\ Slot' = Slot
    BY <1>0, <1>a, <1>c, ReturnedStatus
  <2> QED BY <1>c, <2>1 DEF Abstract!Decide, Abstract!Refuse, Log, Status, Slot
<1>1. CASE EncodeFails(c)
  BY <1>1, <1>b, <1>c DEF EncodeFails
<1>2. CASE Lock(c)
  BY <1>0, <1>2, <1>a, <1>b, SameStatus DEF Lock
<1>3. CASE Rotate(c)
  <2>1. Log' = Log
    BY <1>3, <1>b DEF Rotate
  <2>2. Goto(c, "rotated") \/ Return(c, "err")
    BY <1>3 DEF Rotate
  <2>3. CASE Goto(c, "rotated")
    BY <1>0, <1>a, <2>1, <2>3, SameStatus DEF Goto
  <2> QED BY <1>c, <2>1, <2>2, <2>3
<1>4. CASE Open(c)
  <2>1. Log' = Log
    BY <1>4, <1>b DEF Open
  <2>2. Goto(c, "opened") \/ Return(c, "err")
    BY <1>4 DEF Open, ChmodFails
  <2>3. CASE Goto(c, "opened")
    BY <1>0, <1>a, <2>1, <2>3, SameStatus DEF Goto
  <2> QED BY <1>c, <2>1, <2>2, <2>3
<1>5. CASE Write(c)
  <2>0. file[kind[c]] = stamp[c]
    BY <1>5 DEF Write, IInv, InWrite
  <2>1. CASE WriteWhole(c)
    <3>1. Log' = [Log EXCEPT ![Slot[c][1]][Slot[c][2]] = Append(@, c)]
      BY <1>0, <2>0, <2>1, AppendedLog DEF WriteWhole, Parts
    <3>2. Status' = [Status EXCEPT ![c] = "ok"] /\ Status[c] = "pending" /\ Slot' = Slot
      BY <1>0, <1>a, <2>1, ReturnedStatus DEF WriteWhole
    <3> QED BY <3>1, <3>2 DEF Abstract!Decide, Abstract!Store, Abstract!Stored, Log, Status, Slot
  <2>2. CASE WriteFails(c)
    <3>1. Log' = Log
      BY <1>0, <1>b, <2>0, <2>2, AppendedLog DEF WriteFails, Parts, Fragments
    <3> QED BY <1>c, <2>2, <3>1 DEF WriteFails
  <2> QED BY <1>5, <2>1, <2>2 DEF Write
<1> QED BY <1>1, <1>2, <1>3, <1>4, <1>5 DEF Step, Progress

LEMMA StampRefines ==
    ASSUME IInv, NEW c \in Calls, NEW k \in Kinds, Stamp(c, k)
    PROVE  Abstract!Submit(c)
<1>0. TypeOK
  BY DEF IInv
<1>1. /\ pc[c] = "new" /\ pc' = [pc EXCEPT ![c] = "stamped"]
      /\ kind' = [kind EXCEPT ![c] = k] /\ stamp' = [stamp EXCEPT ![c] = clock]
      /\ UNCHANGED <<outcome, disk>> /\ clock \in Days
  BY <1>0 DEF Stamp, Goto, TypeOK
<1>2. Log' = Log
  BY <1>1 DEF Log
<1>3. Status[c] = "new" /\ Status' = [Status EXCEPT ![c] = "pending"]
  <2>1. \A b \in Calls : Status'[b] = [Status EXCEPT ![c] = "pending"][b]
    BY <1>0, <1>1 DEF Status, InFlight, TypeOK
  <2> QED BY <1>1, <2>1 DEF Status, InFlight
<1>4. Slot' = [Slot EXCEPT ![c] = <<k, clock>>]
  <2>1. \A b \in Calls : Slot'[b] = [Slot EXCEPT ![c] = <<k, clock>>][b]
    BY <1>0, <1>1 DEF Slot, TypeOK
  <2> QED BY <2>1 DEF Slot
<1>5. <<k, clock>> \in Kinds \X Days
  BY <1>1
<1>6. \E s \in Kinds \X Days : Slot' = [Slot EXCEPT ![c] = s]
  BY <1>4, <1>5
<1> QED BY <1>2, <1>3, <1>6 DEF Abstract!Submit, Abstract!Slots, Log, Status, Slot

LEMMA DeathRefines ==
    ASSUME IInv, ProcessDies
    PROVE  Abstract!Die
<1>0. TypeOK
  BY DEF IInv
<1>1. \/ Log' = Log
      \/ \E c \in Calls : /\ Status[c] = "pending"
                          /\ Log' = [Log EXCEPT ![Slot[c][1]][Slot[c][2]] = Append(@, c)]
  <2>1. CASE UNCHANGED disk
    BY <2>1 DEF Log
  <2>2. CASE \E c \in Calls, part \in Parts : pc[c] = "opened" /\ disk' = Appended(c, part)
    <3>1. PICK c \in Calls, part \in Parts : pc[c] = "opened" /\ disk' = Appended(c, part)
      BY <2>2
    <3>2. file[kind[c]] = stamp[c] /\ Status[c] = "pending"
      BY <3>1 DEF IInv, InWrite, Status, InFlight
    <3> QED BY <1>0, <3>1, <3>2, AppendedLog
  <2> QED BY <2>1, <2>2 DEF ProcessDies
<1>2. Status' = [c \in Calls |-> IF Status[c] = "pending" THEN "lost" ELSE Status[c]]
  <2>1. \A c \in Calls : /\ pc'[c] = IF InFlight(c) THEN "done" ELSE pc[c]
                         /\ outcome'[c] = IF InFlight(c) THEN "lost" ELSE outcome[c]
    BY DEF ProcessDies
  <2>2. \A c \in Calls : ~InFlight(c) => Status[c] # "pending"
    BY <1>0 DEF Status, TypeOK
  <2>3. \A c \in Calls : Status'[c] = IF Status[c] = "pending" THEN "lost" ELSE Status[c]
    BY <2>1, <2>2 DEF Status, InFlight
  <2> QED BY <2>3 DEF Status
<1>3. Slot' = Slot
  BY DEF ProcessDies, Slot
<1> QED BY <1>1, <1>2, <1>3 DEF Abstract!Die, Abstract!Stored, Log, Status, Slot

LEMMA InitRefines == Init => Abstract!Init
<1> SUFFICES ASSUME Init PROVE Abstract!Init
  OBVIOUS
<1>1. Log = [k \in Kinds |-> [d \in Days |-> <<>>]]
  BY WholeLinesEmpty DEF Init, Log
<1>2. Status = [c \in Calls |-> "new"]
  BY DEF Init, Status, InFlight
<1>3. Slot \in [Calls -> Kinds \X Days]
  BY ConstantsAssumption DEF Init, Slot, Kinds, Days
<1> QED BY <1>1, <1>2, <1>3 DEF Abstract!Init, Abstract!Slots, Log, Status, Slot

LEMMA NextRefines == IInv /\ [Next]_vars => [Abstract!Next]_(Abstract!vars)
<1> SUFFICES ASSUME IInv, [Next]_vars
             PROVE  Abstract!Next \/ (Log' = Log /\ Status' = Status /\ Slot' = Slot)
  BY DEF Abstract!vars, Log, Status, Slot
<1>1. ASSUME NEW c \in Calls, NEW k \in Kinds, Stamp(c, k) PROVE Abstract!Next
  BY <1>1, StampRefines DEF Abstract!Next
<1>2. ASSUME NEW c \in Calls, Step(c)
      PROVE  Abstract!Next \/ (Log' = Log /\ Status' = Status /\ Slot' = Slot)
  BY <1>2, CallRefines DEF Abstract!Next
<1>3. CASE ProcessDies
  BY <1>3, DeathRefines DEF Abstract!Next
<1>4. CASE Close \/ Restart \/ Tick \/ UNCHANGED vars
  BY <1>4 DEF Close, Restart, Tick, vars, Log, Status, Slot, InFlight
<1> QED BY <1>1, <1>2, <1>3, <1>4 DEF Next

(* Every behaviour of the recorder, with its mutex, handles, failures and  *)
(* deaths hidden, is one the evidence log allows: each call is stored once *)
(* in its slot or refused, in one step, and is told which.                 *)
THEOREM RefinesEvidenceLog ==
    Spec => Abstract!Init /\ [][Abstract!Next]_(Abstract!vars)
  BY InitIInv, NextIInv, InitRefines, NextRefines, PTL DEF Spec
=============================================================================
