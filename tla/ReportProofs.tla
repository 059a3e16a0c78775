---------------------------- MODULE ReportProofs ----------------------------
(***************************************************************************)
(* A report is exact or it fails, for any number of calls and days and     *)
(* whatever the recorder does in the files while they are read; and the    *)
(* numbers it prints are the promised ones, for any records.               *)
(***************************************************************************)
EXTENDS Evidence, RecorderProofs

(* The scanner is inside a file. *)
InFile == rpc \in Kinds /\ todo # <<>>

(* The chunks of that file that were read as lines of their own. *)
Whole == pos - Len(buf)

ReaderTypeOK ==
    /\ rpc \in Kinds \cup Ended \cup {"idle"}
    /\ todo \in Seq(Days) /\ pos \in Nat /\ buf \in Seq(Chunks)
    /\ counted \in [Kinds -> Seq(Calls)]
    /\ before \subseteq Calls /\ damaged \in BOOLEAN

(* A call leaves one chunk at most. *)
OneChunk ==
    \A k \in Kinds, d \in Days : \A i, j \in DOMAIN disk[k][d] :
        disk[k][d][i].call = disk[k][d][j].call => i = j

(* No day is listed twice; between two files nothing is left of a line. *)
TodoInv ==
    /\ IsInjective(todo)
    /\ rpc = "idle" \/ (rpc \in Kinds /\ todo = <<>>) => pos = 0 /\ buf = <<>>
    /\ rpc = "idle" => before = {} /\ ~damaged

(* What is read of the current file is whole lines, each of them counted,  *)
(* and then the chunks of the line that is being collected.                *)
ScanInv ==
    InFile =>
        /\ pos <= Len(File) /\ Len(buf) <= pos
        /\ \A i \in 1 .. Len(buf) : buf[i] = File[Whole + i] /\ buf[i].part # "line"
        /\ \A i \in 1 .. Whole : File[i].part = "line" /\ File[i].call \in CountedCalls(rpc)

(* What is counted has a timestamp, so its kind and day are final, and     *)
(* comes from a file that is finished or from the part read of this one.   *)
CountInv ==
    /\ CountedOnce
    /\ \A k \in Kinds : \A c \in CountedCalls(k) : pc[c] # "new"
    /\ rpc \in {"idle", "auctions"} => counted["notifications"] = <<>>
    /\ rpc \in {"idle", "empty"} => counted["auctions"] = <<>>
    /\ InFile => \A c \in CountedCalls(rpc) :
         /\ stamp[c] \notin Range(Tail(todo))
         /\ stamp[c] = Head(todo) => \E i \in 1 .. Whole : File[i].call = c

(* The file of kind k and day d is not finished yet. *)
Ahead(k, d) ==
    \/ rpc = k /\ d \in Range(todo)
    \/ rpc = "auctions" /\ k = "notifications"

(* A call acknowledged in time is counted, or its file is still to come. *)
CoverInv ==
    \A c \in before :
        /\ outcome[c] = "ok"
        /\ \/ c \in CountedCalls(kind[c])
           \/ Ahead(kind[c], stamp[c])
           \/ rpc = "failed"
           \/ rpc = "empty" /\ kind[c] = "notifications"

(* A damaged file is still to come, or the report has failed. *)
DamageInv ==
    damaged => \/ rpc = "failed"
               \/ \E k \in Kinds, d \in Days : Damaged(disk[k][d]) /\ Ahead(k, d)

RInv ==
    /\ IInv
    /\ ReaderTypeOK
    /\ OneChunk
    /\ TodoInv
    /\ ScanInv
    /\ CountInv
    /\ CoverInv
    /\ DamageInv

-----------------------------------------------------------------------------
(* Names and types. *)

LEMMA KindNames == Kinds = {"auctions", "notifications"} /\ Kinds \cap (Ended \cup {"idle"}) = {}
  BY DEF Kinds, Ended

LEMMA FileFacts ==
    ASSUME TypeOK, NEW k \in Kinds, NEW d \in Days
    PROVE  /\ disk[k][d] \in Seq(Chunks)
           /\ Len(disk[k][d]) \in Nat
           /\ DOMAIN disk[k][d] = 1 .. Len(disk[k][d])
           /\ \A i \in 1 .. Len(disk[k][d]) :
                 disk[k][d][i] \in Chunks /\ disk[k][d][i].call \in Calls
                     /\ disk[k][d][i].part \in Parts
<1>1. disk[k][d] \in Seq(Chunks)
  BY DEF TypeOK
<1>2. Len(disk[k][d]) \in Nat /\ DOMAIN disk[k][d] = 1 .. Len(disk[k][d])
  BY <1>1, LenProperties
<1>3. \A i \in 1 .. Len(disk[k][d]) : disk[k][d][i] \in Chunks
  BY <1>1, ElementOfSeq
<1> QED BY <1>1, <1>2, <1>3 DEF Chunks

(* The head of a list without repetition and what is left of it. *)
LEMMA ListFacts ==
    ASSUME NEW S, NEW q \in Seq(S), q # <<>>
    PROVE  /\ Head(q) \in S /\ Tail(q) \in Seq(S)
           /\ Range(q) = {Head(q)} \cup Range(Tail(q))
           /\ IsInjective(q) => Head(q) \notin Range(Tail(q)) /\ IsInjective(Tail(q))
<1>1. /\ Head(q) \in S /\ Tail(q) \in Seq(S)
      /\ Len(q) \in Nat /\ Len(q) > 0 /\ DOMAIN q = 1 .. Len(q)
      /\ Len(Tail(q)) = Len(q) - 1 /\ DOMAIN Tail(q) = 1 .. Len(q) - 1
      /\ \A i \in 1 .. Len(q) - 1 : Tail(q)[i] = q[i + 1]
      /\ Head(q) = q[1]
  <2>1. /\ Head(q) \in S /\ Tail(q) \in Seq(S) /\ Len(Tail(q)) = Len(q) - 1
        /\ \A i \in 1 .. Len(Tail(q)) : Tail(q)[i] = q[i + 1]
    BY HeadTailProperties
  <2>2. Len(q) \in Nat /\ DOMAIN q = 1 .. Len(q) /\ DOMAIN Tail(q) = 1 .. Len(Tail(q))
    BY <2>1, LenProperties
  <2>3. Len(q) # 0
    BY EmptySeq
  <2>4. Head(q) = q[1]
    OBVIOUS
  <2> QED BY <2>1, <2>2, <2>3, <2>4
<1> DEFINE n == Len(q)
           t == Tail(q)
<1>2. n \in Nat /\ n > 0 /\ DOMAIN q = 1 .. n /\ DOMAIN t = 1 .. n - 1
      /\ (\A i \in 1 .. n - 1 : t[i] = q[i + 1]) /\ Head(q) = q[1]
  BY <1>1
<1> HIDE DEF n, t
<1>3. Range(q) = {Head(q)} \cup Range(t)
  <2>1. ASSUME NEW i \in 1 .. n, i # 1 PROVE i - 1 \in 1 .. n - 1 /\ t[i - 1] = q[i]
    BY <1>2, <2>1
  <2>2. \A i \in 1 .. n - 1 : i + 1 \in 1 .. n /\ q[i + 1] = t[i]
    BY <1>2
  <2>3. 1 \in 1 .. n
    BY <1>2
  <2>4. ASSUME NEW x \in Range(q) PROVE x \in {Head(q)} \cup Range(t)
    <3>1. PICK i \in 1 .. n : x = q[i]
      BY <1>2 DEF Range
    <3>2. CASE i = 1
      BY <1>2, <3>1, <3>2
    <3>3. CASE i # 1
      BY <1>2, <2>1, <3>1, <3>3 DEF Range
    <3> QED BY <3>2, <3>3
  <2>5. Head(q) \in Range(q)
    BY <1>2, <2>3 DEF Range
  <2>6. Range(t) \subseteq Range(q)
    BY <1>2, <2>2 DEF Range
  <2> QED BY <2>4, <2>5, <2>6
<1>4. ASSUME IsInjective(q) PROVE Head(q) \notin Range(t) /\ IsInjective(t)
  <2>1. \A i \in 1 .. n - 1 : i + 1 \in 1 .. n /\ t[i] = q[i + 1] /\ i + 1 # 1
    BY <1>2
  <2>2. \A i, j \in 1 .. n : q[i] = q[j] => i = j
    BY <1>2, <1>4 DEF IsInjective
  <2>3. 1 \in 1 .. n
    BY <1>2
  <2>4. Head(q) \notin Range(t)
    BY <1>2, <2>1, <2>2, <2>3 DEF Range
  <2>5. \A i, j \in 1 .. n - 1 : t[i] = t[j] => i = j
    <3> SUFFICES ASSUME NEW i \in 1 .. n - 1, NEW j \in 1 .. n - 1, t[i] = t[j] PROVE i = j
      OBVIOUS
    <3>1. i + 1 = j + 1
      BY <2>1, <2>2
    <3> QED BY <1>2, <3>1
  <2> QED BY <1>2, <2>4, <2>5 DEF IsInjective
<1> QED BY <1>1, <1>3, <1>4 DEF t

LEMMA InFileFacts ==
    ASSUME TypeOK, ReaderTypeOK, TodoInv, InFile
    PROVE  /\ rpc \in Kinds /\ Head(todo) \in Days /\ Tail(todo) \in Seq(Days)
           /\ File \in Seq(Chunks) /\ Len(File) \in Nat /\ DOMAIN File = 1 .. Len(File)
           /\ \A i \in 1 .. Len(File) :
                 File[i] \in Chunks /\ File[i].call \in Calls /\ File[i].part \in Parts
           /\ Len(buf) \in Nat /\ DOMAIN buf = 1 .. Len(buf)
           /\ Range(todo) = {Head(todo)} \cup Range(Tail(todo))
           /\ Head(todo) \notin Range(Tail(todo)) /\ IsInjective(Tail(todo))
<1>1. rpc \in Kinds /\ todo # <<>> /\ todo \in Seq(Days)
  BY DEF InFile, ReaderTypeOK
<1>2. /\ Head(todo) \in Days /\ Tail(todo) \in Seq(Days)
      /\ Range(todo) = {Head(todo)} \cup Range(Tail(todo))
      /\ Head(todo) \notin Range(Tail(todo)) /\ IsInjective(Tail(todo))
  BY <1>1, ListFacts DEF TodoInv
<1>3. Len(buf) \in Nat /\ DOMAIN buf = 1 .. Len(buf)
  BY LenProperties DEF ReaderTypeOK
<1>4. /\ File \in Seq(Chunks) /\ Len(File) \in Nat /\ DOMAIN File = 1 .. Len(File)
      /\ \A i \in 1 .. Len(File) :
            File[i] \in Chunks /\ File[i].call \in Calls /\ File[i].part \in Parts
  BY <1>1, <1>2, FileFacts DEF File
<1> QED BY <1>1, <1>2, <1>3, <1>4

(* The days a Glob lists: each once, and every day whose file has content. *)
LEMMA GlobFacts ==
    ASSUME NEW k \in Kinds, NEW q \in Glob(k)
    PROVE  /\ q \in Seq(Days) /\ IsInjective(q)
           /\ \A d \in Days : disk[k][d] # <<>> => d \in Range(q)
<1>0. /\ q \in UNION { [1 .. n -> Days] : n \in 0 .. MaxDay }
      /\ \A i, j \in DOMAIN q : i < j => q[i] < q[j]
      /\ \A d \in Days : Exists(k, d) => d \in Range(q)
  BY Zenon DEF Glob
<1>1. PICK n \in 0 .. MaxDay : q \in [1 .. n -> Days]
  BY <1>0
<1>2. n \in Nat /\ Days \subseteq Nat
  BY <1>1, ConstantsAssumption DEF Days
<1>3. q \in Seq(Days)
  BY <1>1, <1>2
<1>4. \A i, j \in DOMAIN q : i < j => q[i] < q[j]
  BY <1>0
<1>5. IsInjective(q)
  <2> SUFFICES ASSUME NEW i \in 1 .. n, NEW j \in 1 .. n, q[i] = q[j] PROVE i = j
    BY <1>1 DEF IsInjective
  <2>1. i \in Nat /\ j \in Nat /\ q[i] \in Nat /\ q[j] \in Nat
    <3>1. i \in Nat /\ j \in Nat
      BY <1>2
    <3>2. q[i] \in Days /\ q[j] \in Days
      BY <1>1
    <3> QED BY <1>2, <3>1, <3>2
  <2>2. ~(q[i] < q[j]) /\ ~(q[j] < q[i])
    BY <2>1
  <2>3. ~(i < j) /\ ~(j < i)
    BY <1>1, <1>4, <2>2
  <2> QED BY <2>1, <2>3
<1>6. \A d \in Days : disk[k][d] # <<>> => d \in Range(q)
  BY <1>0 DEF Exists
<1> QED BY <1>3, <1>5, <1>6

-----------------------------------------------------------------------------
(* Steps of the recorder. *)

(* An acknowledgement is final, and so are kind and day of a call that has *)
(* its timestamp.                                                          *)
LEMMA CallsFinal ==
    ASSUME IInv, [Next]_vars, NEW c \in Calls
    PROVE  /\ pc[c] # "new" => pc'[c] # "new" /\ kind'[c] = kind[c] /\ stamp'[c] = stamp[c]
           /\ outcome[c] = "ok" => outcome'[c] = "ok"
<1>0. TypeOK /\ (outcome[c] = "ok" => pc[c] = "done")
  BY DEF IInv, Fresh
<1>1. ASSUME NEW b \in Calls, NEW k \in Kinds, Stamp(b, k)
      PROVE  /\ pc[c] # "new" => pc'[c] # "new" /\ kind'[c] = kind[c] /\ stamp'[c] = stamp[c]
             /\ outcome[c] = "ok" => outcome'[c] = "ok"
  BY <1>0, <1>1 DEF Stamp, Goto, TypeOK
<1>2. ASSUME NEW b \in Calls, Step(b)
      PROVE  /\ UNCHANGED <<kind, stamp>> /\ pc[b] \notin {"new", "done"}
             /\ \/ \E l \in Locations \ {"new"} : pc' = [pc EXCEPT ![b] = l]
             /\ outcome' = outcome \/ \E r \in {"ok", "err"} : outcome' = [outcome EXCEPT ![b] = r]
  BY <1>2 DEF Step, Progress, EncodeFails, Lock, Rotate, Open, Write, WriteWhole, WriteFails,
              ChmodFails, Return, Goto, Locations
<1>3. ASSUME NEW b \in Calls, Step(b)
      PROVE  /\ pc[c] # "new" => pc'[c] # "new" /\ kind'[c] = kind[c] /\ stamp'[c] = stamp[c]
             /\ outcome[c] = "ok" => outcome'[c] = "ok"
  <2>1. /\ UNCHANGED <<kind, stamp>> /\ pc[b] \notin {"new", "done"}
        /\ \E l \in Locations \ {"new"} : pc' = [pc EXCEPT ![b] = l]
        /\ outcome' = outcome \/ \E r \in {"ok", "err"} : outcome' = [outcome EXCEPT ![b] = r]
    BY <1>2, <1>3
  <2> QED BY <1>0, <2>1 DEF TypeOK
<1>4. CASE ProcessDies
  BY <1>0, <1>4 DEF ProcessDies, InFlight, TypeOK
<1>5. CASE Close \/ Restart \/ Tick \/ UNCHANGED vars
  BY <1>5 DEF Close, Restart, Tick, vars
<1> QED BY <1>1, <1>3, <1>4, <1>5 DEF Next

LEMMA OneChunkKept ==
    ASSUME IInv, OneChunk, [Next]_vars
    PROVE  OneChunk'
<1>1. CASE UNCHANGED disk
  BY <1>1 DEF OneChunk
<1>2. ASSUME NEW c \in Calls, NEW part \in Parts, pc[c] = "opened", disk' = Appended(c, part)
      PROVE  OneChunk'
  <2>0. kind[c] \in Kinds /\ stamp[c] \in Days /\ file[kind[c]] = stamp[c] /\ TypeOK
    BY <1>2 DEF IInv, TypeOK, InWrite
  <2>a. \A k \in Kinds, d \in Days : \A i \in DOMAIN disk[k][d] : disk[k][d][i].call # c
    BY <1>2 DEF IInv, Fresh, ChunkOf
  <2> DEFINE f == disk[kind[c]][stamp[c]]
             g == disk'[kind[c]][stamp[c]]
  <2>1. /\ \A k \in Kinds, d \in Days :
              ~(k = kind[c] /\ d = stamp[c]) => disk'[k][d] = disk[k][d]
        /\ Len(f) \in Nat
        /\ \A i \in 1 .. Len(f) : g[i] = f[i]
        /\ g[Len(f) + 1].call = c
        /\ DOMAIN f = 1 .. Len(f)
        /\ DOMAIN g = 1 .. Len(f) + 1
    BY <1>2, <2>0, AppendedFile
  <2>2. \A i, j \in DOMAIN g : g[i].call = g[j].call => i = j
    <3>1. \A i, j \in DOMAIN f : f[i].call = f[j].call => i = j
      BY <2>0 DEF OneChunk
    <3>2. \A i \in DOMAIN f : f[i].call # c
      BY <2>0, <2>a
    <3> HIDE DEF f, g
    <3>3. \A i \in DOMAIN g : (i \in DOMAIN f /\ g[i] = f[i]) \/ i = Len(f) + 1
      BY <2>1
    <3> QED BY <2>1, <3>1, <3>2, <3>3
  <2>3. ASSUME NEW k \in Kinds, NEW d \in Days
        PROVE  \A i, j \in DOMAIN disk'[k][d] :
                  disk'[k][d][i].call = disk'[k][d][j].call => i = j
    <3>1. CASE k = kind[c] /\ d = stamp[c]
      BY <2>2, <3>1
    <3>2. CASE ~(k = kind[c] /\ d = stamp[c])
      <4>1. disk'[k][d] = disk[k][d]
        BY <2>1, <3>2
      <4> QED BY <4>1 DEF OneChunk
    <3> QED BY <3>1, <3>2
  <2> HIDE DEF f, g
  <2> QED BY <2>3 DEF OneChunk
<1> QED BY <1>1, <1>2, NextWrites

(* The reader's part of the invariant does not notice a step of the        *)
(* recorder: files only grow, and what it knows of calls is final.         *)
LEMMA RecorderStep ==
    ASSUME RInv, [Next]_vars, UNCHANGED reader
    PROVE  RInv'
<1> USE DEF reader
<1>0. /\ IInv /\ TypeOK /\ ReaderTypeOK /\ TodoInv /\ OneChunk
      /\ ScanInv /\ CountInv /\ CoverInv /\ DamageInv
  BY DEF RInv, IInv
<1>1. IInv' /\ TypeOK' /\ OneChunk'
  <2>1. IInv'
    BY <1>0, NextIInv
  <2> QED BY <1>0, <2>1, OneChunkKept DEF IInv
<1>2. ReaderTypeOK' /\ TodoInv'
  BY <1>0 DEF ReaderTypeOK, TodoInv
<1>3. \A k \in Kinds, d \in Days :
         /\ Len(disk[k][d]) \in Nat /\ Len(disk'[k][d]) \in Nat
         /\ DOMAIN disk[k][d] = 1 .. Len(disk[k][d])
         /\ DOMAIN disk'[k][d] = 1 .. Len(disk'[k][d])
         /\ Len(disk[k][d]) <= Len(disk'[k][d])
         /\ \A i \in 1 .. Len(disk[k][d]) :
               i \in 1 .. Len(disk'[k][d]) /\ disk'[k][d][i] = disk[k][d][i]
  <2> TAKE k \in Kinds, d \in Days
  <2>1. Len(disk[k][d]) \in Nat /\ DOMAIN disk[k][d] = 1 .. Len(disk[k][d])
    BY <1>0, FileFacts
  <2>2. Len(disk'[k][d]) \in Nat /\ DOMAIN disk'[k][d] = 1 .. Len(disk'[k][d])
    <3>1. disk'[k][d] \in Seq(Chunks)
      BY <1>1 DEF TypeOK
    <3> QED BY <3>1, LenProperties
  <2>3. Extends(disk[k][d], disk'[k][d])
    BY <1>0, NextExtends
  <2> QED BY <2>1, <2>2, <2>3 DEF Extends
<1>4. InFile' <=> InFile
  BY DEF InFile
<1>5. CountedCalls(rpc)' = CountedCalls(rpc) /\ \A k \in Kinds : CountedCalls(k)' = CountedCalls(k)
  BY DEF CountedCalls
<1>6. ASSUME InFile
      PROVE  /\ pos <= Len(File) => pos <= Len(File)'
             /\ pos <= Len(File) => \A i \in 1 .. pos : i \in 1 .. Len(File) /\ File'[i] = File[i]
  <2>1. rpc \in Kinds /\ Head(todo) \in Days
    BY <1>0, <1>6, InFileFacts
  <2>2. File = disk[rpc][Head(todo)] /\ File' = disk'[rpc][Head(todo)]
    BY DEF File
  <2> DEFINE f == disk[rpc][Head(todo)]
             g == disk'[rpc][Head(todo)]
  <2>3. /\ Len(f) \in Nat /\ Len(g) \in Nat /\ Len(f) <= Len(g)
        /\ \A i \in 1 .. Len(f) : g[i] = f[i]
    BY <1>3, <2>1
  <2>4. pos \in Nat /\ File = f /\ File' = g
    BY <1>0, <2>2 DEF ReaderTypeOK
  <2> HIDE DEF f, g
  <2> QED BY <2>3, <2>4
<1>7. ASSUME InFile
      PROVE  /\ pos \in Nat /\ Len(buf) \in Nat /\ Len(buf) <= pos /\ pos <= Len(File)
             /\ \A i \in 1 .. Len(buf) : Whole + i \in 1 .. pos
             /\ \A i \in 1 .. Whole : i \in 1 .. pos
  <2>1. pos \in Nat /\ Len(buf) \in Nat
    BY <1>0, <1>7, InFileFacts DEF ReaderTypeOK
  <2>2. Len(buf) <= pos /\ pos <= Len(File)
    BY <1>0, <1>7 DEF ScanInv
  <2> QED BY <2>1, <2>2 DEF Whole
<1>8. ScanInv'
  <2> SUFFICES ASSUME InFile
               PROVE  /\ pos <= Len(File)' /\ Len(buf) <= pos
                      /\ \A i \in 1 .. Len(buf) : buf[i] = File'[Whole + i] /\ buf[i].part # "line"
                      /\ \A i \in 1 .. Whole :
                            File'[i].part = "line" /\ File'[i].call \in CountedCalls(rpc)
    BY <1>4, <1>5 DEF ScanInv, Whole
  <2>1. /\ \A i \in 1 .. Len(buf) : buf[i] = File[Whole + i] /\ buf[i].part # "line"
        /\ \A i \in 1 .. Whole : File[i].part = "line" /\ File[i].call \in CountedCalls(rpc)
    BY <1>0 DEF ScanInv
  <2> QED BY <1>6, <1>7, <2>1
<1>9. \A k \in Kinds : \A c \in CountedCalls(k) :
         c \in Calls /\ kind[c] = k /\ pc'[c] # "new" /\ kind'[c] = kind[c] /\ stamp'[c] = stamp[c]
  <2> SUFFICES ASSUME NEW k \in Kinds, NEW c \in CountedCalls(k)
               PROVE  c \in Calls /\ kind[c] = k /\ pc'[c] # "new" /\ kind'[c] = kind[c]
                         /\ stamp'[c] = stamp[c]
    OBVIOUS
  <2>1. counted[k] \in Seq(Calls)
    BY <1>0 DEF ReaderTypeOK
  <2>2. c \in Calls
    BY <2>1 DEF CountedCalls, Range
  <2>3. pc[c] # "new" /\ kind[c] = k
    BY <1>0 DEF CountInv, CountedOnce
  <2> QED BY <1>0, <2>2, <2>3, CallsFinal
<1>10. CountInv'
  <2>1. CountedOnce'
    BY <1>0, <1>5, <1>9 DEF CountInv, CountedOnce
  <2>2. \A k \in Kinds : \A c \in CountedCalls(k) : pc'[c] # "new"
    BY <1>9
  <2>3. ASSUME InFile, NEW c \in CountedCalls(rpc)
        PROVE  /\ stamp'[c] \notin Range(Tail(todo))
               /\ stamp'[c] = Head(todo) => \E i \in 1 .. Whole : File'[i].call = c
    <3>1. stamp'[c] = stamp[c]
      BY <1>9, <2>3 DEF InFile
    <3>2. /\ stamp[c] \notin Range(Tail(todo))
          /\ stamp[c] = Head(todo) => \E i \in 1 .. Whole : File[i].call = c
      BY <1>0, <2>3 DEF CountInv
    <3> QED BY <1>6, <1>7, <2>3, <3>1, <3>2
  <2>4. /\ rpc \in {"idle", "auctions"} => counted["notifications"] = <<>>
        /\ rpc \in {"idle", "empty"} => counted["auctions"] = <<>>
    BY <1>0 DEF CountInv
  <2> QED BY <1>4, <1>5, <2>1, <2>2, <2>3, <2>4 DEF CountInv, Whole
<1>11. CoverInv'
  <2> SUFFICES ASSUME NEW c \in before
               PROVE  /\ outcome'[c] = "ok"
                      /\ \/ (c \in CountedCalls(kind[c]))'
                         \/ Ahead(kind[c], stamp[c])'
                         \/ rpc = "failed"
                         \/ rpc = "empty" /\ kind'[c] = "notifications"
    BY DEF CoverInv
  <2>1. c \in Calls /\ outcome[c] = "ok"
    BY <1>0 DEF ReaderTypeOK, CoverInv
  <2>2. pc[c] # "new"
    BY <1>0, <2>1 DEF IInv, Fresh
  <2>3. outcome'[c] = "ok" /\ kind'[c] = kind[c] /\ stamp'[c] = stamp[c] /\ kind[c] \in Kinds
    BY <1>0, <2>1, <2>2, CallsFinal DEF TypeOK
  <2>4. \/ c \in CountedCalls(kind[c]) \/ Ahead(kind[c], stamp[c]) \/ rpc = "failed"
        \/ rpc = "empty" /\ kind[c] = "notifications"
    BY <1>0 DEF CoverInv
  <2>5. /\ CountedCalls(kind[c])' = CountedCalls(kind[c])
        /\ Ahead(kind[c], stamp[c])' <=> Ahead(kind[c], stamp[c])
    BY <2>3 DEF CountedCalls, Ahead
  <2> QED BY <2>3, <2>4, <2>5
<1>12. DamageInv'
  <2>1. ASSUME NEW k \in Kinds, NEW d \in Days, Damaged(disk[k][d])
        PROVE  Damaged(disk'[k][d])
    <3> DEFINE f == disk[k][d]
               g == disk'[k][d]
    <3>1. /\ Len(f) \in Nat /\ Len(g) \in Nat /\ Len(f) <= Len(g)
          /\ DOMAIN f = 1 .. Len(f) /\ DOMAIN g = 1 .. Len(g)
          /\ \A i \in 1 .. Len(f) : i \in 1 .. Len(g) /\ g[i] = f[i]
      BY <1>3
    <3>2. PICK i \in DOMAIN f : f[i].part = "torn" \/ (f[i].part = "text" /\ i < Len(f))
      BY <2>1 DEF Damaged
    <3> HIDE DEF f, g
    <3>3. i \in DOMAIN g /\ g[i] = f[i] /\ (i < Len(f) => i < Len(g))
      BY <3>1, <3>2
    <3>4. Damaged(g)
      BY <3>2, <3>3 DEF Damaged
    <3> QED BY <3>4 DEF g
  <2> QED BY <1>0, <2>1 DEF DamageInv, Ahead
<1> QED BY <1>1, <1>2, <1>8, <1>10, <1>11, <1>12 DEF RInv

-----------------------------------------------------------------------------
(* Steps of the reader. *)

LEMMA FilesSame ==
    ASSUME RInv, UNCHANGED vars
    PROVE  IInv' /\ OneChunk' /\ TypeOK /\ UNCHANGED <<disk, fds, pc, kind, stamp, outcome>>
<1>1. IInv /\ OneChunk /\ TypeOK
  BY DEF RInv, IInv
<1> QED BY <1>1, NextIInv, OneChunkKept DEF vars

(* Once the report has failed, only the counts matter. *)
LEMMA FailedStep ==
    ASSUME RInv, UNCHANGED <<vars, counted, before, damaged>>, rpc' = "failed",
           todo' \in Seq(Days), IsInjective(todo'), pos' \in Nat, buf' \in Seq(Chunks)
    PROVE  RInv'
<1>1. IInv' /\ OneChunk' /\ TypeOK /\ UNCHANGED <<disk, pc, kind, stamp, outcome>>
  BY FilesSame
<1>2. ReaderTypeOK /\ CountInv /\ CoverInv
  BY DEF RInv
<1>3. ~InFile' /\ rpc' \notin Kinds
  BY KindNames DEF InFile, Ended
<1>4. ReaderTypeOK' /\ TodoInv' /\ ScanInv'
  BY <1>2, <1>3 DEF ReaderTypeOK, TodoInv, ScanInv, Ended
<1>5. CountInv'
  BY <1>1, <1>2, <1>3 DEF CountInv, CountedOnce, CountedCalls
<1>6. CoverInv' /\ DamageInv'
  BY <1>1, <1>2 DEF CoverInv, DamageInv
<1> QED BY <1>1, <1>4, <1>5, <1>6 DEF RInv

(* What is counted so far, as calls. *)
LEMMA CountedFacts ==
    ASSUME ReaderTypeOK, NEW k \in Kinds
    PROVE  /\ counted[k] \in Seq(Calls)
           /\ CountedCalls(k) \subseteq Calls
           /\ counted[k] = <<>> => CountedCalls(k) = {}
<1>1. counted[k] \in Seq(Calls)
  BY DEF ReaderTypeOK
<1>2. CountedCalls(k) \subseteq Calls
  BY <1>1 DEF CountedCalls, Range
<1>3. ASSUME counted[k] = <<>> PROVE CountedCalls(k) = {}
  BY <1>3 DEF CountedCalls, Range
<1> QED BY <1>1, <1>2, <1>3

(* An acknowledged call has a whole line in the file of its slot. *)
LEMMA AcknowledgedLine ==
    ASSUME IInv, NEW c \in Calls, outcome[c] = "ok"
    PROVE  /\ kind[c] \in Kinds /\ stamp[c] \in Days
           /\ disk[kind[c]][stamp[c]] # <<>>
           /\ \E i \in 1 .. Len(disk[kind[c]][stamp[c]]) :
                 /\ disk[kind[c]][stamp[c]][i].call = c
                 /\ disk[kind[c]][stamp[c]][i].part = "line"
<1>1. kind[c] \in Kinds /\ stamp[c] \in Days /\ TypeOK
  BY DEF IInv, TypeOK
<1>2. TrueOf("ok", c, disk[kind[c]][stamp[c]])
  BY DEF IInv, AnswerExact
<1>3. PICK i \in DOMAIN disk[kind[c]][stamp[c]] :
         /\ disk[kind[c]][stamp[c]][i].call = c
         /\ disk[kind[c]][stamp[c]][i].part = "line"
  BY <1>2 DEF TrueOf
<1>4. DOMAIN disk[kind[c]][stamp[c]] = 1 .. Len(disk[kind[c]][stamp[c]])
  BY <1>1, FileFacts
<1>5. disk[kind[c]][stamp[c]] # <<>>
  BY <1>3
<1> QED BY <1>1, <1>3, <1>4, <1>5

LEMMA DamagedNotEmpty ==
    ASSUME NEW f, Damaged(f) PROVE f # <<>>
  BY DEF Damaged

(* Nothing has been read of a file yet. *)
LEMMA FileBegins ==
    TypeOK /\ ReaderTypeOK /\ pos = 0 /\ buf = <<>> => ScanInv
<1> SUFFICES ASSUME TypeOK, ReaderTypeOK, pos = 0, buf = <<>>, InFile
             PROVE  /\ pos <= Len(File) /\ Len(buf) <= pos
                    /\ \A i \in 1 .. Len(buf) : buf[i] = File[Whole + i] /\ buf[i].part # "line"
                    /\ \A i \in 1 .. Whole : File[i].part = "line"
                                             /\ File[i].call \in CountedCalls(rpc)
  BY DEF ScanInv
<1>1. rpc \in Kinds /\ Head(todo) \in Days
  BY ListFacts DEF InFile, ReaderTypeOK
<1>2. Len(File) \in Nat
  BY <1>1, FileFacts DEF File
<1>3. Len(buf) = 0 /\ Whole = 0
  <2>1. Len(buf) = 0
    BY EmptySeq
  <2>2. Whole = 0 - 0
    BY <2>1, Zenon DEF Whole
  <2> QED BY <2>1, <2>2
<1> QED BY <1>2, <1>3

(* A list of files is about to be read: nothing of that kind is counted.   *)
LEMMA GlobStep ==
    ASSUME RInv, UNCHANGED <<vars, pos, buf, counted>>, pos = 0, buf = <<>>,
           NEW k \in Kinds, rpc' = k, todo' \in Glob(k), counted[k] = <<>>,
           k = "auctions" => counted["notifications"] = <<>>,
           before' \subseteq Calls, damaged' \in BOOLEAN
    PROVE  IInv' /\ OneChunk' /\ ReaderTypeOK' /\ TodoInv' /\ ScanInv' /\ CountInv'
<1>1. IInv' /\ OneChunk' /\ TypeOK /\ UNCHANGED <<disk, pc, kind, stamp, outcome>>
  BY FilesSame
<1>2. ReaderTypeOK /\ CountInv
  BY DEF RInv
<1>3. todo' \in Seq(Days) /\ IsInjective(todo')
  BY GlobFacts
<1>4. ReaderTypeOK' /\ TodoInv'
  BY <1>2, <1>3, KindNames DEF ReaderTypeOK, TodoInv
<1>5. \A j \in Kinds : CountedCalls(j)' = CountedCalls(j)
  BY DEF CountedCalls
<1>6. CountedCalls(k)' = {}
  BY <1>2, <1>5, CountedFacts
<1>7. ScanInv'
  <2>1. (TypeOK /\ ReaderTypeOK /\ pos = 0 /\ buf = <<>>)'
    BY <1>1, <1>4 DEF IInv
  <2> QED BY <2>1, FileBegins, PTL
<1>8. CountInv'
  <2>1. CountedOnce' /\ (\A j \in Kinds : \A c \in CountedCalls(j)' : pc'[c] # "new")
    BY <1>1, <1>2, <1>5 DEF CountInv, CountedOnce
  <2>2. /\ rpc' \in {"idle", "auctions"} => counted'["notifications"] = <<>>
        /\ rpc' \in {"idle", "empty"} => counted'["auctions"] = <<>>
    BY KindNames DEF Ended
  <2>3. CountedCalls(rpc)' = {}
    BY <1>6 DEF CountedCalls
  <2> QED BY <2>1, <2>2, <2>3 DEF CountInv
<1> QED BY <1>1, <1>4, <1>7, <1>8

LEMMA StartStep ==
    ASSUME RInv, StartReport
    PROVE  RInv'
<1> USE DEF StartReport
<1>0. /\ IInv /\ ReaderTypeOK /\ TodoInv /\ CountInv
      /\ UNCHANGED <<disk, pc, kind, stamp, outcome>>
  BY FilesSame DEF RInv
<1>1. /\ pos = 0 /\ buf = <<>> /\ "auctions" \in Kinds
      /\ counted["auctions"] = <<>> /\ counted["notifications"] = <<>>
  BY <1>0 DEF TodoInv, CountInv, Kinds
<1>2. IInv' /\ OneChunk' /\ ReaderTypeOK' /\ TodoInv' /\ ScanInv' /\ CountInv'
  <2>1. before' \subseteq Calls
    OBVIOUS
  <2>2. damaged' \in BOOLEAN
    BY Zenon
  <2> QED BY <1>1, <2>1, <2>2, GlobStep
<1>3. \A d \in Days : disk["auctions"][d] # <<>> => d \in Range(todo')
  BY <1>1, GlobFacts
<1>4. CoverInv'
  <2> SUFFICES ASSUME NEW c \in Calls, outcome[c] = "ok"
               PROVE  Ahead(kind[c], stamp[c])'
    BY <1>0 DEF CoverInv
  <2>1. kind[c] \in Kinds /\ stamp[c] \in Days /\ disk[kind[c]][stamp[c]] # <<>>
    BY <1>0, AcknowledgedLine
  <2> QED BY <1>0, <1>3, <2>1 DEF Ahead, Kinds
<1>5. DamageInv'
  <2> SUFFICES ASSUME NEW k \in Kinds, NEW d \in Days, Damaged(disk[k][d])
               PROVE  Ahead(k, d)'
    BY <1>0 DEF DamageInv
  <2>1. disk[k][d] # <<>>
    BY DamagedNotEmpty
  <2> QED BY <1>3, <2>1 DEF Ahead, Kinds
<1> QED BY <1>2, <1>4, <1>5 DEF RInv

LEMMA NextPatternStep ==
    ASSUME RInv, NextPattern
    PROVE  RInv'
<1> USE DEF NextPattern
<1>0. /\ IInv /\ ReaderTypeOK /\ TodoInv /\ CountInv /\ CoverInv /\ DamageInv
      /\ UNCHANGED <<disk, pc, kind, stamp, outcome>>
  BY FilesSame DEF RInv
<1>1. /\ pos = 0 /\ buf = <<>> /\ {"auctions", "notifications"} \subseteq Kinds
      /\ counted["notifications"] = <<>>
  BY <1>0 DEF TodoInv, CountInv, Kinds
<1>2. IInv' /\ OneChunk' /\ ReaderTypeOK' /\ TodoInv' /\ ScanInv' /\ CountInv'
  <2>1. before' \subseteq Calls /\ damaged' \in BOOLEAN
    BY <1>0 DEF ReaderTypeOK
  <2> QED BY <1>1, <2>1, GlobStep
<1>3. \A d \in Days : disk["notifications"][d] # <<>> => d \in Range(todo')
  BY <1>1, GlobFacts
<1>4. Range(todo) = {}
  BY DEF Range
<1>5. CoverInv'
  <2> SUFFICES ASSUME NEW c \in before
               PROVE  outcome[c] = "ok" /\ (c \in CountedCalls(kind[c]) \/ Ahead(kind[c], stamp[c])')
    <3>1. \A c \in before : CountedCalls(kind[c])' = CountedCalls(kind[c])
      BY <1>0 DEF CountedCalls
    <3> QED BY <1>0, <3>1 DEF CoverInv
  <2>1. c \in Calls /\ outcome[c] = "ok"
    BY <1>0 DEF ReaderTypeOK, CoverInv
  <2>2. kind[c] \in Kinds /\ stamp[c] \in Days /\ disk[kind[c]][stamp[c]] # <<>>
    BY <1>0, <2>1, AcknowledgedLine
  <2>3. CASE kind[c] = "notifications"
    BY <1>0, <1>3, <2>1, <2>2, <2>3 DEF Ahead
  <2>4. CASE kind[c] # "notifications"
    BY <1>0, <1>4, <2>1, <2>4 DEF CoverInv, Ahead
  <2> QED BY <2>3, <2>4
<1>6. DamageInv'
  <2> SUFFICES ASSUME damaged
               PROVE  \E k \in Kinds, d \in Days : Damaged(disk[k][d]) /\ Ahead(k, d)'
    BY <1>0 DEF DamageInv
  <2>1. PICK k \in Kinds, d \in Days : Damaged(disk[k][d]) /\ Ahead(k, d)
    BY <1>0 DEF DamageInv
  <2>2. k = "notifications" /\ disk[k][d] # <<>>
    BY <1>4, <2>1, DamagedNotEmpty DEF Ahead
  <2>3. Ahead(k, d)'
    BY <1>3, <2>2 DEF Ahead
  <2> QED BY <2>1, <2>3
<1> QED BY <1>2, <1>5, <1>6 DEF RInv

LEMMA FinishStep ==
    ASSUME RInv, Finish
    PROVE  RInv'
<1> USE DEF Finish
<1>0. /\ ReaderTypeOK /\ TodoInv /\ CountInv /\ CoverInv /\ DamageInv
      /\ IInv' /\ OneChunk' /\ TypeOK /\ UNCHANGED <<disk, pc, kind, stamp, outcome>>
  BY FilesSame DEF RInv
<1>1. rpc' \in Ended \ {"failed"} /\ rpc' \notin Kinds /\ ~InFile'
  BY KindNames DEF Ended, InFile
<1>2. ReaderTypeOK' /\ TodoInv' /\ ScanInv'
  BY <1>0, <1>1, KindNames DEF ReaderTypeOK, TodoInv, ScanInv, Ended
<1>3. CountInv'
  BY <1>0, <1>1 DEF CountInv, CountedOnce, CountedCalls, Ended
<1>4. Range(todo) = {} /\ \A k \in Kinds, d \in Days : ~Ahead(k, d)
  BY DEF Range, Ahead
<1>5. CoverInv'
  <2> SUFFICES ASSUME NEW c \in before
               PROVE  /\ outcome[c] = "ok"
                      /\ c \in CountedCalls(kind[c]) \/ (rpc' = "empty" /\ kind[c] = "notifications")
    <3>1. \A c \in before : CountedCalls(kind[c])' = CountedCalls(kind[c])
      BY <1>0 DEF CountedCalls
    <3> QED BY <1>0, <3>1 DEF CoverInv
  <2>1. c \in Calls
    BY <1>0 DEF ReaderTypeOK
  <2>2. kind[c] \in Kinds /\ stamp[c] \in Days
    BY <1>0, <2>1 DEF TypeOK
  <2> QED BY <1>0, <1>4, <2>2 DEF CoverInv
<1>6. DamageInv'
  BY <1>0, <1>4 DEF DamageInv
<1> QED BY <1>0, <1>2, <1>3, <1>5, <1>6 DEF RInv

(* One more call of the current kind is counted, for the first time. *)
LEMMA CountOne ==
    ASSUME ReaderTypeOK, CountedOnce, rpc \in Kinds, NEW c \in Calls, kind[c] = rpc,
           c \notin CountedCalls(rpc), UNCHANGED kind,
           counted' = [counted EXCEPT ![rpc] = Append(@, c)]
    PROVE  /\ counted' \in [Kinds -> Seq(Calls)]
           /\ CountedOnce'
           /\ \A k \in Kinds : CountedCalls(k)' =
                 IF k = rpc THEN CountedCalls(k) \cup {c} ELSE CountedCalls(k)
           /\ \A k \in Kinds : k # rpc => counted'[k] = counted[k]
<1> DEFINE f == counted[rpc]
           g == Append(f, c)
<1>1. f \in Seq(Calls)
  BY CountedFacts
<1>2. /\ g \in Seq(Calls) /\ Len(f) \in Nat /\ DOMAIN f = 1 .. Len(f)
      /\ DOMAIN g = 1 .. Len(f) + 1 /\ g[Len(f) + 1] = c
      /\ \A i \in 1 .. Len(f) : g[i] = f[i]
  BY <1>1, AppendFacts
<1>3. counted'[rpc] = g /\ \A k \in Kinds : k # rpc => counted'[k] = counted[k]
  BY DEF ReaderTypeOK
<1>4. counted' \in [Kinds -> Seq(Calls)]
  BY <1>2 DEF ReaderTypeOK
<1>5. Range(f) = CountedCalls(rpc) /\ IsInjective(f)
  BY DEF CountedCalls, CountedOnce
<1>6. Range(g) = Range(f) \cup {c}
  <2> HIDE DEF f, g
  <2>1. \A i \in 1 .. Len(f) + 1 : i \in 1 .. Len(f) \/ i = Len(f) + 1
    BY <1>2
  <2>2. Len(f) + 1 \in 1 .. Len(f) + 1 /\ \A i \in 1 .. Len(f) : i \in 1 .. Len(f) + 1
    BY <1>2
  <2>3. Range(g) \subseteq Range(f) \cup {c}
    BY <1>2, <2>1 DEF Range
  <2>4. Range(f) \subseteq Range(g)
    BY <1>2, <2>2 DEF Range
  <2>5. c \in Range(g)
    BY <1>2, <2>2 DEF Range
  <2> QED BY <2>3, <2>4, <2>5
<1>7. IsInjective(g)
  <2>1. \A i \in 1 .. Len(f) : f[i] # c
    BY <1>2, <1>5 DEF Range
  <2> HIDE DEF f, g
  <2>2. \A i \in 1 .. Len(f) + 1 : i \in 1 .. Len(f) \/ i = Len(f) + 1
    BY <1>2
  <2> QED BY <1>2, <1>5, <2>1, <2>2 DEF IsInjective
<1>8. \A k \in Kinds : CountedCalls(k)' =
         IF k = rpc THEN CountedCalls(k) \cup {c} ELSE CountedCalls(k)
  <2> TAKE k \in Kinds
  <2>1. CountedCalls(k)' = Range(counted'[k])
    BY DEF CountedCalls
  <2>2. CASE k = rpc
    <3>1. counted'[k] = g /\ Range(g) = CountedCalls(rpc) \cup {c}
      BY <1>3, <1>5, <1>6, <2>2
    <3> QED BY <2>1, <2>2, <3>1, Zenon
  <2>3. CASE k # rpc
    <3>1. counted'[k] = counted[k]
      BY <1>3, <2>3
    <3>2. CountedCalls(k)' = CountedCalls(k)
      BY <2>1, <3>1, Zenon DEF CountedCalls
    <3> QED BY <2>3, <3>2, Zenon
  <2> QED BY <2>2, <2>3
<1>9. CountedOnce'
  <2> SUFFICES ASSUME NEW k \in Kinds
               PROVE  IsInjective(counted'[k]) /\ \A b \in CountedCalls(k)' : kind[b] = k
    BY DEF CountedOnce
  <2>1. IsInjective(counted'[k])
    BY <1>3, <1>7 DEF CountedOnce
  <2>2. \A b \in CountedCalls(k)' : kind[b] = k
    BY <1>8 DEF CountedOnce
  <2> QED BY <2>1, <2>2
<1> QED BY <1>3, <1>4, <1>8, <1>9

(* Inside a file: a chunk of part "line" that is read next is whole and    *)
(* not counted yet.                                                        *)
LEMMA ChunkAhead ==
    ASSUME RInv, InFile, NEW i \in 1 .. Len(File), i > Whole
    PROVE  /\ File[i].call \in Calls \ CountedCalls(rpc)
           /\ kind[File[i].call] = rpc /\ stamp[File[i].call] = Head(todo)
           /\ pc[File[i].call] = "done"
<1>0. /\ IInv /\ TypeOK /\ ReaderTypeOK /\ TodoInv /\ OneChunk /\ ScanInv /\ CountInv
  BY DEF RInv, IInv
<1>1. /\ rpc \in Kinds /\ Head(todo) \in Days /\ Len(File) \in Nat /\ DOMAIN File = 1 .. Len(File)
      /\ File[i].call \in Calls
  BY <1>0, InFileFacts
<1> DEFINE c == File[i].call
<1>2. File = disk[rpc][Head(todo)]
  BY DEF File
<1>3. kind[c] = rpc /\ stamp[c] = Head(todo)
  BY <1>0, <1>1, <1>2 DEF IInv, RightFile
<1>4. pc[c] = "done"
  BY <1>0, <1>1, <1>2 DEF IInv, Fresh, ChunkOf
<1>5. c \notin CountedCalls(rpc)
  <2> SUFFICES ASSUME c \in CountedCalls(rpc) PROVE FALSE
    OBVIOUS
  <2>1. PICK j \in 1 .. Whole : File[j].call = c
    BY <1>0, <1>3 DEF CountInv
  <2>2. /\ pos \in Nat /\ Len(buf) \in Nat /\ Len(buf) <= pos /\ pos <= Len(File)
    BY <1>0, InFileFacts DEF ReaderTypeOK, ScanInv
  <2>3. j \in 1 .. Len(File) /\ i # j
    BY <1>1, <2>2 DEF Whole
  <2>4. \A a, b \in DOMAIN File : File[a].call = File[b].call => a = b
    BY <1>0, <1>1, <1>2 DEF OneChunk
  <2> QED BY <1>1, <2>1, <2>3, <2>4
<1> QED BY <1>1, <1>3, <1>4, <1>5

(* A line of one chunk is decoded and counted, or it ends the report. *)
LEMMA ConsumeFacts ==
    ASSUME NEW line, Consume(line)
    PROVE  \/ /\ Len(line) = 1 /\ line[1].part # "torn"
              /\ counted' = [counted EXCEPT ![rpc] = Append(@, line[1].call)]
              /\ rpc' = rpc
           \/ rpc' = "failed" /\ counted' = counted
  BY DEF Consume, Decodes

(* What holds of the files and of the reader before and after a step that  *)
(* only the reader takes.                                                  *)
LEMMA ReaderStepFacts ==
    ASSUME RInv, UNCHANGED vars
    PROVE  /\ IInv /\ TypeOK /\ ReaderTypeOK /\ OneChunk /\ TodoInv
           /\ ScanInv /\ CountInv /\ CoverInv /\ DamageInv
           /\ IInv' /\ OneChunk' /\ UNCHANGED <<disk, fds, pc, kind, stamp, outcome>>
  BY FilesSame DEF RInv

LEMMA ReaderNumbers ==
    ASSUME RInv, InFile
    PROVE  /\ pos \in Nat /\ Len(buf) \in Nat /\ Len(File) \in Nat
           /\ Len(buf) <= pos /\ pos <= Len(File) /\ Whole \in Nat /\ Whole <= pos
           /\ Whole + Len(buf) = pos
<1>1. TypeOK /\ ReaderTypeOK /\ TodoInv /\ ScanInv
  BY DEF RInv, IInv
<1>2. pos \in Nat /\ Len(buf) \in Nat /\ Len(File) \in Nat /\ Len(buf) <= pos /\ pos <= Len(File)
  BY <1>1, InFileFacts DEF ReaderTypeOK, ScanInv
<1> QED BY <1>2 DEF Whole

(* A chunk without a newline joins the line that is being collected. *)
LEMMA CollectStep ==
    ASSUME RInv, InFile, pos < Len(File), File[pos + 1].part # "line",
           buf' = Append(buf, File[pos + 1]), pos' = pos + 1,
           UNCHANGED <<vars, rpc, todo, counted, before, damaged>>
    PROVE  RInv'
<1> DEFINE x == File[pos + 1]
<1>0. /\ IInv /\ TypeOK /\ ReaderTypeOK /\ OneChunk /\ TodoInv
      /\ ScanInv /\ CountInv /\ CoverInv /\ DamageInv
      /\ IInv' /\ OneChunk' /\ UNCHANGED <<disk, pc, kind, stamp, outcome>>
  BY ReaderStepFacts
<1>1. /\ pos \in Nat /\ Len(buf) \in Nat /\ Len(File) \in Nat
      /\ Len(buf) <= pos /\ pos <= Len(File) /\ Whole \in Nat /\ Whole <= pos
      /\ Whole + Len(buf) = pos
  BY ReaderNumbers
<1>2. pos + 1 \in 1 .. Len(File) /\ rpc \in Kinds /\ x \in Chunks
  <2>1. pos + 1 \in 1 .. Len(File)
    BY <1>1
  <2> QED BY <1>0, <2>1, InFileFacts
<1>3. /\ Append(buf, x) \in Seq(Chunks) /\ Len(Append(buf, x)) = Len(buf) + 1
      /\ \A i \in 1 .. Len(buf) : Append(buf, x)[i] = buf[i]
      /\ Append(buf, x)[Len(buf) + 1] = x
  BY <1>0, <1>2, AppendFacts DEF ReaderTypeOK
<1>4. Len(buf') = Len(buf) + 1 /\ buf' \in Seq(Chunks)
      /\ (\A i \in 1 .. Len(buf) : buf'[i] = buf[i]) /\ buf'[Len(buf) + 1] = x
  BY <1>3, Zenon
<1>5. Whole' = Whole /\ File' = File /\ InFile' = InFile /\ CountedCalls(rpc)' = CountedCalls(rpc)
  <2>1. Whole' = pos' - Len(buf')
    BY Zenon DEF Whole
  <2>2. pos' - Len(buf') = (pos + 1) - (Len(buf) + 1)
    BY <1>4, Zenon
  <2>3. Whole' = Whole
    BY <1>1, <2>1, <2>2
  <2> QED BY <1>0, <2>3 DEF File, InFile, CountedCalls
<1>6. ReaderTypeOK'
  BY <1>0, <1>1, <1>4 DEF ReaderTypeOK
<1>7. TodoInv'
  BY <1>0, KindNames DEF TodoInv, InFile
<1>8. ScanInv'
  <2>1. pos' <= Len(File)' /\ Len(buf)' <= pos'
    BY <1>1, <1>4, <1>5
  <2>2. ASSUME NEW i \in 1 .. Len(buf) + 1
        PROVE  buf'[i] = File[Whole + i] /\ buf'[i].part # "line"
    <3>1. CASE i \in 1 .. Len(buf)
      BY <1>0, <1>4, <3>1 DEF ScanInv
    <3>2. CASE i = Len(buf) + 1
      <4>1. Whole + i = pos + 1
        BY <1>1, <3>2
      <4> QED BY <1>4, <3>2, <4>1
    <3> QED BY <1>1, <3>1, <3>2
  <2>3. \A i \in 1 .. Whole : File[i].part = "line" /\ File[i].call \in CountedCalls(rpc)
    BY <1>0 DEF ScanInv
  <2>4. \A i \in 1 .. Len(buf)' : buf'[i] = File'[Whole' + i] /\ buf'[i].part # "line"
    BY <1>4, <1>5, <2>2
  <2>5. \A i \in 1 .. Whole' : File'[i].part = "line" /\ File'[i].call \in CountedCalls(rpc)'
    BY <1>5, <2>3
  <2> QED BY <2>1, <2>4, <2>5 DEF ScanInv
<1>9. CountInv'
  BY <1>0, <1>5 DEF CountInv, CountedOnce, CountedCalls
<1>10. CoverInv' /\ DamageInv'
  BY <1>0 DEF CoverInv, DamageInv, Ahead, CountedCalls
<1> QED BY <1>0, <1>6, <1>7, <1>8, <1>9, <1>10 DEF RInv

(* A whole line is read where a line begins: its call is counted. *)
LEMMA CountStep ==
    ASSUME RInv, InFile, pos < Len(File), File[pos + 1].part = "line", buf = <<>>,
           counted' = [counted EXCEPT ![rpc] = Append(@, File[pos + 1].call)],
           pos' = pos + 1, UNCHANGED <<vars, rpc, todo, buf, before, damaged>>
    PROVE  RInv'
<1> DEFINE c == File[pos + 1].call
<1>0. /\ IInv /\ TypeOK /\ ReaderTypeOK /\ OneChunk /\ TodoInv
      /\ ScanInv /\ CountInv /\ CoverInv /\ DamageInv
      /\ IInv' /\ OneChunk' /\ UNCHANGED <<disk, pc, kind, stamp, outcome>>
  BY ReaderStepFacts
<1>1. pos \in Nat /\ Len(buf) = 0 /\ Len(File) \in Nat /\ Whole = pos
  <2>1. Len(buf) = 0
    BY EmptySeq
  <2> QED BY <2>1, ReaderNumbers
<1>2. pos + 1 \in 1 .. Len(File) /\ pos + 1 > Whole /\ rpc \in Kinds
      /\ Head(todo) \notin Range(Tail(todo))
  <2>1. pos + 1 \in 1 .. Len(File) /\ pos + 1 > Whole
    BY <1>1
  <2> QED BY <1>0, <2>1, InFileFacts
<1>3. /\ c \in Calls \ CountedCalls(rpc) /\ kind[c] = rpc /\ stamp[c] = Head(todo)
      /\ pc[c] = "done"
  BY <1>2, ChunkAhead
<1>4. /\ counted' \in [Kinds -> Seq(Calls)] /\ CountedOnce'
      /\ \A k \in Kinds : CountedCalls(k)' =
            IF k = rpc THEN CountedCalls(k) \cup {c} ELSE CountedCalls(k)
      /\ \A k \in Kinds : k # rpc => counted'[k] = counted[k]
  <2>1. CountedOnce /\ UNCHANGED kind
    BY <1>0 DEF CountInv
  <2> HIDE DEF c
  <2>2. c \in Calls /\ c \notin CountedCalls(rpc) /\ kind[c] = rpc
    BY <1>3
  <2>3. counted' = [counted EXCEPT ![rpc] = Append(@, c)]
    BY DEF c
  <2> QED BY <1>0, <1>2, <2>1, <2>2, <2>3, CountOne
<1>5. Whole' = pos + 1 /\ File' = File /\ InFile'
  <2>1. Whole' = pos' - Len(buf')
    BY Zenon DEF Whole
  <2>2. pos' - Len(buf') = (pos + 1) - 0
    BY <1>1, Zenon
  <2>3. Whole' = pos + 1
    BY <1>1, <2>1, <2>2
  <2> QED BY <1>0, <2>3 DEF File, InFile
<1>6. CountedCalls(rpc)' = CountedCalls(rpc) \cup {c}
  BY <1>2, <1>4 DEF CountedCalls
<1>7. ReaderTypeOK' /\ TodoInv'
  BY <1>0, <1>1, <1>4, KindNames DEF ReaderTypeOK, TodoInv, InFile
<1>8. ScanInv'
  <2>1. pos' <= Len(File)' /\ Len(buf)' <= pos' /\ 1 .. Len(buf)' = {}
    <3>1. Len(buf)' = 0 /\ pos' = pos + 1 /\ Len(File)' = Len(File)
      BY <1>1, <1>5
    <3> QED BY <1>1, <3>1
  <2>2. ASSUME NEW i \in 1 .. pos + 1
        PROVE  File[i].part = "line" /\ File[i].call \in CountedCalls(rpc) \cup {c}
    <3>1. CASE i \in 1 .. pos
      BY <1>0, <1>1, <3>1 DEF ScanInv
    <3>2. CASE i = pos + 1
      BY <3>2
    <3> QED BY <1>1, <3>1, <3>2
  <2>3. \A i \in 1 .. Whole' : File'[i].part = "line" /\ File'[i].call \in CountedCalls(rpc)'
    BY <1>5, <1>6, <2>2
  <2> QED BY <2>1, <2>3 DEF ScanInv
<1>9. CountInv'
  <2>1. \A k \in Kinds : \A b \in CountedCalls(k)' : pc'[b] # "new"
    BY <1>0, <1>3, <1>4 DEF CountInv
  <2>2. /\ rpc' \in {"idle", "auctions"} => counted'["notifications"] = <<>>
        /\ rpc' \in {"idle", "empty"} => counted'["auctions"] = <<>>
    BY <1>0, <1>2, <1>4 DEF CountInv, Kinds
  <2>3. ASSUME NEW b \in CountedCalls(rpc)'
        PROVE  /\ stamp'[b] \notin Range(Tail(todo'))
               /\ stamp'[b] = Head(todo') => \E i \in 1 .. Whole' : File'[i].call = b
    <3>1. CASE b \in CountedCalls(rpc)
      <4>1. /\ stamp[b] \notin Range(Tail(todo))
            /\ stamp[b] = Head(todo) => \E i \in 1 .. Whole : File[i].call = b
        BY <1>0, <3>1 DEF CountInv
      <4>2. \A i \in 1 .. Whole : i \in 1 .. Whole'
        BY <1>1, <1>5
      <4> QED BY <1>0, <1>5, <4>1, <4>2
    <3>2. CASE b = c
      <4>1. pos + 1 \in 1 .. Whole' /\ File'[pos + 1].call = b
        BY <1>1, <1>5, <3>2
      <4>2. stamp'[b] \notin Range(Tail(todo'))
        BY <1>0, <1>2, <1>3, <3>2
      <4> QED BY <4>1, <4>2
    <3> QED BY <1>6, <3>1, <3>2
  <2> QED BY <1>4, <2>1, <2>2, <2>3 DEF CountInv
<1>10. CoverInv'
  <2> SUFFICES ASSUME NEW b \in before
               PROVE  /\ outcome[b] = "ok"
                      /\ \/ b \in CountedCalls(kind[b])'
                         \/ Ahead(kind[b], stamp[b])
    BY <1>0 DEF CoverInv, Ahead, CountedCalls
  <2>1. b \in Calls /\ rpc # "failed" /\ rpc # "empty"
    BY <1>0, <1>2 DEF ReaderTypeOK, Kinds
  <2>2. kind[b] \in Kinds
    BY <1>0, <2>1 DEF TypeOK
  <2>3. outcome[b] = "ok" /\ (b \in CountedCalls(kind[b]) \/ Ahead(kind[b], stamp[b]))
    BY <1>0, <2>1 DEF CoverInv
  <2>4. CountedCalls(kind[b])' = Range(counted'[kind[b]])
    BY <1>0 DEF CountedCalls
  <2>5. \A k \in Kinds : CountedCalls(k) \subseteq Range(counted'[k])
    BY <1>4 DEF CountedCalls
  <2> QED BY <2>2, <2>3, <2>4, <2>5
<1>11. DamageInv'
  BY <1>0 DEF DamageInv, Ahead
<1> QED BY <1>0, <1>7, <1>8, <1>9, <1>10, <1>11 DEF RInv

LEMMA ScanStep ==
    ASSUME RInv, Scan
    PROVE  RInv'
<1> DEFINE x == File[pos + 1]
<1>0. /\ InFile /\ pos < Len(File) /\ pos' = pos + 1 /\ UNCHANGED <<vars, todo, before, damaged>>
      /\ IF x.part = "line"
         THEN Consume(Append(buf, x)) /\ buf' = <<>>
         ELSE buf' = Append(buf, x) /\ UNCHANGED <<rpc, counted>>
  BY Zenon DEF Scan, InFile
<1>1. ReaderTypeOK /\ TodoInv /\ TypeOK
  BY DEF RInv, IInv
<1>2. pos \in Nat /\ pos + 1 \in 1 .. Len(File) /\ x \in Chunks
  <2>1. pos \in Nat /\ pos + 1 \in 1 .. Len(File)
    BY <1>0, ReaderNumbers
  <2> QED BY <1>0, <1>1, <2>1, InFileFacts
<1>3. CASE x.part # "line"
  BY <1>0, <1>3, CollectStep
<1>4. CASE x.part = "line"
  <2>1. Consume(Append(buf, x)) /\ buf' = <<>>
    BY <1>0, <1>4
  <2>2. /\ Len(Append(buf, x)) = Len(buf) + 1 /\ Len(buf) \in Nat
        /\ Append(buf, x)[Len(buf) + 1] = x
    BY <1>1, <1>2, AppendFacts DEF ReaderTypeOK
  <2>3. CASE rpc' = "failed" /\ counted' = counted
    <3>1. todo' \in Seq(Days) /\ IsInjective(todo') /\ pos' \in Nat /\ buf' \in Seq(Chunks)
      BY <1>0, <1>1, <1>2, <2>1 DEF ReaderTypeOK, TodoInv
    <3> QED BY <1>0, <2>3, <3>1, FailedStep
  <2>4. CASE /\ Len(Append(buf, x)) = 1
             /\ counted' = [counted EXCEPT ![rpc] = Append(@, Append(buf, x)[1].call)]
             /\ rpc' = rpc
    <3>1. Len(buf) = 0
      BY <2>2, <2>4
    <3>2. buf = <<>>
      BY <1>1, <3>1, EmptySeq DEF ReaderTypeOK
    <3>3. Append(buf, x)[1] = x
      BY <2>2, <3>1
    <3>4. counted' = [counted EXCEPT ![rpc] = Append(@, x.call)]
      BY <2>4, <3>3, Zenon
    <3> QED BY <1>0, <1>4, <2>1, <2>4, <3>2, <3>4, CountStep
  <2> QED BY <2>1, <2>3, <2>4, ConsumeFacts
<1> QED BY <1>3, <1>4

(* A file is finished and nothing of it was dropped: D is what its last    *)
(* line, one without a newline, adds to the calls that are counted.        *)
LEMMA FileDone ==
    ASSUME RInv, InFile, pos = Len(File), UNCHANGED <<vars, rpc, before, damaged>>,
           todo' = Tail(todo), pos' = 0, buf' = <<>>,
           Len(buf) <= 1, Len(buf) = 1 => buf[1].part # "torn",
           NEW D, D \subseteq Calls,
           \A c \in D : pc[c] # "new" /\ stamp[c] = Head(todo),
           counted' \in [Kinds -> Seq(Calls)], CountedOnce',
           \A k \in Kinds : Range(counted'[k]) =
               IF k = rpc THEN CountedCalls(k) \cup D ELSE CountedCalls(k),
           \A k \in Kinds : k # rpc => counted'[k] = counted[k]
    PROVE  RInv'
<1>0. /\ IInv /\ TypeOK /\ ReaderTypeOK /\ OneChunk /\ TodoInv
      /\ ScanInv /\ CountInv /\ CoverInv /\ DamageInv
      /\ IInv' /\ OneChunk' /\ UNCHANGED <<disk, pc, kind, stamp, outcome>>
  BY ReaderStepFacts
<1>1. /\ pos \in Nat /\ Len(buf) \in Nat /\ Len(File) \in Nat /\ pos <= Len(File)
      /\ Whole \in Nat /\ Whole <= pos /\ Whole + Len(buf) = pos
  BY ReaderNumbers
<1>2. /\ rpc \in Kinds /\ Head(todo) \in Days /\ Tail(todo) \in Seq(Days)
      /\ DOMAIN File = 1 .. Len(File)
      /\ Range(todo) = {Head(todo)} \cup Range(Tail(todo))
      /\ Head(todo) \notin Range(Tail(todo)) /\ IsInjective(Tail(todo))
  BY <1>0, InFileFacts
<1>3. ASSUME NEW i \in 1 .. Len(File)
      PROVE  \/ i \in 1 .. Whole /\ File[i].part = "line" /\ File[i].call \in CountedCalls(rpc)
             \/ i = Len(File) /\ Len(buf) = 1 /\ File[i] = buf[1] /\ buf[1].part # "line"
  <2>1. CASE i <= Whole
    BY <1>0, <1>1, <2>1 DEF ScanInv
  <2>2. CASE i > Whole
    <3>1. Len(buf) = 1 /\ i = Len(File) /\ Whole + 1 = i
      <4> DEFINE n == Len(buf)
                 m == Len(File)
                 w == Whole
      <4>1. /\ n \in Nat /\ m \in Nat /\ w \in Nat /\ w + n = m /\ n <= 1
            /\ i \in 1 .. m /\ i > w
        BY <1>1, <2>2
      <4> HIDE DEF n, m, w
      <4>2. n = 1 /\ i = m /\ w + 1 = i
        BY <4>1
      <4> QED BY <4>2 DEF n, m, w
    <3>2. 1 \in 1 .. Len(buf)
      BY <3>1
    <3>3. buf[1] = File[Whole + 1] /\ buf[1].part # "line"
      BY <1>0, <3>2 DEF ScanInv
    <3> QED BY <3>1, <3>3
  <2> QED BY <1>1, <2>1, <2>2
<1>4. \A k \in Kinds : CountedCalls(k) \subseteq Range(counted'[k])
  OBVIOUS
<1>5. \A k \in Kinds : CountedCalls(k)' = Range(counted'[k])
  BY DEF CountedCalls
<1>6. ReaderTypeOK'
  BY <1>0, <1>2 DEF ReaderTypeOK
<1>7. TodoInv'
  BY <1>0, <1>2, KindNames DEF TodoInv
<1>8. ScanInv'
  <2>1. (TypeOK /\ ReaderTypeOK /\ pos = 0 /\ buf = <<>>)'
    BY <1>0, <1>6 DEF IInv
  <2> QED BY <2>1, FileBegins, PTL
<1>9. CountInv'
  <2>1. \A k \in Kinds : \A b \in CountedCalls(k)' : pc'[b] # "new"
    <3>1. \A k \in Kinds : \A b \in Range(counted'[k]) : b \in CountedCalls(k) \/ b \in D
      OBVIOUS
    <3> QED BY <1>0, <1>5, <3>1 DEF CountInv
  <2>2. /\ rpc' \in {"idle", "auctions"} => counted'["notifications"] = <<>>
        /\ rpc' \in {"idle", "empty"} => counted'["auctions"] = <<>>
    BY <1>0, <1>2 DEF CountInv, Kinds
  <2>3. ASSUME InFile', NEW b \in CountedCalls(rpc)'
        PROVE  stamp'[b] \notin Range(Tail(todo')) /\ stamp'[b] # Head(todo')
    <3>1. b \in CountedCalls(rpc) \/ b \in D
      <4>1. CountedCalls(rpc)' = Range(counted'[rpc])
        BY DEF CountedCalls
      <4> QED BY <1>2, <2>3, <4>1
    <3>2. stamp[b] \notin Range(Tail(todo))
      BY <1>0, <1>2, <3>1 DEF CountInv
    <3>3. Range(Tail(todo)) = {Head(Tail(todo))} \cup Range(Tail(Tail(todo)))
      BY <1>2, <2>3, ListFacts DEF InFile
    <3> QED BY <1>0, <3>2, <3>3
  <2> QED BY <2>1, <2>2, <2>3 DEF CountInv
<1>10. CoverInv'
  <2> SUFFICES ASSUME NEW b \in before
               PROVE  /\ outcome[b] = "ok"
                      /\ \/ b \in Range(counted'[kind[b]])
                         \/ Ahead(kind[b], stamp[b])'
    BY <1>0 DEF CoverInv, Ahead, CountedCalls
  <2>1. b \in Calls /\ rpc # "failed" /\ rpc # "empty"
    BY <1>0, <1>2 DEF ReaderTypeOK, Kinds
  <2>2. outcome[b] = "ok" /\ (b \in CountedCalls(kind[b]) \/ Ahead(kind[b], stamp[b]))
    BY <1>0, <2>1 DEF CoverInv
  <2>3. kind[b] \in Kinds /\ stamp[b] \in Days
    BY <1>0, <2>1 DEF TypeOK
  <2>4. CASE b \in CountedCalls(kind[b])
    BY <1>4, <2>2, <2>3, <2>4
  <2>5. CASE rpc = kind[b] /\ stamp[b] = Head(todo)
    <3>1. PICK i \in 1 .. Len(File) : File[i].call = b /\ File[i].part = "line"
      BY <1>0, <2>1, <2>2, <2>5, AcknowledgedLine DEF File
    <3>2. b \in CountedCalls(rpc)
      BY <1>3, <3>1
    <3> QED BY <1>4, <2>2, <2>3, <2>5, <3>2
  <2>6. CASE Ahead(kind[b], stamp[b]) /\ ~(rpc = kind[b] /\ stamp[b] = Head(todo))
    BY <1>0, <1>2, <2>2, <2>6 DEF Ahead
  <2> QED BY <2>2, <2>4, <2>5, <2>6
<1>11. DamageInv'
  <2> SUFFICES ASSUME damaged
               PROVE  \E k \in Kinds, d \in Days : Damaged(disk[k][d]) /\ Ahead(k, d)'
    BY <1>0 DEF DamageInv
  <2>1. rpc # "failed"
    BY <1>2 DEF Kinds
  <2>2. PICK k \in Kinds, d \in Days : Damaged(disk[k][d]) /\ Ahead(k, d)
    BY <1>0, <2>1 DEF DamageInv
  <2>3. ~Damaged(File)
    <3> SUFFICES ASSUME NEW i \in 1 .. Len(File)
                 PROVE  ~(File[i].part = "torn" \/ (File[i].part = "text" /\ i < Len(File)))
      BY <1>2 DEF Damaged
    <3> QED BY <1>1, <1>3
  <2>4. ~(rpc = k /\ d = Head(todo))
    BY <2>2, <2>3 DEF File
  <2>5. Ahead(k, d)'
    BY <1>2, <2>2, <2>4 DEF Ahead
  <2> QED BY <2>2, <2>5
<1> QED BY <1>0, <1>6, <1>7, <1>8, <1>9, <1>10, <1>11 DEF RInv

(* The last line of a file, one without a newline, is counted. *)
LEMMA LastLineStep ==
    ASSUME RInv, InFile, pos = Len(File), UNCHANGED <<vars, rpc, before, damaged>>,
           todo' = Tail(todo), pos' = 0, buf' = <<>>,
           Len(buf) <= 1, Len(buf) = 1 => buf[1].part # "torn",
           NEW c \in Calls \ CountedCalls(rpc),
           kind[c] = rpc, stamp[c] = Head(todo), pc[c] # "new",
           counted' = [counted EXCEPT ![rpc] = Append(@, c)]
    PROVE  RInv'
<1>1. ReaderTypeOK /\ CountedOnce /\ UNCHANGED kind /\ rpc \in Kinds
  BY ReaderStepFacts DEF CountInv, InFile
<1>2. /\ counted' \in [Kinds -> Seq(Calls)] /\ CountedOnce'
      /\ \A k \in Kinds : CountedCalls(k)' =
            IF k = rpc THEN CountedCalls(k) \cup {c} ELSE CountedCalls(k)
      /\ \A k \in Kinds : k # rpc => counted'[k] = counted[k]
  BY <1>1, CountOne
<1>3. \A k \in Kinds : Range(counted'[k]) =
         IF k = rpc THEN CountedCalls(k) \cup {c} ELSE CountedCalls(k)
  BY <1>2 DEF CountedCalls
<1>4. {c} \subseteq Calls /\ \A b \in {c} : pc[b] # "new" /\ stamp[b] = Head(todo)
  OBVIOUS
<1> HIDE DEF IsInjective
<1> QED BY <1>2, <1>3, <1>4, FileDone

LEMMA EndOfFileStep ==
    ASSUME RInv, EndOfFile
    PROVE  RInv'
<1>0. /\ InFile /\ pos = Len(File) /\ UNCHANGED <<vars, before, damaged>>
      /\ todo' = Tail(todo) /\ pos' = 0 /\ buf' = <<>>
  BY Zenon DEF EndOfFile, InFile
<1>1. PICK seen \in {<<>>} \cup {<<x>> : x \in HalfWritten} :
         IF buf \o seen = <<>> THEN UNCHANGED <<rpc, counted>> ELSE Consume(buf \o seen)
  BY Zenon DEF EndOfFile
<1>2. /\ IInv /\ TypeOK /\ ReaderTypeOK /\ OneChunk /\ TodoInv
      /\ ScanInv /\ CountInv
  BY <1>0, ReaderStepFacts
<1>3. /\ pos \in Nat /\ Len(buf) \in Nat /\ Len(File) \in Nat /\ Whole \in Nat
      /\ Whole + Len(buf) = pos
  BY <1>0, ReaderNumbers
<1>4. /\ rpc \in Kinds /\ Head(todo) \in Days /\ Tail(todo) \in Seq(Days)
      /\ IsInjective(Tail(todo)) /\ DOMAIN File = 1 .. Len(File)
  BY <1>0, <1>2, InFileFacts
<1>5. CASE rpc' = "failed" /\ counted' = counted
  <2>1. todo' \in Seq(Days) /\ IsInjective(todo') /\ pos' \in Nat /\ buf' \in Seq(Chunks)
    BY <1>0, <1>4
  <2> QED BY <1>0, <1>5, <2>1, FailedStep
<1>6. CASE buf = <<>> /\ UNCHANGED <<rpc, counted>>
  <2>1. Len(buf) = 0
    BY <1>6, EmptySeq
  <2>2. /\ counted' \in [Kinds -> Seq(Calls)] /\ CountedOnce'
        /\ \A k \in Kinds : Range(counted'[k]) =
              IF k = rpc THEN CountedCalls(k) \cup {} ELSE CountedCalls(k)
    BY <1>0, <1>2, <1>6, ReaderStepFacts DEF ReaderTypeOK, CountInv, CountedOnce, CountedCalls
  <2>3. UNCHANGED <<vars, rpc, before, damaged>> /\ Len(buf) <= 1 /\ Len(buf) # 1
    BY <1>0, <1>6, <2>1
  <2>4. \A k \in Kinds : k # rpc => counted'[k] = counted[k]
    BY <1>6
  <2>5. {} \subseteq Calls /\ \A c \in {} : pc[c] # "new" /\ stamp[c] = Head(todo)
    OBVIOUS
  <2> QED BY <1>0, <2>2, <2>3, <2>4, <2>5, FileDone
<1>7. ASSUME NEW x, seen = <<x>>, x \in HalfWritten, buf = <<>>, rpc' = rpc,
             counted' = [counted EXCEPT ![rpc] = Append(@, x.call)]
      PROVE  RInv'
  <2>1. PICK c \in Calls : /\ pc[c] = "opened" /\ kind[c] = rpc /\ stamp[c] = Head(todo)
                           /\ x.call = c
    BY <1>7 DEF HalfWritten
  <2>2. Len(buf) = 0 /\ Whole = Len(File)
    <3>1. Len(buf) = 0
      BY <1>7, EmptySeq
    <3> QED BY <1>0, <1>3, <3>1
  <2>3. \A i \in 1 .. Whole : File[i].call # c
    BY <1>2, <1>4, <2>1, <2>2 DEF IInv, Fresh, ChunkOf, File
  <2>4. c \in Calls \ CountedCalls(rpc)
    BY <1>0, <1>2, <2>1, <2>3 DEF CountInv
  <2>5. counted' = [counted EXCEPT ![rpc] = Append(@, c)]
    BY <1>7, <2>1
  <2>6. UNCHANGED <<vars, rpc, before, damaged>> /\ Len(buf) <= 1 /\ Len(buf) # 1
    BY <1>0, <1>7, <2>2
  <2>7. kind[c] = rpc /\ stamp[c] = Head(todo) /\ pc[c] # "new"
    BY <2>1
  <2> QED BY <1>0, <2>4, <2>5, <2>6, <2>7, LastLineStep
<1>8. ASSUME Len(buf) = 1, buf[1].part # "torn", rpc' = rpc,
             counted' = [counted EXCEPT ![rpc] = Append(@, buf[1].call)]
      PROVE  RInv'
  <2>1. Len(File) \in 1 .. Len(File) /\ Len(File) > Whole /\ Whole + 1 = Len(File) /\ 1 \in 1 .. Len(buf)
    BY <1>0, <1>3, <1>8
  <2>2. buf[1] = File[Len(File)]
    BY <1>0, <1>2, <2>1 DEF ScanInv
  <2> DEFINE c == File[Len(File)].call
  <2>3. /\ c \in Calls \ CountedCalls(rpc) /\ kind[c] = rpc /\ stamp[c] = Head(todo)
        /\ pc[c] # "new"
    BY <1>0, <2>1, ChunkAhead
  <2>4. counted' = [counted EXCEPT ![rpc] = Append(@, c)]
    BY <1>8, <2>2
  <2> HIDE DEF c
  <2>5. /\ UNCHANGED <<vars, rpc, before, damaged>>
        /\ Len(buf) <= 1 /\ (Len(buf) = 1 => buf[1].part # "torn")
    BY <1>0, <1>8
  <2> QED BY <1>0, <2>3, <2>4, <2>5, LastLineStep
<1>9. CASE seen = <<>>
  <2>1. buf \o seen = buf
    BY <1>2, <1>9 DEF ReaderTypeOK
  <2>2. CASE buf = <<>>
    BY <1>1, <1>6, <2>1, <2>2
  <2>3. CASE buf # <<>>
    BY <1>1, <1>5, <1>8, <2>1, <2>3, ConsumeFacts
  <2> QED BY <2>2, <2>3
<1>10. CASE seen # <<>>
  <2>1. PICK x \in HalfWritten : seen = <<x>>
    BY <1>1, <1>10
  <2>2. Len(buf \o seen) = Len(buf) + 1 /\ (buf = <<>> => (buf \o seen)[1] = x)
    BY <1>2, <2>1 DEF ReaderTypeOK
  <2>3. buf \o seen # <<>>
    BY <1>3, <2>2, EmptySeq
  <2>4. Consume(buf \o seen)
    BY <1>1, <2>3
  <2>5. CASE /\ Len(buf \o seen) = 1 /\ rpc' = rpc
             /\ counted' = [counted EXCEPT ![rpc] = Append(@, (buf \o seen)[1].call)]
    <3>1. Len(buf) = 0
      BY <1>3, <2>2, <2>5
    <3>2. buf = <<>>
      BY <1>2, <3>1, EmptySeq DEF ReaderTypeOK
    <3>3. (buf \o seen)[1] = x
      BY <2>2, <3>2
    <3> QED BY <1>7, <2>1, <2>5, <3>2, <3>3
  <2> QED BY <1>5, <2>4, <2>5, ConsumeFacts
<1> QED BY <1>9, <1>10

LEMMA ReadFailsStep ==
    ASSUME RInv, ReadFails
    PROVE  RInv'
<1>1. ReaderTypeOK /\ TodoInv
  BY DEF RInv
<1>2. UNCHANGED <<vars, todo, pos, buf, counted, before, damaged>> /\ rpc' = "failed"
  BY Zenon DEF ReadFails
<1>3. todo' \in Seq(Days) /\ IsInjective(todo') /\ pos' \in Nat /\ buf' \in Seq(Chunks)
  BY <1>1, <1>2 DEF ReaderTypeOK, TodoInv
<1> QED BY <1>2, <1>3, FailedStep

-----------------------------------------------------------------------------
(* The invariant and what it says of the report. *)

LEMMA InitRInv == ReportInit => RInv
<1> SUFFICES ASSUME ReportInit PROVE RInv
  OBVIOUS
<1>1. /\ Init /\ rpc = "idle" /\ todo = <<>> /\ pos = 0 /\ buf = <<>>
      /\ counted = [k \in Kinds |-> <<>>] /\ before = {} /\ damaged = FALSE
  BY DEF ReportInit
<1>2. IInv
  BY <1>1, InitIInv
<1>3. ~InFile
  BY <1>1, KindNames DEF InFile
<1>4. \A k \in Kinds : counted[k] = <<>> /\ CountedCalls(k) = {} /\ IsInjective(counted[k])
  <2> TAKE k \in Kinds
  <2>1. counted[k] = <<>>
    BY <1>1
  <2>2. Range(<<>>) = {} /\ IsInjective(<<>>)
    BY DEF Range, IsInjective
  <2> QED BY <2>1, <2>2 DEF CountedCalls
<1>5. ReaderTypeOK
  <2>1. todo \in Seq(Days) /\ buf \in Seq(Chunks) /\ pos \in Nat
    BY <1>1
  <2>2. counted \in [Kinds -> Seq(Calls)]
    BY <1>1
  <2>3. rpc \in Kinds \cup Ended \cup {"idle"} /\ before \subseteq Calls /\ damaged \in BOOLEAN
    BY <1>1
  <2> QED BY <2>1, <2>2, <2>3 DEF ReaderTypeOK
<1>6. OneChunk
  BY <1>1 DEF OneChunk, Init
<1>7. TodoInv
  BY <1>1 DEF TodoInv, IsInjective
<1>8. ScanInv /\ CountInv
  BY <1>3, <1>4 DEF ScanInv, CountInv, CountedOnce, Kinds
<1>9. CoverInv /\ DamageInv
  BY <1>1 DEF CoverInv, DamageInv
<1> QED BY <1>2, <1>5, <1>6, <1>7, <1>8, <1>9 DEF RInv

LEMMA NextRInv == RInv /\ [ReportNext]_all => RInv'
<1> SUFFICES ASSUME RInv, [ReportNext]_all PROVE RInv'
  OBVIOUS
<1>1. CASE [Next]_vars /\ UNCHANGED reader
  BY <1>1, RecorderStep
<1>2. CASE StartReport
  BY <1>2, StartStep
<1>3. CASE Scan
  BY <1>3, ScanStep
<1>4. CASE EndOfFile
  BY <1>4, EndOfFileStep
<1>5. CASE ReadFails
  BY <1>5, ReadFailsStep
<1>6. CASE NextPattern
  BY <1>6, NextPatternStep
<1>7. CASE Finish
  BY <1>7, FinishStep
<1>8. CASE UNCHANGED all
  BY <1>1, <1>8 DEF all
<1> QED BY <1>1, <1>2, <1>3, <1>4, <1>5, <1>6, <1>7, <1>8 DEF ReportNext, ReportStep

LEMMA RInvExact == RInv => ReportExact
<1> SUFFICES ASSUME RInv PROVE ReportExact
  OBVIOUS
<1>1. ReaderTypeOK /\ TypeOK /\ CountInv /\ CoverInv /\ DamageInv
  BY DEF RInv, IInv
<1>2. ASSUME rpc \in {"printed", "empty"}
      PROVE  /\ \A k \in Kinds, d \in Days : ~Ahead(k, d)
             /\ rpc # "failed"
  BY <1>2, KindNames DEF Ahead, Ended
<1>3. NothingMissed
  <2>1. ASSUME NEW c \in before, rpc \in {"printed", "empty"}
        PROVE  c \in CountedCalls(kind[c]) \/ (rpc = "empty" /\ kind[c] = "notifications")
    <3>1. c \in Calls /\ kind[c] \in Kinds /\ stamp[c] \in Days
      BY <1>1 DEF ReaderTypeOK, TypeOK
    <3> QED BY <1>1, <1>2, <2>1, <3>1 DEF CoverInv
  <2>2. ASSUME rpc = "empty" PROVE \A c \in before : kind[c] = "notifications"
    <3>1. CountedCalls("auctions") = {}
      BY <1>1, <2>2, CountedFacts, KindNames DEF CountInv
    <3>2. \A c \in before : kind[c] \in {"auctions", "notifications"}
      BY <1>1, KindNames DEF ReaderTypeOK, TypeOK
    <3> QED BY <2>1, <2>2, <3>1, <3>2
  <2> QED BY <2>1, <2>2 DEF NothingMissed
<1>4. DamageReported
  BY <1>1, <1>2 DEF DamageReported, DamageInv
<1> QED BY <1>1, <1>3, <1>4 DEF ReportExact, CountInv

(* The report is exact or it fails, for any number of calls and days,      *)
(* whatever is appended, torn or lost while it reads: it never prints      *)
(* without a record that was acknowledged before it started, never counts  *)
(* one twice, and never prints over evidence that was damaged.             *)
THEOREM ReportIsExact == ReportSpec => []ReportExact
<1>1. ReportSpec => []RInv
  BY InitRInv, NextRInv, PTL DEF ReportSpec
<1> QED BY <1>1, RInvExact, PTL

-----------------------------------------------------------------------------
(* The numbers of a report. *)

Ascending(s) == \A i, j \in DOMAIN s : i <= j => s[i] <= s[j]

(* The recorded latencies stay in order, and the counts stay numbers. *)
SummaryInv ==
    /\ latencies \in Seq(Nat) /\ Ascending(latencies)
    /\ skipped \in [SkipKinds -> Nat]

(* The library's operators, as Summary sees them. *)
LEMMA SameOperators ==
    /\ \A S : Numbers!Cardinality(S) = Cardinality(S) /\ Numbers!IsFiniteSet(S) = IsFiniteSet(S)
    /\ \A f : Numbers!Range(f) = Range(f) /\ Numbers!IsInjective(f) = IsInjective(f)
    /\ \A s, i, e : Numbers!InsertAt(s, i, e) = InsertAt(s, i, e)
<1>1. \A S : Numbers!Cardinality(S) = Cardinality(S)
  BY DEF Numbers!Cardinality, Cardinality
<1>2. \A S : Numbers!IsFiniteSet(S) = IsFiniteSet(S)
  BY DEF Numbers!IsFiniteSet, IsFiniteSet
<1>3. \A f : Numbers!Range(f) = Range(f)
  BY DEF Numbers!Range, Range
<1>4. \A f : Numbers!IsInjective(f) = IsInjective(f)
  BY DEF Numbers!IsInjective, IsInjective
<1>5. \A s, i, e : Numbers!InsertAt(s, i, e) = InsertAt(s, i, e)
  BY DEF Numbers!InsertAt, InsertAt
<1> QED BY <1>1, <1>2, <1>3, <1>4, <1>5

(* How many of an ascending list do not exceed v: its first so many. *)
LEMMA FirstOnes ==
    ASSUME NEW s \in Seq(Nat), Ascending(s), NEW v \in Nat
    PROVE  \E k \in 0 .. Len(s) :
              /\ Cardinality({i \in DOMAIN s : s[i] <= v}) = k
              /\ \A i \in DOMAIN s : s[i] <= v <=> i <= k
<1> DEFINE n == Len(s)
           T == { i \in 1 .. n + 1 : i = n + 1 \/ s[i] > v }
<1>1. n \in Nat /\ DOMAIN s = 1 .. n
  OBVIOUS
<1> HIDE DEF n
<1>2. T \subseteq Nat /\ n + 1 \in T
  BY <1>1
<1>3. PICK m \in T : \A i \in T : m <= i
  BY <1>2, LeastNat
<1>4. m \in 1 .. n + 1 /\ m - 1 \in 0 .. n
  BY <1>1, <1>3
<1>5. ASSUME NEW i \in 1 .. n PROVE s[i] <= v <=> i <= m - 1
  <2>1. s[i] \in Nat /\ i \in 1 .. n + 1 /\ i # n + 1
    BY <1>1
  <2>2. ASSUME s[i] <= v, ~(i <= m - 1) PROVE FALSE
    <3>1. m <= i /\ m \in 1 .. n
      BY <1>1, <1>4, <2>2
    <3>2. s[m] > v /\ s[m] \in Nat
      BY <1>1, <1>3, <3>1
    <3>3. s[m] <= s[i]
      BY <1>1, <3>1 DEF Ascending
    <3> QED BY <2>1, <2>2, <3>2, <3>3
  <2>3. ASSUME i <= m - 1, ~(s[i] <= v) PROVE FALSE
    <3>1. i \in T
      BY <2>1, <2>3
    <3>2. m <= i
      BY <1>3, <3>1
    <3> QED BY <1>1, <1>4, <2>3, <3>2
  <2> QED BY <2>2, <2>3
<1>6. {i \in DOMAIN s : s[i] <= v} = 1 .. m - 1
  <2>1. \A i \in 1 .. m - 1 : i \in 1 .. n
    BY <1>1, <1>4
  <2> HIDE DEF T
  <2> QED BY <1>1, <1>5, <2>1
<1>7. Cardinality(1 .. m - 1) = m - 1
  <2>1. 1 \in Int /\ m - 1 \in Int
    BY <1>1, <1>4
  <2> QED BY <1>1, <1>4, <2>1, FS_Interval
<1> QED BY <1>1, <1>4, <1>5, <1>6, <1>7 DEF n

(* A value put in its place leaves the list in order. *)
LEMMA SortedAscends ==
    ASSUME NEW s \in Seq(Nat), Ascending(s), NEW v \in Nat
    PROVE  Numbers!Sorted(s, v) \in Seq(Nat) /\ Ascending(Numbers!Sorted(s, v))
<1>1. PICK k \in 0 .. Len(s) :
          /\ Cardinality({i \in DOMAIN s : s[i] <= v}) = k
          /\ \A i \in DOMAIN s : s[i] <= v <=> i <= k
  BY FirstOnes
<1> DEFINE n == Len(s)
           t == Numbers!Sorted(s, v)
           u == [i \in 1 .. n + 1 |-> IF i <= k THEN s[i] ELSE IF i = k + 1 THEN v ELSE s[i - 1]]
<1>2. n \in Nat /\ k \in Nat /\ k <= n /\ DOMAIN s = 1 .. n
  OBVIOUS
<1>3. t = (SubSeq(s, 1, k) \o <<v>>) \o SubSeq(s, k + 1, n)
  <2>1. t = InsertAt(s, k + 1, v)
    BY <1>1, SameOperators DEF Numbers!Sorted
  <2>2. (k + 1) - 1 = k
    OBVIOUS
  <2> QED BY <2>1, <2>2 DEF InsertAt
<1>4. t = u
  <2> DEFINE a == SubSeq(s, 1, k)
             b == SubSeq(s, k + 1, n)
             c == a \o <<v>>
  <2>1. a \in Seq(Nat) /\ Len(a) = k /\ \A i \in 1 .. k : a[i] = s[i]
    BY <1>2
  <2>2. b \in Seq(Nat) /\ Len(b) = n - k /\ \A i \in 1 .. n - k : b[i] = s[k + i]
    <3>0. \A i \in 1 .. n : s[i] \in Nat
      BY <1>2
    <3> HIDE DEF n
    <3>1. /\ k + 1 \in Int /\ n \in Int /\ \A i \in k + 1 .. n : s[i] \in Nat
          /\ (IF k + 1 <= n THEN n - (k + 1) + 1 ELSE 0) = n - k
          /\ n - (k + 1) + 1 = n - k /\ \A i \in Int : k + 1 + i - 1 = k + i
      BY <1>2, <3>0
    <3> HIDE DEF n
    <3> QED BY <3>1, SubSeqProperties
  <2> HIDE DEF a, b, n, t
  <2>3. t = c \o b
    BY <1>3 DEF a, b
  <2>4. /\ c \in Seq(Nat) /\ Len(c) = k + 1
        /\ \A i \in 1 .. k + 1 : c[i] = IF i <= k THEN s[i] ELSE v
    BY <1>2, <2>1
  <2> HIDE DEF c
  <2>5. /\ t \in Seq(Nat) /\ Len(t) = n + 1
        /\ \A i \in 1 .. n + 1 : t[i] = IF i <= k + 1 THEN c[i] ELSE b[i - (k + 1)]
    <3>1. (k + 1) + (n - k) = n + 1
      BY <1>2
    <3>2. /\ c \o b \in Seq(Nat) /\ Len(c \o b) = n + 1
          /\ \A i \in 1 .. n + 1 : (c \o b)[i] = IF i <= Len(c) THEN c[i] ELSE b[i - Len(c)]
      BY <2>2, <2>4, <3>1, ConcatProperties
    <3> QED BY <2>3, <2>4, <3>2
  <2>6. ASSUME NEW i \in 1 .. n + 1 PROVE t[i] = u[i]
    <3>0. k + 1 <= n + 1 /\ i \in Nat /\ 1 <= i
      BY <1>2
    <3>1. CASE i <= k + 1
      <4>1. i \in 1 .. k + 1 /\ (~(i <= k) => i = k + 1)
        BY <1>2, <3>0, <3>1
      <4>2. t[i] = IF i <= k THEN s[i] ELSE v
        BY <2>4, <2>5, <3>1, <4>1
      <4> QED BY <4>1, <4>2
    <3>2. CASE i > k + 1
      <4>1. /\ i - (k + 1) \in 1 .. n - k /\ k + (i - (k + 1)) = i - 1
            /\ ~(i <= k + 1) /\ ~(i <= k) /\ i # k + 1
        BY <1>2, <3>0, <3>2
      <4>2. t[i] = b[i - (k + 1)]
        BY <2>5, <4>1
      <4>3. b[i - (k + 1)] = s[i - 1]
        BY <2>2, <4>1
      <4> QED BY <4>1, <4>2, <4>3
    <3> QED BY <1>2, <3>0, <3>1, <3>2
  <2> HIDE DEF u
  <2>7. t = [i \in 1 .. n + 1 |-> t[i]]
    BY <2>5
  <2>8. u = [i \in 1 .. n + 1 |-> u[i]]
    BY DEF u
  <2> QED BY <2>6, <2>7, <2>8
<1> HIDE DEF n, t
<1>5. \A i \in 1 .. n : s[i] \in Nat
  BY <1>2
<1>6. u \in Seq(Nat) /\ DOMAIN u = 1 .. n + 1
  <2>1. \A i \in 1 .. n + 1 : u[i] \in Nat
    BY <1>2, <1>5
  <2> QED BY <1>2, <2>1
<1>7. ASSUME NEW i \in 1 .. n + 1, NEW j \in 1 .. n + 1, i < j PROVE u[i] <= u[j]
  <2>1. \A x, y \in 1 .. n : x <= y => s[x] <= s[y]
    BY <1>2 DEF Ascending
  <2>2. \A x \in 1 .. n : s[x] <= v <=> x <= k
    BY <1>1, <1>2
  <2>3. CASE j <= k
    BY <1>2, <1>7, <2>1, <2>3
  <2>4. CASE j = k + 1
    BY <1>2, <1>7, <2>2, <2>4
  <2>5. CASE j > k + 1
    <3>1. j - 1 \in 1 .. n /\ u[j] = s[j - 1] /\ ~(s[j - 1] <= v) /\ s[j - 1] \in Nat
      BY <1>2, <1>5, <2>2, <2>5
    <3>2. CASE i <= k
      BY <1>2, <1>7, <2>1, <2>5, <3>1, <3>2
    <3>3. CASE i = k + 1
      BY <1>2, <3>1, <3>3
    <3>4. CASE i > k + 1
      <4>1. i - 1 \in 1 .. n /\ u[i] = s[i - 1] /\ i - 1 <= j - 1
        BY <1>2, <1>7, <3>4
      <4> QED BY <2>1, <3>1, <4>1
    <3> QED BY <1>2, <3>2, <3>3, <3>4
  <2> QED BY <1>2, <2>3, <2>4, <2>5
<1>8. Ascending(u)
  <2>1. \A i \in 1 .. n + 1 : u[i] \in Nat
    BY <1>2, <1>5
  <2> HIDE DEF u
  <2> SUFFICES ASSUME NEW i \in 1 .. n + 1, NEW j \in 1 .. n + 1, i <= j PROVE u[i] <= u[j]
    BY <1>6 DEF Ascending
  <2>2. CASE i = j
    BY <2>1, <2>2
  <2>3. CASE i < j
    BY <1>7, <2>3
  <2> QED BY <1>2, <2>2, <2>3
<1> QED BY <1>4, <1>6, <1>8 DEF t

(* The rank percentile looks up, and what makes it the nearest. *)
LEMMA RankIs ==
    ASSUME NEW n \in Nat \ {0}, NEW percent \in -1 .. 101
    PROVE  LET r == IF percent <= 0 THEN 1 ELSE IF percent >= 100 THEN n
                    ELSE (percent * n + 99) \div 100
           IN  /\ r \in 1 .. n
               /\ 100 * r >= percent * n \/ r = n
               /\ 100 * (r - 1) < percent * n \/ r = 1
<1>1. CASE percent <= 0
  <2>1. percent * n <= 0
    <3>1. percent = 0 \/ percent = -1
      BY <1>1
    <3> QED BY <3>1
  <2> QED BY <1>1, <2>1
<1>2. CASE percent >= 100
  <2>1. percent = 100 \/ percent = 101
    BY <1>2
  <2>2. percent * n >= 100 * n
    BY <2>1
  <2> QED BY <1>2, <2>2
<1>3. CASE 0 < percent /\ percent < 100
  <2> DEFINE m == percent * n
             r == (m + 99) \div 100
  <2>1. m \in Nat /\ 1 <= m /\ m <= 99 * n
    <3>1. percent - 1 \in Nat /\ percent = (percent - 1) + 1
      BY <1>3
    <3>2. PICK k \in Nat : percent = k + 1
      BY <3>1
    <3>3. m = k * n + n /\ k * n \in Nat
      BY <3>2
    <3>4. 99 - percent \in Nat /\ percent = 99 - (99 - percent)
      BY <1>3
    <3>5. PICK j \in Nat : percent = 99 - j
      BY <3>4
    <3>6. m = 99 * n - j * n /\ j * n \in Nat
      BY <3>5
    <3> QED BY <3>3, <3>6
  <2> HIDE DEF m
  <2>2. r \in Int /\ 100 * r <= m + 99 /\ m + 99 < 100 * r + 100
    BY <2>1
  <2> HIDE DEF r
  <2>3. r \in 1 .. n /\ 100 * r >= m /\ 100 * (r - 1) < m
    BY <2>1, <2>2
  <2> QED BY <1>3, <2>3 DEF m, r
<1> QED BY <1>1, <1>2, <1>3

LEMMA NearestRankHolds == ASSUME SummaryInv PROVE Numbers!NearestRank
<1> DEFINE n == Len(latencies)
<1>1. n \in Nat /\ DOMAIN latencies = 1 .. n /\ \A i \in 1 .. n : latencies[i] \in Nat
  BY DEF SummaryInv
<1> HIDE DEF n
<1> SUFFICES ASSUME n > 0, NEW percent \in -1 .. 101
             PROVE  LET v == Numbers!percentile(latencies, percent)
                    IN  /\ v \in Range(latencies)
                        /\ 100 * Numbers!Below(v) >= percent * n \/ v = latencies[n]
                        /\ \A w \in Range(latencies) : w < v =>
                              100 * Numbers!Below(w) < percent * n
  BY SameOperators DEF Numbers!NearestRank, n
<1> DEFINE r == IF percent <= 0 THEN 1 ELSE IF percent >= 100 THEN n
                ELSE (percent * n + 99) \div 100
           m == percent * n
<1>2. /\ r \in 1 .. n
      /\ 100 * r >= m \/ r = n
      /\ 100 * (r - 1) < m \/ r = 1
  <2>1. n \in Nat \ {0}
    BY <1>1
  <2> QED BY <2>1, RankIs
<1>3. Numbers!percentile(latencies, percent) = latencies[r]
  BY <1>1 DEF Numbers!percentile, n
<1>4. m \in Int
  BY <1>1
<1> HIDE DEF r, m
<1>5. ASSUME NEW v \in Nat
      PROVE  /\ Numbers!Below(v) \in 0 .. n
             /\ \A i \in 1 .. n : latencies[i] <= v <=> i <= Numbers!Below(v)
  <2>1. PICK k \in 0 .. n : /\ Numbers!Below(v) = k
                            /\ \A i \in DOMAIN latencies : latencies[i] <= v <=> i <= k
    BY FirstOnes, SameOperators DEF SummaryInv, Numbers!Below, n
  <2> QED BY <1>1, <2>1
<1>6. latencies[r] \in Nat /\ latencies[r] \in Range(latencies)
  BY <1>1, <1>2 DEF Range
<1>7. 100 * Numbers!Below(latencies[r]) >= m \/ latencies[r] = latencies[n]
  <2>1. Numbers!Below(latencies[r]) \in 0 .. n /\ r <= Numbers!Below(latencies[r])
    BY <1>2, <1>5, <1>6
  <2> QED BY <1>1, <1>2, <1>4, <2>1
<1>8. ASSUME NEW w \in Range(latencies), w < latencies[r] PROVE 100 * Numbers!Below(w) < m
  <2>1. PICK i \in 1 .. n : w = latencies[i]
    BY <1>1 DEF Range
  <2>2. w \in Nat /\ Numbers!Below(w) \in 0 .. n /\ i <= Numbers!Below(w)
    BY <1>1, <1>5, <2>1
  <2>3. ~(r <= Numbers!Below(w))
    BY <1>2, <1>5, <1>6, <1>8, <2>2
  <2> QED BY <1>1, <1>2, <1>4, <2>2, <2>3
<1> QED BY <1>3, <1>6, <1>7, <1>8 DEF m

(* The two listings of one set of counts are one. *)
LEMMA OneListingHolds == ASSUME SummaryInv PROVE Numbers!OneListing
<1> DEFINE kinds == {k \in SkipKinds : skipped[k] > 0}
           n == Cardinality(kinds)
           R == { ab \in kinds \X kinds : Numbers!Precedes(ab[1], ab[2]) }
<1>1. IsFiniteSet(kinds) /\ n \in Nat /\ IsFiniteSet(1 .. n) /\ Cardinality(1 .. n) = n
  <2>1. IsFiniteSet(kinds)
    BY SummaryAssumption, SameOperators, FS_Subset DEF Numbers!SummaryConstants
  <2>2. n \in Nat
    BY <2>1, FS_CardinalityType
  <2> HIDE DEF n
  <2>3. 1 \in Int /\ n \in Int
    BY <2>2
  <2> QED BY <2>1, <2>2, <2>3, FS_Interval
<1>2. /\ \A a \in kinds : skipped[a] \in Nat /\ Rank[a] \in Nat
      /\ \A a, b \in kinds : Rank[a] = Rank[b] => a = b
  BY SummaryAssumption, SameOperators DEF Numbers!SummaryConstants, SummaryInv, IsInjective
<1> HIDE DEF n
<1>3. \A a, b \in kinds : <<a, b>> \in R <=> Numbers!Precedes(a, b)
  OBVIOUS
<1>4. \A a, b \in kinds : Numbers!Precedes(a, b) <=>
          IF skipped[a] # skipped[b] THEN skipped[a] > skipped[b] ELSE Rank[a] < Rank[b]
  BY DEF Numbers!Precedes
<1> HIDE DEF kinds, R
<1>5. TotalOrder(R, kinds)
  <2>1. \A a, b \in kinds : a # b => <<a, b>> \in R \/ <<b, a>> \in R
    BY <1>2, <1>3, <1>4
  <2>2. \A a, b, c \in kinds : <<a, b>> \in R /\ <<b, c>> \in R => <<a, c>> \in R
    BY <1>2, <1>3, <1>4
  <2> QED BY <2>1, <2>2 DEF TotalOrder
<1>6. \A a, b \in kinds : <<a, b>> \in R => <<b, a>> \notin R
  BY <1>2, <1>3, <1>4
<1>7. \A s : s \in Numbers!Listings <=>
          /\ s \in [1 .. n -> kinds] /\ IsInjective(s)
          /\ \A i, j \in 1 .. n : i < j => ~Numbers!Precedes(s[j], s[i])
  BY SameOperators DEF Numbers!Listings, kinds, n
<1>8. ASSUME NEW s PROVE s \in Numbers!Listings => InOrder(s, kinds, R)
  <2> SUFFICES ASSUME s \in Numbers!Listings PROVE InOrder(s, kinds, R)
    OBVIOUS
  <2>1. /\ s \in [1 .. n -> kinds] /\ IsInjective(s)
        /\ \A i, j \in 1 .. n : i < j => ~Numbers!Precedes(s[j], s[i])
    BY <1>7
  <2>2. s \in Injection(1 .. n, kinds)
    BY <2>1 DEF IsInjective, Injection
  <2>3. s \in Surjection(1 .. n, kinds)
    BY <1>1, <2>2, FS_Injection DEF n
  <2>4. \A a \in kinds : \E i \in 1 .. n : s[i] = a
    BY <2>3 DEF Surjection
  <2>5. \A i, j \in 1 .. n : i < j => <<s[i], s[j]>> \in R
    <3> SUFFICES ASSUME NEW i \in 1 .. n, NEW j \in 1 .. n, i < j PROVE <<s[i], s[j]>> \in R
      OBVIOUS
    <3>1. s[i] \in kinds /\ s[j] \in kinds /\ s[i] # s[j]
      BY <2>1 DEF IsInjective
    <3>2. <<s[j], s[i]>> \notin R
      BY <1>3, <2>1, <3>1
    <3> QED BY <1>5, <3>1, <3>2 DEF TotalOrder
  <2> QED BY <2>1, <2>4, <2>5 DEF InOrder, n
<1>9. PICK q : InOrder(q, kinds, R)
  BY <1>1, <1>5, ListingExists
<1>10. q \in Numbers!Listings
  <2>1. q \in [1 .. n -> kinds] /\ \A i, j \in 1 .. n : i < j => <<q[i], q[j]>> \in R
    BY <1>9 DEF InOrder, n
  <2>2. \A i, j \in 1 .. n : i < j => q[i] # q[j] /\ ~Numbers!Precedes(q[j], q[i])
    <3> TAKE i, j \in 1 .. n
    <3> HAVE i < j
    <3>1. <<q[i], q[j]>> \in R /\ q[i] \in kinds /\ q[j] \in kinds
      BY <2>1
    <3>2. <<q[j], q[i]>> \notin R
      BY <1>6, <3>1
    <3> QED BY <1>3, <3>1, <3>2
  <2>3. \A i, j \in 1 .. n : q[i] = q[j] => i = j
    BY <1>1, <2>2
  <2>4. IsInjective(q)
    BY <2>1, <2>3 DEF IsInjective
  <2> QED BY <1>7, <2>1, <2>2, <2>4
<1>11. Numbers!Listings = {q}
  <2>1. \A s \in Numbers!Listings : s = q
    BY <1>1, <1>5, <1>6, <1>8, <1>9, OneListingOnly
  <2> QED BY <1>10, <2>1
<1>12. Cardinality({q}) = 1
  BY FS_Singleton
<1> QED BY <1>11, <1>12, SameOperators DEF Numbers!OneListing

LEMMA RecordKeeps ==
    ASSUME SummaryInv, NEW elapsed \in Latencies, NEW chosen \in SUBSET SkipKinds,
           Numbers!Record(elapsed, chosen)
    PROVE  SummaryInv'
<1>1. elapsed \in Nat
  BY SummaryAssumption DEF Numbers!SummaryConstants
<1>2. latencies' \in Seq(Nat) /\ Ascending(latencies')
  BY <1>1, SortedAscends DEF SummaryInv, Numbers!Record
<1>3. skipped' \in [SkipKinds -> Nat]
  BY DEF SummaryInv, Numbers!Record
<1> QED BY <1>2, <1>3 DEF SummaryInv, Ascending

(* For any number of records, latencies and kinds of skipped liquidity,    *)
(* percentile is the nearest-rank percentile of what was recorded, and the *)
(* listing of skips is the same whatever order Go's map has.               *)
THEOREM SummaryIsExact == EvidenceSpec => []SummaryExact
<1>1. EvidenceInit => SummaryInv
  BY SummaryAssumption DEF EvidenceInit, Numbers!Init, SummaryInv, Ascending
<1>2. SummaryInv /\ [EvidenceNext]_<<half, all, summaryVars>> => SummaryInv'
  <2> SUFFICES ASSUME SummaryInv, [EvidenceNext]_<<half, all, summaryVars>> PROVE SummaryInv'
    OBVIOUS
  <2>1. CASE UNCHANGED summaryVars
    BY <2>1 DEF SummaryInv, Ascending, summaryVars
  <2>2. CASE Numbers!Next
    BY <2>2, RecordKeeps DEF Numbers!Next
  <2> QED BY <2>1, <2>2 DEF EvidenceNext
<1>3. SummaryInv => SummaryExact
  BY NearestRankHolds, OneListingHolds DEF SummaryExact
<1> QED BY <1>1, <1>2, <1>3, PTL DEF EvidenceSpec
=============================================================================
