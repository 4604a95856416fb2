-------------------------- MODULE VideoForwardProofs --------------------------
(***************************************************************************)
(* Proofs about VideoForward, for every number of frames and slots, every    *)
(* pipe and every behaviour of the players.                                  *)
(***************************************************************************)
EXTENDS VideoForward, ModularArithmetic, SequenceTheorems

(* LooksInOrder with the types it needs: an inductive invariant.             *)
Looks ==
  /\ slots \in Nat /\ count \in Nat /\ taken \in Int
  /\ lastCount \in Nat /\ seen \in Nat /\ s0 \in Nat
  /\ LooksInOrder

(* Before anything is published all counts are 0.                            *)
LEMMA LooksInit == Init => Looks
  BY DEF Init, Source!Init, Looks, LooksInOrder

(* Every step of the thread, the camera and the players keeps the looks in   *)
(* order; only the steps below touch them.                                   *)
LEMMA LooksNext == Looks /\ [Next]_vars => Looks'
<1> SUFFICES ASSUME Looks, [Next]_vars
             PROVE  Looks'
  OBVIOUS
<1> USE DEF Looks, LooksInOrder
<1>1. CASE Camera
  <2>1. /\ slots' \in Nat /\ count' \in Nat /\ count' >= count
        /\ UNCHANGED <<taken, hpc, seen, lastCount, s0>>
    BY <1>1 DEF Camera, Source!Open, Source!Publish, thread
  <2> QED
    BY <2>1
<1>2. CASE Geometry \/ NoReader
  BY <1>2 DEF Geometry, NoReader, ring
<1>3. CASE Notice
  BY <1>3 DEF Notice, ring
<1>4. CASE Copy
  BY <1>4 DEF Copy, ring
<1>5. CASE Take
  BY <1>5 DEF Take
<1>6. CASE Torn
  BY <1>6 DEF Torn, ring
<1>7. CASE Handled
  BY <1>7 DEF Handled, ring
<1>8. CASE Open \/ Check \/ Write \/ Gone \/ Close
  BY <1>8 DEF Open, Check, Write, Gone, Close, ring
<1>9. CASE PlayerOpen \/ PlayerQuit \/ Reads \/ UNCHANGED vars
  <2>1. UNCHANGED <<ring, thread>>
    BY <1>9 DEF PlayerOpen, PlayerQuit, Reads, PlayerRead, vars, ring, thread
  <2> QED
    BY <2>1 DEF ring, thread
<1> QED
  BY <1>1, <1>2, <1>3, <1>4, <1>5, <1>6, <1>7, <1>8, <1>9 DEF Next, Thread

(***************************************************************************)
(* last_count, the count that starts a read and the count the copy starts    *)
(* from stay in order, however many frames are published in between.         *)
(***************************************************************************)
THEOREM LooksStayInOrder == Spec => []LooksInOrder
<1>1. Looks => LooksInOrder
  BY DEF Looks
<1> QED
  BY <1>1, LooksInit, LooksNext, PTL DEF Spec

(***************************************************************************)
(* run_video forwards no frame twice and none after a newer one.             *)
(***************************************************************************)
THEOREM ForwardedOnce == Spec => NeverTwice
<1>1. Looks /\ Looks' /\ [Next]_vars => [Take => taken' > taken]_vars
  BY DEF Looks, LooksInOrder, Take
<1> QED
  BY <1>1, LooksInit, LooksNext, PTL DEF Spec, NeverTwice

(***************************************************************************)
(* The thread is a reader of the kind VideoSource describes: what it takes   *)
(* was in the ring for the whole of its copy.                                *)
(***************************************************************************)
THEOREM ThreadReadsSource == Spec => ReadsSource
<1>1. Init => Source!Init
  BY DEF Init
<1>2. Looks /\ [Next]_vars => [Source!Next]_(Source!svars)
  <2> SUFFICES ASSUME Looks, [Next]_vars
               PROVE  [Source!Next]_(Source!svars)
    OBVIOUS
  <2>1. CASE Camera
    BY <2>1 DEF Camera, Source!Next
  <2>2. CASE Take
    BY <2>2 DEF Take, Looks, LooksInOrder, Source!Next, Source!Take
  <2>3. CASE UNCHANGED ring
    BY <2>3 DEF ring, Source!svars
  <2> QED
    BY <2>1, <2>2, <2>3
       DEF Next, Thread, Geometry, Open, NoReader, Notice, Copy, Torn, Handled, Check, Write,
           Gone, Close, PlayerOpen, PlayerQuit, Reads, PlayerRead, vars, ring
<1> QED
  BY <1>1, <1>2, LooksInit, LooksNext, PTL DEF Spec, ReadsSource, Source!Spec

-----------------------------------------------------------------------------
(* TYPES                                                                     *)

LEMMA ParametersOK ==
  /\ Size \in Nat \ {0} /\ PageSize \in Nat \ {0} /\ Pages \in Nat
  /\ MaxFrames \in Nat /\ MaxPlayers \in Nat
  BY SizesArePositive, BoundsAreNaturals

(* The thread's and the players' control, with the looks' order that bounds   *)
(* the number of the frame to be written.                                    *)
ControlInv ==
  /\ Looks
  /\ count <= MaxFrames /\ taken >= -1 /\ seen <= count /\ s0 <= count
  /\ hpc \in {"geometry", "poll", "stagger", "copy", "count", "check", "write", "close"}
  /\ hpc \in {"count", "check", "write"} => taken >= 0
  /\ fd \in BOOLEAN /\ playing \in BOOLEAN /\ players \in 0 .. MaxPlayers

(* The pipe holds no empty page and none that is read to its end.            *)
PipeInv ==
  /\ pipe \in Seq(Seq(Bytes)) /\ Len(pipe) <= Pages
  /\ \A j \in 1 .. Len(pipe) : Len(pipe[j]) \in 1 .. PageSize
  /\ drained \in Nat
  /\ drained > 0 => pipe # <<>> /\ drained < Len(pipe[1])
  /\ part \in Seq(Bytes) /\ shown \in Seq(Bytes)

LEMMA ControlInit == Init => ControlInv
<1> SUFFICES ASSUME Init PROVE ControlInv
  OBVIOUS
<1>1. Looks
  BY LooksInit
<1>2. /\ count = 0 /\ taken = -1 /\ seen = 0 /\ s0 = 0 /\ hpc = "geometry"
      /\ fd = FALSE /\ playing = FALSE /\ players = 0
  BY DEF Init, Source!Init
<1>3. fd \in BOOLEAN /\ playing \in BOOLEAN
  BY <1>2, Zenon
<1>4. /\ count <= MaxFrames /\ taken >= -1 /\ seen <= count /\ s0 <= count
      /\ hpc \notin {"count", "check", "write"} /\ players \in 0 .. MaxPlayers
  BY <1>2, ParametersOK
<1> QED
  BY <1>1, <1>2, <1>3, <1>4 DEF ControlInv

LEMMA ControlNext == ControlInv /\ [Next]_vars => ControlInv'
<1> SUFFICES ASSUME ControlInv, [Next]_vars
             PROVE  ControlInv'
  OBVIOUS
<1>0. Looks'
  BY LooksNext DEF ControlInv
<1> USE <1>0, ParametersOK DEF ControlInv, Looks, LooksInOrder
<1>1. CASE Camera
  <2>1. /\ count' \in Nat /\ count' >= count /\ count' <= MaxFrames
        /\ UNCHANGED <<taken, thread, player>>
    BY <1>1 DEF Camera, Source!Open, Source!Publish
  <2> QED
    BY <2>1 DEF thread, player
<1>2. CASE Geometry \/ NoReader \/ Open
  BY <1>2 DEF Geometry, NoReader, Open, ring, player
<1>3. CASE Notice \/ Copy
  BY <1>3 DEF Notice, Copy, ring, player
<1>4. CASE Take
  BY <1>4 DEF Take, player
<1>5. CASE Torn \/ Handled
  BY <1>5 DEF Torn, Handled, ring, player
<1>6. CASE Check \/ Write \/ Gone \/ Close
  BY <1>6 DEF Check, Write, Gone, Close, ring, player
<1>7. CASE PlayerOpen \/ PlayerQuit \/ Reads \/ UNCHANGED vars
  <2>1. UNCHANGED <<ring, thread>>
    BY <1>7 DEF PlayerOpen, PlayerQuit, Reads, PlayerRead, vars, ring, thread
  <2>2. playing' \in BOOLEAN
    BY <1>7, Zenon DEF PlayerOpen, PlayerQuit, Reads, PlayerRead, vars
  <2>3. \/ players < MaxPlayers /\ players' = players + 1
        \/ UNCHANGED players
    BY <1>7 DEF PlayerOpen, PlayerQuit, Reads, PlayerRead, vars
  <2> QED
    BY <2>1, <2>2, <2>3 DEF ring, thread
<1> QED
  BY <1>1, <1>2, <1>3, <1>4, <1>5, <1>6, <1>7 DEF Next, Thread

(* The bytes of a frame.                                                     *)
LEMMA FrameBytes ==
  ASSUME NEW f \in 0 .. MaxFrames
  PROVE  /\ FrameOf(f) \in Seq(Bytes) /\ Len(FrameOf(f)) = Size
         /\ \A i \in 1 .. Size : FrameOf(f)[i] = <<f, i>> /\ FrameOf(f)[i] \in Bytes
<1>1. \A i \in 1 .. Size : <<f, i>> \in Bytes
  BY DEF Bytes
<1> QED
  BY <1>1, ParametersOK DEF FrameOf

(* A piece of a frame.                                                       *)
LEMMA FramePiece ==
  ASSUME NEW f \in 0 .. MaxFrames, NEW a \in 1 .. Size, NEW b \in a .. Size
  PROVE  LET s == SubSeq(FrameOf(f), a, b) IN
         /\ s \in Seq(Bytes) /\ Len(s) = b - a + 1
         /\ \A i \in 1 .. b - a + 1 : s[i] = <<f, a + i - 1>>
<1>1. \A i \in a .. b : FrameOf(f)[i] \in Bytes /\ FrameOf(f)[i] = <<f, i>>
  BY FrameBytes, ParametersOK
<1>2. LET s == SubSeq(FrameOf(f), a, b) IN
      /\ s \in Seq(Bytes) /\ Len(s) = b - a + 1
      /\ \A i \in 1 .. b - a + 1 : s[i] = FrameOf(f)[a + i - 1]
  BY <1>1, SubSeqProperties, ParametersOK
<1>3. \A i \in 1 .. b - a + 1 : FrameOf(f)[a + i - 1] = <<f, a + i - 1>>
  BY <1>1, ParametersOK
<1> QED
  BY <1>2, <1>3

(* What the last page takes.                                                 *)
LEMMA JoinedFacts ==
  ASSUME PipeInv
  PROVE  /\ Joined \in 0 .. Size
         /\ Joined # 0 => pipe # <<>> /\ Len(pipe[Len(pipe)]) + Joined <= PageSize
<1>1. Size % PageSize \in 0 .. Size
  BY ParametersOK, RemainderSmall
<1> QED
  BY <1>1, ParametersOK DEF Joined, PipeInv

(* What a write accepts: all of it fits the page it joins and the free ones.  *)
LEMMA AcceptedFacts ==
  ASSUME PipeInv
  PROVE  /\ Accepted \in Joined .. Size
         /\ Accepted - Joined <= (Pages - Len(pipe)) * PageSize
<1>1. Len(pipe) \in Nat /\ Pages - Len(pipe) \in Nat
  BY ParametersOK DEF PipeInv
<1>2. (Pages - Len(pipe)) * PageSize \in Nat
  BY <1>1, ParametersOK
<1> QED
  BY <1>2, JoinedFacts, ParametersOK DEF Accepted, MinOf

(* The new pages of a write: few enough, none empty, none over-full, each a   *)
(* piece of the frame.                                                       *)
NewPages ==
  (Accepted - Joined + PageSize - 1) \div PageSize

NewPage(f, k) ==
  SubSeq(FrameOf(f), Joined + (k - 1) * PageSize + 1, MinOf(Joined + k * PageSize, Accepted))

LEMMA NewPagesFacts ==
  ASSUME PipeInv, NEW f \in 0 .. MaxFrames
  PROVE  /\ NewPages \in Nat /\ Len(pipe) + NewPages <= Pages
         /\ \A k \in 1 .. NewPages : /\ NewPage(f, k) \in Seq(Bytes)
                                    /\ Len(NewPage(f, k)) \in 1 .. PageSize
<1> DEFINE rest == Accepted - Joined
<1>1. rest \in Nat /\ Len(pipe) \in Nat /\ Pages - Len(pipe) \in Nat
  BY AcceptedFacts, JoinedFacts, ParametersOK DEF PipeInv
<1>2. /\ NewPages \in Nat
      /\ \A k \in 1 .. NewPages :
           (k - 1) * PageSize \in Nat /\ (k - 1) * PageSize < rest
           /\ k * PageSize = (k - 1) * PageSize + PageSize
      /\ \A n \in Nat : rest <= n * PageSize => NewPages <= n
  BY ONLY <1>1, ParametersOK, Pieces DEF NewPages
<1>3. NewPages <= Pages - Len(pipe)
  BY <1>1, <1>2, AcceptedFacts
<1>4. ASSUME NEW k \in 1 .. NewPages
      PROVE  NewPage(f, k) \in Seq(Bytes) /\ Len(NewPage(f, k)) \in 1 .. PageSize
  <2> DEFINE a == Joined + (k - 1) * PageSize + 1
             b == MinOf(Joined + k * PageSize, Accepted)
  <2>1. a \in 1 .. Size /\ b \in a .. Size /\ b - a + 1 \in 1 .. PageSize
    <3>1. /\ (k - 1) * PageSize \in Nat /\ (k - 1) * PageSize < rest
          /\ k * PageSize = (k - 1) * PageSize + PageSize
      BY <1>2, <1>4
    <3> DEFINE u == (k - 1) * PageSize
               v == k * PageSize
    <3> HIDE DEF u, v
    <3>2. u \in Nat /\ u < Accepted - Joined /\ v = u + PageSize
      BY <3>1 DEF u, v
    <3>3. Joined \in Nat /\ Accepted \in Joined .. Size
      BY AcceptedFacts, JoinedFacts
    <3>4. /\ Joined + u + 1 \in 1 .. Size /\ MinOf(Joined + v, Accepted) \in Joined + u + 1 .. Size
          /\ MinOf(Joined + v, Accepted) - (Joined + u + 1) + 1 \in 1 .. PageSize
      BY ONLY <3>2, <3>3, ParametersOK DEF MinOf
    <3> QED
      BY <3>4 DEF u, v
  <2> HIDE DEF a, b
  <2>2. SubSeq(FrameOf(f), a, b) \in Seq(Bytes) /\ Len(SubSeq(FrameOf(f), a, b)) = b - a + 1
    BY ONLY <2>1, f \in 0 .. MaxFrames, FramePiece
  <2>3. NewPage(f, k) = SubSeq(FrameOf(f), a, b)
    BY DEF NewPage, a, b
  <2> QED
    BY <2>1, <2>2, <2>3
<1>5. Len(pipe) + NewPages <= Pages
  BY ONLY <1>1, <1>2, <1>3, ParametersOK
<1> QED
  BY ONLY <1>2, <1>4, <1>5

(* The page a write joins gets no longer than a page.                        *)
JoinedPipe(f) ==
  IF Joined = 0 THEN pipe
  ELSE [pipe EXCEPT ![Len(pipe)] = @ \o SubSeq(FrameOf(f), 1, Joined)]

LEMMA JoinedPipeFacts ==
  ASSUME PipeInv, NEW f \in 0 .. MaxFrames
  PROVE  /\ JoinedPipe(f) \in Seq(Seq(Bytes)) /\ Len(JoinedPipe(f)) = Len(pipe)
         /\ \A j \in 1 .. Len(pipe) : /\ Len(JoinedPipe(f)[j]) \in 1 .. PageSize
                                     /\ Len(JoinedPipe(f)[j]) >= Len(pipe[j])
<1>1. CASE Joined = 0
  <2>1. \A j \in 1 .. Len(pipe) : Len(pipe[j]) \in 1 .. PageSize
    BY DEF PipeInv
  <2> QED
    BY <1>1, <2>1, ParametersOK DEF PipeInv, JoinedPipe
<1>2. CASE Joined # 0
  <2> DEFINE n == Len(pipe)
             s == SubSeq(FrameOf(f), 1, Joined)
             e == pipe[n] \o s
  <2>1. n \in 1 .. Len(pipe) /\ pipe[n] \in Seq(Bytes) /\ Joined \in 1 .. Size
        /\ Len(pipe[n]) + Joined <= PageSize
    BY <1>2, JoinedFacts, ParametersOK DEF PipeInv
  <2>2. s \in Seq(Bytes) /\ Len(s) = Joined
    <3>1. 1 \in 1 .. Size /\ Joined \in 1 .. Size /\ Joined - 1 + 1 = Joined
      BY <2>1, ParametersOK
    <3> QED
      BY ONLY <3>1, f \in 0 .. MaxFrames, FramePiece DEF s
  <2> HIDE DEF s
  <2>3. e \in Seq(Bytes) /\ Len(e) = Len(pipe[n]) + Joined
    BY <2>1, <2>2, ConcatProperties
  <2>4. JoinedPipe(f) = [pipe EXCEPT ![n] = e]
    BY <1>2 DEF JoinedPipe, s
  <2> HIDE DEF e
  <2>5. /\ [pipe EXCEPT ![n] = e] \in Seq(Seq(Bytes))
        /\ Len([pipe EXCEPT ![n] = e]) = Len(pipe)
        /\ \A j \in 1 .. Len(pipe) : [pipe EXCEPT ![n] = e][j] = IF j = n THEN e ELSE pipe[j]
    BY <2>1, <2>3 DEF PipeInv
  <2>6. Len(pipe[n]) \in 1 .. PageSize
    BY <2>1 DEF PipeInv
  <2> HIDE DEF n
  <2>7. Len(e) \in 1 .. PageSize /\ Len(e) >= Len(pipe[n])
    BY <2>1, <2>3, <2>6, ParametersOK
  <2>8. \A j \in 1 .. Len(pipe) : Len(pipe[j]) \in 1 .. PageSize
    BY DEF PipeInv
  <2>9. ASSUME NEW j \in 1 .. Len(pipe)
        PROVE  Len(JoinedPipe(f)[j]) \in 1 .. PageSize /\ Len(JoinedPipe(f)[j]) >= Len(pipe[j])
    BY ONLY <2>4, <2>5, <2>7, <2>8, j \in 1 .. Len(pipe), ParametersOK
  <2> QED
    BY <2>4, <2>5, <2>9
<1> QED
  BY <1>1, <1>2

(* The pipe after a write.                                                   *)
LEMMA WrittenPages ==
  ASSUME PipeInv, NEW f \in 0 .. MaxFrames
  PROVE  /\ Written(f) \in Seq(Seq(Bytes))
         /\ Len(Written(f)) = Len(pipe) + NewPages /\ Len(Written(f)) <= Pages
         /\ \A j \in 1 .. Len(Written(f)) : Len(Written(f)[j]) \in 1 .. PageSize
         /\ pipe # <<>> => Written(f) # <<>> /\ Len(Written(f)[1]) >= Len(pipe[1])
         /\ \A k \in 1 .. NewPages : Written(f)[Len(pipe) + k] = NewPage(f, k)
         /\ Joined = 0 => \A j \in 1 .. Len(pipe) : Written(f)[j] = pipe[j]
<1> DEFINE new == [k \in 1 .. NewPages |-> NewPage(f, k)]
           W == JoinedPipe(f) \o new
<1>1. Written(f) = W
  BY DEF Written, JoinedPipe, NewPages, NewPage
<1>2. /\ JoinedPipe(f) \in Seq(Seq(Bytes)) /\ Len(JoinedPipe(f)) = Len(pipe)
      /\ \A j \in 1 .. Len(pipe) : /\ Len(JoinedPipe(f)[j]) \in 1 .. PageSize
                                  /\ Len(JoinedPipe(f)[j]) >= Len(pipe[j])
  BY JoinedPipeFacts
<1>3. new \in Seq(Seq(Bytes)) /\ Len(new) = NewPages
  BY NewPagesFacts
<1> HIDE DEF new
<1>4. /\ W \in Seq(Seq(Bytes)) /\ Len(W) = Len(pipe) + NewPages
      /\ \A i \in 1 .. Len(pipe) + NewPages :
           W[i] = IF i <= Len(pipe) THEN JoinedPipe(f)[i] ELSE new[i - Len(pipe)]
  <2>1. \A s, t \in Seq(Seq(Bytes)) :
          /\ s \o t \in Seq(Seq(Bytes)) /\ Len(s \o t) = Len(s) + Len(t)
          /\ \A i \in 1 .. Len(s) + Len(t) :
               (s \o t)[i] = IF i <= Len(s) THEN s[i] ELSE t[i - Len(s)]
    BY ONLY ConcatProperties
  <2> DEFINE g == JoinedPipe(f)
  <2>2. g \in Seq(Seq(Bytes)) /\ Len(g) = Len(pipe)
    BY <1>2
  <2> HIDE DEF g
  <2>3. /\ g \o new \in Seq(Seq(Bytes)) /\ Len(g \o new) = Len(g) + Len(new)
        /\ \A i \in 1 .. Len(g) + Len(new) :
             (g \o new)[i] = IF i <= Len(g) THEN g[i] ELSE new[i - Len(g)]
    BY ONLY <1>3, <2>1, <2>2
  <2>4. /\ g \o new \in Seq(Seq(Bytes)) /\ Len(g \o new) = Len(pipe) + NewPages
        /\ \A i \in 1 .. Len(pipe) + NewPages :
             (g \o new)[i] = IF i <= Len(pipe) THEN g[i] ELSE new[i - Len(pipe)]
    BY ONLY <1>3, <2>2, <2>3
  <2> QED
    BY ONLY <2>4 DEF W, g
<1>5. Len(pipe) \in Nat /\ NewPages \in Nat /\ Len(pipe) + NewPages <= Pages
  BY NewPagesFacts DEF PipeInv
<1>6. \A k \in 1 .. NewPages : new[k] = NewPage(f, k) /\ Len(new[k]) \in 1 .. PageSize
  BY NewPagesFacts DEF new
<1> HIDE DEF W
<1>7. \A i \in 1 .. Len(pipe) + NewPages : Len(W[i]) \in 1 .. PageSize
  <2> SUFFICES ASSUME NEW i \in 1 .. Len(pipe) + NewPages
               PROVE  Len(W[i]) \in 1 .. PageSize
    OBVIOUS
  <2>1. CASE i <= Len(pipe)
    <3>1. i \in 1 .. Len(pipe) /\ W[i] = JoinedPipe(f)[i]
      BY ONLY <1>4, <1>5, <2>1, i \in 1 .. Len(pipe) + NewPages
    <3> QED
      BY ONLY <1>2, <3>1
  <2>2. CASE i > Len(pipe)
    <3>1. i - Len(pipe) \in 1 .. NewPages /\ W[i] = new[i - Len(pipe)]
      BY ONLY <1>4, <1>5, <2>2, i \in 1 .. Len(pipe) + NewPages
    <3> QED
      BY ONLY <1>6, <3>1
  <2> QED
    BY ONLY <1>5, <2>1, <2>2, i \in 1 .. Len(pipe) + NewPages
<1>8. \A k \in 1 .. NewPages : W[Len(pipe) + k] = NewPage(f, k)
  <2> SUFFICES ASSUME NEW k \in 1 .. NewPages
               PROVE  W[Len(pipe) + k] = NewPage(f, k)
    OBVIOUS
  <2>1. Len(pipe) + k \in 1 .. Len(pipe) + NewPages /\ ~ (Len(pipe) + k <= Len(pipe))
        /\ Len(pipe) + k - Len(pipe) = k
    BY ONLY <1>5, k \in 1 .. NewPages
  <2>2. W[Len(pipe) + k] = new[Len(pipe) + k - Len(pipe)]
    BY ONLY <1>4, <2>1
  <2> QED
    BY ONLY <1>6, <2>1, <2>2, k \in 1 .. NewPages
<1>9. pipe # <<>> => 1 \in 1 .. Len(pipe) /\ W # <<>> /\ Len(W[1]) >= Len(pipe[1])
  <2> SUFFICES ASSUME pipe # <<>>
               PROVE  1 \in 1 .. Len(pipe) /\ W # <<>> /\ Len(W[1]) >= Len(pipe[1])
    OBVIOUS
  <2>1. 1 \in 1 .. Len(pipe)
    BY DEF PipeInv
  <2>2. W # <<>>
    BY <1>4, <1>5, <2>1
  <2>3. W[1] = JoinedPipe(f)[1]
    BY ONLY <1>4, <1>5, <2>1
  <2> QED
    BY ONLY <1>2, <2>1, <2>2, <2>3
<1>10. Joined = 0 => \A j \in 1 .. Len(pipe) : W[j] = pipe[j]
  <2>1. Joined = 0 => JoinedPipe(f) = pipe
    BY DEF JoinedPipe
  <2>2. \A j \in 1 .. Len(pipe) : W[j] = JoinedPipe(f)[j]
    BY ONLY <1>4, <1>5
  <2> QED
    BY ONLY <2>1, <2>2
<1> QED
  BY <1>1, <1>4, <1>5, <1>7, <1>8, <1>9, <1>10

(* What a read of k bytes takes off the first page.                          *)
LEMMA ReadFacts ==
  ASSUME PipeInv, pipe # <<>>, NEW k \in 1 .. PageSize, k <= Len(pipe[1]) - drained
  PROVE  LET got == SubSeq(pipe[1], drained + 1, drained + k) IN
         /\ got \in Seq(Bytes) /\ Len(got) = k
         /\ \A i \in 1 .. k : got[i] = pipe[1][drained + i]
         /\ Len(part \o got) = Len(part) + k /\ part \o got \in Seq(Bytes)
         /\ \A i \in 1 .. Len(part) + k :
              (part \o got)[i] = IF i <= Len(part) THEN part[i] ELSE got[i - Len(part)]
<1> DEFINE p == pipe[1]
           got == SubSeq(p, drained + 1, drained + k)
<1>1. p \in Seq(Bytes) /\ Len(p) \in 1 .. PageSize /\ drained \in Nat /\ part \in Seq(Bytes)
  BY ParametersOK DEF PipeInv
<1>2. k <= Len(p) - drained
  OBVIOUS
<1> HIDE DEF p
<1>3. \A i \in drained + 1 .. drained + k : p[i] \in Bytes
  BY ONLY <1>1, <1>2, k \in 1 .. PageSize
<1>4. got \in Seq(Bytes) /\ Len(got) = k /\ \A i \in 1 .. k : got[i] = p[drained + i]
  <2> DEFINE a == drained + 1
             b == drained + k
  <2>1. /\ a \in Int /\ b \in Int /\ a <= b /\ b - a + 1 = k
        /\ \A i \in 1 .. k : a + i - 1 = drained + i
    BY <1>1
  <2>2. \A i \in a .. b : p[i] \in Bytes
    BY <1>3
  <2>3. got = SubSeq(p, a, b)
    BY Zenon
  <2> HIDE DEF a, b, got
  <2>4. /\ SubSeq(p, a, b) \in Seq(Bytes)
        /\ Len(SubSeq(p, a, b)) = IF a <= b THEN b - a + 1 ELSE 0
        /\ \A i \in 1 .. b - a + 1 : SubSeq(p, a, b)[i] = p[a + i - 1]
    BY ONLY <2>1, <2>2, SubSeqProperties
  <2> QED
    BY ONLY <2>1, <2>3, <2>4, k \in 1 .. PageSize, ParametersOK
<1> HIDE DEF got
<1>5. /\ Len(part \o got) = Len(part) + k /\ part \o got \in Seq(Bytes)
      /\ \A i \in 1 .. Len(part) + k :
           (part \o got)[i] = IF i <= Len(part) THEN part[i] ELSE got[i - Len(part)]
  <2>1. \A s, t \in Seq(Bytes) :
          /\ s \o t \in Seq(Bytes) /\ Len(s \o t) = Len(s) + Len(t)
          /\ \A i \in 1 .. Len(s) + Len(t) :
               (s \o t)[i] = IF i <= Len(s) THEN s[i] ELSE t[i - Len(s)]
    BY ONLY ConcatProperties
  <2> QED
    BY ONLY <1>1, <1>4, <2>1
<1> QED
  BY ONLY <1>4, <1>5 DEF got, p

LEMMA PipeInit == Init => PipeInv
<1> SUFFICES ASSUME Init PROVE PipeInv
  OBVIOUS
<1>1. pipe = <<>> /\ drained = 0 /\ part = <<>> /\ shown = <<>>
  BY DEF Init
<1> QED
  BY <1>1, ParametersOK DEF PipeInv

(* A pipe without its first page.                                            *)
LEMMA PipeTail ==
  ASSUME PipeInv, pipe # <<>>
  PROVE  /\ Tail(pipe) \in Seq(Seq(Bytes)) /\ Len(Tail(pipe)) = Len(pipe) - 1
         /\ Len(pipe) \in 1 .. Pages
         /\ \A j \in 1 .. Len(pipe) - 1 : Tail(pipe)[j] = pipe[j + 1]
  BY HeadTailProperties, ParametersOK DEF PipeInv

(* Whatever is written, read or thrown away, the pipe keeps to its pages.    *)
LEMMA PipeNext == ControlInv /\ PipeInv /\ [Next]_vars => PipeInv'
<1> SUFFICES ASSUME ControlInv, PipeInv, [Next]_vars
             PROVE  PipeInv'
  OBVIOUS
<1>1. CASE UNCHANGED <<pipe, drained, part, shown>>
  BY <1>1 DEF PipeInv
<1>2. CASE Write
  <2>1. pipe' = Written(taken) /\ UNCHANGED <<drained, part, shown>> /\ taken \in 0 .. MaxFrames
    BY <1>2, ParametersOK DEF Write, player, ControlInv, Looks, LooksInOrder
  <2>2. /\ pipe' \in Seq(Seq(Bytes)) /\ Len(pipe') <= Pages
        /\ \A j \in 1 .. Len(pipe') : Len(pipe'[j]) \in 1 .. PageSize
        /\ pipe # <<>> => pipe' # <<>> /\ Len(pipe'[1]) >= Len(pipe[1])
    BY <2>1, WrittenPages
  <2>3. pipe # <<>> => Len(pipe[1]) \in Nat /\ Len(pipe'[1]) \in Nat
    BY <2>2, ParametersOK DEF PipeInv
  <2> QED
    BY <2>1, <2>2, <2>3 DEF PipeInv
<1>3. CASE pipe' = <<>> /\ drained' = 0 /\ part' \in {part, <<>>} /\ shown' \in {shown, <<>>}
  <2>1. part' \in Seq(Bytes) /\ shown' \in Seq(Bytes)
    <3>1. part \in Seq(Bytes) /\ shown \in Seq(Bytes) /\ <<>> \in Seq(Bytes)
      BY DEF PipeInv
    <3> QED
      BY ONLY <1>3, <3>1
  <2> QED
    BY <1>3, <2>1, ParametersOK DEF PipeInv
<1>4. CASE UNCHANGED <<pipe, drained>> /\ part' = <<>> /\ shown' = <<>>
  BY <1>4 DEF PipeInv
<1>5. ASSUME NEW k \in 1 .. PageSize, PlayerRead(k)
      PROVE  PipeInv'
  <2> DEFINE bytes == part \o SubSeq(pipe[1], drained + 1, drained + k)
  <2>1. pipe # <<>> /\ k <= Len(pipe[1]) - drained
    BY <1>5 DEF PlayerRead
  <2>2. bytes \in Seq(Bytes)
    BY ONLY <1>5, <2>1, PipeInv, ReadFacts
  <2>3. /\ \/ pipe' = Tail(pipe) /\ drained' = 0
           \/ pipe' = pipe /\ drained' = drained + k /\ drained + k # Len(pipe[1])
        /\ \/ shown' = bytes /\ part' = <<>>
           \/ part' = bytes /\ shown' = shown
    BY <1>5 DEF PlayerRead
  <2> HIDE DEF bytes
  <2>4. part' \in Seq(Bytes) /\ shown' \in Seq(Bytes)
    <3>1. part \in Seq(Bytes) /\ shown \in Seq(Bytes) /\ <<>> \in Seq(Bytes)
      BY DEF PipeInv
    <3> QED
      BY ONLY <2>2, <2>3, <3>1
  <2>5. CASE pipe' = Tail(pipe) /\ drained' = 0
    <3>1. \A j \in 1 .. Len(pipe) - 1 : Len(pipe'[j]) \in 1 .. PageSize
      <4> SUFFICES ASSUME NEW j \in 1 .. Len(pipe) - 1
                   PROVE  Len(pipe'[j]) \in 1 .. PageSize
        OBVIOUS
      <4>1. pipe'[j] = pipe[j + 1] /\ j + 1 \in 1 .. Len(pipe)
        BY <2>1, <2>5, PipeTail
      <4> QED
        BY <4>1 DEF PipeInv
    <3> QED
      BY <2>1, <2>4, <2>5, <3>1, PipeTail, ParametersOK DEF PipeInv
  <2>6. CASE pipe' = pipe /\ drained' = drained + k /\ drained + k # Len(pipe[1])
    <3>1. Len(pipe[1]) \in Nat /\ drained \in Nat
      BY <2>1, ParametersOK DEF PipeInv
    <3>2. drained' \in Nat /\ drained' < Len(pipe[1])
      BY <2>1, <2>6, <3>1
    <3> QED
      BY <2>1, <2>4, <2>6, <3>2 DEF PipeInv
  <2> QED
    BY <2>3, <2>5, <2>6
<1> QED
  BY <1>1, <1>2, <1>3, <1>4, <1>5
     DEF Next, Thread, Camera, Geometry, Open, NoReader, Notice, Copy, Take, Torn, Handled, Check,
         Gone, Close, PlayerOpen, PlayerQuit, Reads, Emptied, vars, player

(***************************************************************************)
(* The forwarding thread, the pipe and the player keep their types: the pipe *)
(* never holds more pages than set_pipe_size left it, whatever a write       *)
(* joined and however far the player had read.                               *)
(***************************************************************************)
THEOREM ForwardTypeCorrect == Spec => []TypeOK
<1>1. ControlInv /\ PipeInv => TypeOK
  <2> SUFFICES ASSUME ControlInv, PipeInv PROVE TypeOK
    OBVIOUS
  <2>1. drained \in 0 .. PageSize - 1
    <3>1. CASE drained = 0
      BY <3>1, ParametersOK
    <3>2. CASE drained > 0
      <4>1. Len(pipe[1]) \in 1 .. PageSize /\ drained < Len(pipe[1]) /\ drained \in Nat
        BY <3>2, ParametersOK DEF PipeInv
      <4> QED
        BY <4>1, ParametersOK
    <3> QED
      BY <3>1, <3>2 DEF PipeInv
  <2>2. fd \in BOOLEAN /\ playing \in BOOLEAN
    BY DEF ControlInv
  <2>3. /\ slots \in Nat /\ count \in 0 .. MaxFrames /\ taken \in -1 .. MaxFrames
        /\ seen \in 0 .. count /\ lastCount \in 0 .. count /\ s0 \in 0 .. count
    BY ParametersOK DEF ControlInv, Looks, LooksInOrder
  <2> QED
    BY <2>1, <2>2, <2>3 DEF TypeOK, ControlInv, PipeInv
<1>2. ControlInv /\ PipeInv /\ [Next]_vars => ControlInv' /\ PipeInv'
  BY ControlNext, PipeNext
<1>3. Init => ControlInv /\ PipeInv
  BY ControlInit, PipeInit
<1> QED
  BY <1>1, <1>2, <1>3, PTL DEF Spec

-----------------------------------------------------------------------------
(* WHOLE FRAMES, when a frame fills whole pages of the pipe.  Then no write   *)
(* joins a page and every page in the pipe is full.                          *)

PagesOfFrame == Size \div PageSize

LEMMA FrameIsPages ==
  ASSUME Size % PageSize = 0
  PROVE  /\ PagesOfFrame \in Nat \ {0} /\ Size = PagesOfFrame * PageSize
         /\ (Size + PageSize - 1) \div PageSize = PagesOfFrame
<1> DEFINE n == PagesOfFrame
           q == (Size + PageSize - 1) \div PageSize
           r == (Size + PageSize - 1) % PageSize
<1>1. n * PageSize = Size /\ n \in Int
  BY ONLY ParametersOK, CutAligned, DivMod, Size % PageSize = 0 DEF PagesOfFrame
<1>2. Size + PageSize - 1 = PageSize * q + r /\ r \in 0 .. PageSize - 1 /\ q \in Int
  <2>1. Size + PageSize - 1 \in Int
    BY ParametersOK
  <2> QED
    BY ONLY <2>1, ParametersOK, DivMod
<1> HIDE DEF n, q, r
<1>3. n \in Nat \ {0}
  <2> SUFFICES ASSUME n <= 0 PROVE FALSE
    BY <1>1
  <2>1. n * PageSize <= 0
    BY <1>1, ParametersOK
  <2> QED
    BY <1>1, <2>1, ParametersOK
<1>4. PageSize * (q - n) = PageSize - 1 - r /\ q - n \in Int
  <2>1. PageSize * (q - n) = PageSize * q - n * PageSize
    BY <1>1, <1>2, ParametersOK
  <2> QED
    BY <1>1, <1>2, <2>1, ParametersOK
<1>5. q - n = 0
  BY ONLY <1>2, <1>4, SmallMultiple, ParametersOK
<1> QED
  BY ONLY <1>1, <1>2, <1>3, <1>5 DEF n, q

(* What a recursive sum over equal pages computes, by induction.             *)
LEMMA QueuedInFullPages ==
  ASSUME PipeInv, \A j \in 1 .. Len(pipe) : Len(pipe[j]) = PageSize
  PROVE  Queued = Len(pipe) * PageSize - drained
<1> DEFINE N == Len(pipe)
           Eq(f) == f = [k \in 0 .. N |-> IF k = 0 THEN 0 ELSE f[k - 1] + Len(pipe[k])]
           w == [k \in 0 .. N |-> k * PageSize]
           S == CHOOSE f : Eq(f)
           G == {k \in Nat : k <= N => S[k] = k * PageSize}
<1>0. N \in Nat
  BY DEF PipeInv
<1>1. Eq(w)
  <2>1. \A k \in 1 .. N : Len(pipe[k]) = PageSize /\ w[k - 1] = (k - 1) * PageSize
    BY <1>0, ParametersOK
  <2>2. \A k \in 1 .. N : k * PageSize = (k - 1) * PageSize + PageSize
    BY <1>0, ParametersOK
  <2>3. \A k \in 0 .. N : w[k] = IF k = 0 THEN 0 ELSE w[k - 1] + Len(pipe[k])
    BY <1>0, <2>1, <2>2, ParametersOK
  <2> QED
    BY <2>3
<1>2. Eq(S)
  BY <1>1
<1>3. Queued = S[N] - drained
  BY DEF Queued
<1> HIDE DEF N, S
<1>4. \A k \in 0 .. N : S[k] = IF k = 0 THEN 0 ELSE S[k - 1] + Len(pipe[k])
  BY <1>2
<1>5. 0 \in G
  BY <1>0, <1>4, ParametersOK
<1>6. ASSUME NEW k \in Nat, k \in G
      PROVE  k + 1 \in G
  <2>1. CASE k + 1 <= N
    <3>1. S[k] = k * PageSize
      BY <1>0, <1>6, <2>1
    <3>2. S[k + 1] = S[k] + Len(pipe[k + 1])
      <4>1. k + 1 \in 0 .. N /\ k + 1 # 0 /\ k + 1 - 1 = k
        BY <1>0, <2>1
      <4> QED
        BY <1>4, <4>1
    <3>3. Len(pipe[k + 1]) = PageSize
      BY <1>0, <2>1 DEF N
    <3>4. (k + 1) * PageSize = k * PageSize + PageSize
      BY ParametersOK
    <3> QED
      BY <3>1, <3>2, <3>3, <3>4
  <2> QED
    BY <1>0, <2>1
<1>7. N \in G
  <2> HIDE DEF G
  <2> QED
    BY <1>0, <1>5, <1>6, SetInduction
<1>8. S[N] = N * PageSize
  BY <1>0, <1>7
<1> QED
  BY <1>3, <1>8 DEF N

(* Where write_frame finds room for a frame there are pages for all of it:    *)
(* what was read off the first page is less than a page and does not count.  *)
LEMMA RoomIsPages ==
  ASSUME Size % PageSize = 0, PipeInv, \A j \in 1 .. Len(pipe) : Len(pipe[j]) = PageSize, Fits
  PROVE  Len(pipe) + PagesOfFrame <= Pages
<1> DEFINE n == Len(pipe)
           m == PagesOfFrame
<1>1. n \in Nat /\ m \in Nat \ {0} /\ Size = m * PageSize /\ drained \in Nat
  BY FrameIsPages DEF PipeInv
<1>2. drained < PageSize
  <2>1. CASE drained = 0
    BY <2>1, ParametersOK
  <2>2. CASE drained > 0
    <3>1. pipe # <<>> /\ drained < Len(pipe[1]) /\ Len(pipe[1]) = PageSize
      BY <2>2 DEF PipeInv
    <3> QED
      BY <3>1
  <2> QED
    BY <1>1, <2>1, <2>2
<1>3. Pages * PageSize - (n * PageSize - drained) >= m * PageSize
  BY <1>1, QueuedInFullPages DEF Fits, Free
<1> HIDE DEF n, m
<1> DEFINE d == n + m - Pages
<1>4. PageSize * d <= drained /\ d \in Int
  <2>1. PageSize * d = n * PageSize + m * PageSize - Pages * PageSize
    BY <1>1, ParametersOK
  <2>2. n * PageSize \in Nat /\ m * PageSize \in Nat /\ Pages * PageSize \in Nat
    BY <1>1, ParametersOK
  <2>3. PageSize * d <= drained
    BY <1>1, <1>3, <2>1, <2>2
  <2> QED
    BY <1>1, <2>3, ParametersOK
<1>5. d <= 0
  <2> HIDE DEF d
  <2> SUFFICES ASSUME d >= 1 PROVE FALSE
    BY <1>4
  <2>1. PageSize * d >= PageSize
    BY <1>4, ParametersOK
  <2> QED
    BY <1>1, <1>2, <1>4, <2>1, ParametersOK
<1> QED
  BY <1>1, <1>5, ParametersOK DEF n, m

(* A write that has its pages: the frame, cut into full pages.               *)
LEMMA WholeWrite ==
  ASSUME Size % PageSize = 0, PipeInv, NEW f \in 0 .. MaxFrames,
         Len(pipe) + PagesOfFrame <= Pages
  PROVE  /\ Joined = 0 /\ NewPages = PagesOfFrame
         /\ \A k \in 1 .. PagesOfFrame :
              /\ (k - 1) * PageSize \in Nat
              /\ IF k = PagesOfFrame THEN (k - 1) * PageSize + PageSize = Size
                                     ELSE (k - 1) * PageSize + PageSize < Size
              /\ k * PageSize = (k - 1) * PageSize + PageSize
              /\ Len(NewPage(f, k)) = PageSize
              /\ \A i \in 1 .. PageSize : NewPage(f, k)[i] = <<f, (k - 1) * PageSize + i>>
<1> DEFINE n == PagesOfFrame
<1>1. n \in Nat \ {0} /\ Size = n * PageSize /\ (Size + PageSize - 1) \div PageSize = n
  BY FrameIsPages
<1>2. Joined = 0
  BY ParametersOK DEF Joined
<1>3. Accepted = Size
  <2>1. Pages - Len(pipe) \in Nat /\ Pages - Len(pipe) >= n
    BY ParametersOK, <1>1 DEF PipeInv
  <2>2. (Pages - Len(pipe)) * PageSize \in Nat /\ (Pages - Len(pipe)) * PageSize >= n * PageSize
    <3> DEFINE a == Pages - Len(pipe)
    <3>1. a \in Nat /\ a - n \in Nat
      BY <1>1, <2>1
    <3> HIDE DEF a, n
    <3>2. a * PageSize = n * PageSize + (a - n) * PageSize
      BY <1>1, <3>1, ParametersOK
    <3>3. n * PageSize \in Nat /\ (a - n) * PageSize \in Nat
      BY <1>1, <3>1, ParametersOK
    <3>4. a * PageSize \in Nat /\ a * PageSize >= n * PageSize
      BY <3>2, <3>3
    <3> QED
      BY <3>4 DEF a
  <2> QED
    BY <1>1, <1>2, <2>2, ParametersOK DEF Accepted, MinOf
<1>4. NewPages = n
  BY <1>1, <1>2, <1>3, ParametersOK DEF NewPages
<1> HIDE DEF n
<1>5. ASSUME NEW k \in 1 .. n
      PROVE  /\ (k - 1) * PageSize \in Nat
             /\ IF k = n THEN (k - 1) * PageSize + PageSize = Size
                         ELSE (k - 1) * PageSize + PageSize < Size
             /\ k * PageSize = (k - 1) * PageSize + PageSize
             /\ Len(NewPage(f, k)) = PageSize
             /\ \A i \in 1 .. PageSize : NewPage(f, k)[i] = <<f, (k - 1) * PageSize + i>>
  <2> DEFINE u == (k - 1) * PageSize
  <2>1. u \in Nat /\ k * PageSize = u + PageSize /\ k * PageSize \in Nat
        /\ (IF k = n THEN u + PageSize = Size ELSE u + PageSize < Size)
    <3>1. k - 1 \in Nat /\ k \in Nat /\ n - k \in Nat
      BY <1>1
    <3>2. u \in Nat /\ k * PageSize \in Nat /\ (n - k) * PageSize \in Nat
      BY <3>1, ParametersOK
    <3>3. k * PageSize = u + PageSize
      BY <3>1, ParametersOK
    <3>4. Size = k * PageSize + (n - k) * PageSize
      BY <1>1, <3>1, ParametersOK
    <3>5. k # n => (n - k) * PageSize > 0
      <4> SUFFICES ASSUME k # n PROVE (n - k) * PageSize > 0
        OBVIOUS
      <4>1. n - k >= 1
        BY <1>1, <3>1
      <4>2. (n - k) * PageSize >= PageSize
        BY <3>1, <4>1, ParametersOK
      <4> QED
        BY <3>2, <4>2, ParametersOK
    <3>6. k = n => (n - k) * PageSize = 0
      BY <1>1, ParametersOK
    <3> DEFINE v == k * PageSize
               w == (n - k) * PageSize
    <3> HIDE DEF u, v, w
    <3>7. /\ u \in Nat /\ v \in Nat /\ w \in Nat /\ v = u + PageSize /\ Size = v + w
          /\ k # n => w > 0
          /\ k = n => w = 0
      BY ONLY <3>2, <3>3, <3>4, <3>5, <3>6 DEF v, w
    <3>8. /\ u \in Nat /\ v = u + PageSize /\ v \in Nat
          /\ IF k = n THEN u + PageSize = Size ELSE u + PageSize < Size
      BY ONLY <3>7, ParametersOK
    <3> QED
      BY <3>8 DEF v
  <2>2. NewPage(f, k) = SubSeq(FrameOf(f), u + 1, u + PageSize)
    <3>1. Joined + u + 1 = u + 1
      BY <1>2, <2>1
    <3>2. MinOf(Joined + k * PageSize, Accepted) = u + PageSize
      BY <1>2, <1>3, <2>1, ParametersOK DEF MinOf
    <3> QED
      BY <3>1, <3>2 DEF NewPage
  <2> HIDE DEF u
  <2>3. u + 1 \in 1 .. Size /\ u + PageSize \in u + 1 .. Size /\ u + PageSize - (u + 1) + 1 = PageSize
    BY <2>1, ParametersOK
  <2> DEFINE a == u + 1
             b == u + PageSize
             s == SubSeq(FrameOf(f), a, b)
  <2>4. /\ a \in 1 .. Size /\ b \in a .. Size /\ b - a + 1 = PageSize
        /\ \A i \in 1 .. PageSize : a + i - 1 = u + i
    <3>1. \A i \in 1 .. PageSize : u + 1 + i - 1 = u + i
      BY <2>1
    <3>2. a \in 1 .. Size /\ b \in a .. Size
      BY ONLY <2>3 DEF a, b
    <3>3. b - a + 1 = PageSize
      BY ONLY <2>1, ParametersOK DEF a, b
    <3>4. \A i \in 1 .. PageSize : a + i - 1 = u + i
      BY ONLY <3>1 DEF a
    <3> QED
      BY ONLY <3>2, <3>3, <3>4
  <2>5. NewPage(f, k) = s
    BY <2>2
  <2> HIDE DEF a, b
  <2>6. Len(s) = b - a + 1 /\ \A i \in 1 .. b - a + 1 : s[i] = <<f, a + i - 1>>
    BY ONLY <2>4, f \in 0 .. MaxFrames, FramePiece DEF s
  <2> HIDE DEF s
  <2>7. Len(s) = PageSize /\ \A i \in 1 .. PageSize : s[i] = <<f, u + i>>
    BY ONLY <2>4, <2>6
  <2>8. /\ Len(NewPage(f, k)) = PageSize
        /\ \A i \in 1 .. PageSize : NewPage(f, k)[i] = <<f, u + i>>
    BY ONLY <2>5, <2>7
  <2> QED
    BY <2>1, <2>8 DEF u
<1> QED
  BY <1>2, <1>4, <1>5 DEF n

(* What holds whatever players came and went: every page is full, a write     *)
(* that is due has its pages, and before the first player the pipe is empty.  *)
WholeInv ==
  /\ \A j \in 1 .. Len(pipe) : Len(pipe[j]) = PageSize
  /\ hpc = "write" => Len(pipe) + PagesOfFrame <= Pages
  /\ players = 0 => playing = FALSE /\ fd = FALSE /\ pipe = <<>> /\ hpc \in {"geometry", "poll"}
  /\ playing = FALSE => part = <<>> /\ shown = <<>>
  /\ Len(part) < Size

LEMMA WholeInit == Init => WholeInv
<1> SUFFICES ASSUME Init PROVE WholeInv
  OBVIOUS
<1>1. /\ hpc = "geometry" /\ pipe = <<>> /\ part = <<>> /\ shown = <<>>
      /\ fd = FALSE /\ playing = FALSE
  BY DEF Init
<1>2. Len(pipe) = 0 /\ Len(part) = 0
  BY <1>1
<1> QED
  BY <1>1, <1>2, ParametersOK DEF WholeInv

LEMMA WholeNext ==
  ASSUME Size % PageSize = 0, ControlInv, PipeInv, WholeInv, [Next]_vars
  PROVE  WholeInv'
<1>1. CASE Camera \/ Geometry \/ NoReader \/ UNCHANGED vars
  <2>1. UNCHANGED <<pipe, drained, player, fd>> /\ hpc' \in {hpc, "poll"}
    BY <1>1 DEF Camera, Geometry, NoReader, vars, thread, player
  <2> QED
    BY <2>1 DEF WholeInv, player
<1>2. CASE Open
  <2>1. UNCHANGED <<pipe, drained, player, hpc>> /\ playing /\ hpc = "poll"
    BY <1>2 DEF Open
  <2>2. players # 0
    BY <2>1 DEF WholeInv
  <2> QED
    BY <2>1, <2>2 DEF WholeInv, player
<1>3. CASE Notice \/ Copy \/ Take \/ Torn \/ Handled \/ Gone
  <2>1. UNCHANGED <<pipe, drained, player, fd>> /\ hpc' # "write"
    BY <1>3 DEF Notice, Copy, Take, Torn, Handled, Gone
  <2>2. players # 0
    <3>1. fd \/ hpc \notin {"geometry", "poll"}
      BY <1>3 DEF Notice, Copy, Take, Torn, Handled, Gone
    <3> QED
      BY <3>1 DEF WholeInv
  <2> QED
    BY <2>1, <2>2 DEF WholeInv, player
<1>4. CASE Check
  <2>1. UNCHANGED <<pipe, drained, player, fd>> /\ hpc = "check" /\ (hpc' = "write" => Fits)
    BY <1>4 DEF Check
  <2>2. Fits => Len(pipe) + PagesOfFrame <= Pages
    BY RoomIsPages DEF WholeInv
  <2> QED
    BY <2>1, <2>2 DEF WholeInv, player
<1>5. CASE Write
  <2>1. pipe' = Written(taken) /\ UNCHANGED <<drained, player, fd>> /\ taken \in 0 .. MaxFrames
        /\ hpc = "write" /\ hpc' = "poll"
    BY <1>5, ParametersOK DEF Write, ControlInv, Looks, LooksInOrder
  <2>2. Len(pipe) + PagesOfFrame <= Pages /\ players # 0
    BY <2>1 DEF WholeInv
  <2>3. \A j \in 1 .. Len(pipe') : Len(pipe'[j]) = PageSize
    <3> DEFINE n == Len(pipe)
               W == pipe'
    <3>1. /\ Len(W) = n + PagesOfFrame
          /\ \A j \in 1 .. n : W[j] = pipe[j]
          /\ \A k \in 1 .. PagesOfFrame : Len(W[n + k]) = PageSize
      <4>1. /\ Joined = 0 /\ NewPages = PagesOfFrame
            /\ \A k \in 1 .. PagesOfFrame : Len(NewPage(taken, k)) = PageSize
        BY <2>1, <2>2, WholeWrite
      <4>2. /\ Len(Written(taken)) = n + NewPages
            /\ \A k \in 1 .. NewPages : Written(taken)[n + k] = NewPage(taken, k)
            /\ Joined = 0 => \A j \in 1 .. n : Written(taken)[j] = pipe[j]
        BY <2>1, WrittenPages
      <4> QED
        BY <2>1, <4>1, <4>2
    <3>2. n \in Nat /\ PagesOfFrame \in Nat /\ \A j \in 1 .. n : Len(pipe[j]) = PageSize
      BY FrameIsPages DEF PipeInv, WholeInv
    <3> HIDE DEF n, W
    <3>3. \A j \in 1 .. n : Len(W[j]) = PageSize
      BY <3>1, <3>2
    <3>4. ASSUME NEW j \in n + 1 .. n + PagesOfFrame
          PROVE  Len(W[j]) = PageSize
      <4>1. j - n \in 1 .. PagesOfFrame /\ n + (j - n) = j
        BY ONLY <3>2, j \in n + 1 .. n + PagesOfFrame
      <4>2. Len(W[n + (j - n)]) = PageSize
        BY ONLY <3>1, <4>1
      <4> QED
        BY <4>1, <4>2
    <3>5. \A j \in 1 .. Len(W) : j \in 1 .. n \/ j \in n + 1 .. n + PagesOfFrame
      BY <3>1, <3>2
    <3> QED
      BY <3>3, <3>4, <3>5 DEF W
  <2> QED
    BY <2>1, <2>2, <2>3 DEF WholeInv, player
<1>6. CASE Close
  <2>1. /\ hpc' = "poll" /\ hpc = "close" /\ UNCHANGED player
        /\ pipe' \in {pipe, <<>>}
    BY <1>6 DEF Close, Emptied
  <2>2. players # 0 /\ Len(<<>>) = 0
    BY <2>1 DEF WholeInv
  <2> QED
    BY <2>1, <2>2 DEF WholeInv, player
<1>7. CASE PlayerOpen
  <2>1. /\ players' = players + 1 /\ part' = <<>> /\ shown' = <<>>
        /\ UNCHANGED <<thread, pipe>>
    BY <1>7 DEF PlayerOpen
  <2>2. players' # 0 /\ Len(part') = 0
    BY <2>1, ParametersOK DEF ControlInv
  <2> QED
    BY <2>1, <2>2, ParametersOK DEF WholeInv, thread
<1>8. CASE PlayerQuit
  <2>1. /\ playing /\ playing' = FALSE /\ part' = <<>> /\ shown' = <<>>
        /\ UNCHANGED <<thread, players>> /\ pipe' \in {pipe, <<>>}
    BY <1>8 DEF PlayerQuit, Emptied
  <2>2. players # 0 /\ Len(<<>>) = 0 /\ Len(pipe) \in Nat
    BY <2>1 DEF WholeInv, PipeInv
  <2>3. hpc' = "write" => Len(pipe') + PagesOfFrame <= Pages
    BY <2>1, <2>2, FrameIsPages, ParametersOK DEF WholeInv, thread
  <2> QED
    BY <2>1, <2>2, <2>3, ParametersOK DEF WholeInv, thread
<1>9. ASSUME NEW k \in 1 .. PageSize, PlayerRead(k)
      PROVE  WholeInv'
  <2> DEFINE bytes == part \o SubSeq(pipe[1], drained + 1, drained + k)
  <2>1. /\ playing /\ pipe # <<>> /\ k <= Len(pipe[1]) - drained /\ k <= Size - Len(part)
        /\ pipe' \in {pipe, Tail(pipe)}
        /\ \/ Len(bytes) = Size /\ part' = <<>>
           \/ Len(bytes) # Size /\ part' = bytes
        /\ UNCHANGED <<thread, playing, players>>
    BY <1>9 DEF PlayerRead
  <2>2. Len(bytes) = Len(part) + k
    BY ONLY <1>9, <2>1, PipeInv, ReadFacts
  <2> HIDE DEF bytes
  <2>3. Len(part') < Size
    <3>1. Len(part) \in Nat /\ Len(<<>>) = 0
      BY DEF PipeInv
    <3>2. Len(part) + k <= Size
      BY <2>1, <3>1, ParametersOK
    <3> QED
      BY <2>1, <2>2, <3>1, <3>2, ParametersOK
  <2>4. /\ Len(pipe') <= Len(pipe) /\ Len(pipe') \in Nat /\ Len(pipe) \in Nat
        /\ \A j \in 1 .. Len(pipe') : Len(pipe'[j]) = PageSize
    <3>1. CASE pipe' = pipe
      BY <3>1 DEF WholeInv, PipeInv
    <3>2. CASE pipe' = Tail(pipe)
      <4>1. /\ Len(pipe') = Len(pipe) - 1 /\ Len(pipe) \in 1 .. Pages
            /\ \A j \in 1 .. Len(pipe) - 1 : pipe'[j] = pipe[j + 1]
        BY <2>1, <3>2, PipeTail
      <4>2. \A j \in 1 .. Len(pipe) - 1 : j + 1 \in 1 .. Len(pipe)
        BY <4>1, ParametersOK
      <4> QED
        BY <4>1, <4>2, ParametersOK DEF WholeInv
    <3> QED
      BY <2>1, <3>1, <3>2
  <2>5. players # 0
    BY <2>1 DEF WholeInv
  <2>6. hpc' = "write" => Len(pipe') + PagesOfFrame <= Pages
    BY <2>1, <2>4, FrameIsPages, ParametersOK DEF WholeInv, thread
  <2> QED
    BY <2>1, <2>3, <2>4, <2>5, <2>6 DEF WholeInv
<1> QED
  BY <1>1, <1>2, <1>3, <1>4, <1>5, <1>6, <1>7, <1>8, <1>9 DEF Next, Thread, Reads

(* Every page of q holds a run of one frame's bytes, each run goes on where   *)
(* the page before left off, and the last page ends its frame.               *)
Runs(q) ==
  \A j \in 1 .. Len(q) : \A i \in 1 .. PageSize : q[j][i] = <<q[j][1][1], q[j][1][2] + i - 1>>

Linked(q) ==
  \A j \in 1 .. Len(q) :
    IF q[j][1][2] + PageSize - 1 = Size
      THEN j < Len(q) => q[j + 1][1][2] = 1
      ELSE j < Len(q) /\ q[j + 1][1] = <<q[j][1][1], q[j][1][2] + PageSize>>

(* The player's part p of a frame ends where what is left of q begins, d      *)
(* bytes into its first page.                                                *)
Continued(q, d, p) ==
  IF q = <<>> THEN p = <<>>
  ELSE /\ Len(p) + 1 = q[1][1][2] + d
       /\ \A i \in 1 .. Len(p) : p[i] = <<q[1][1][1], i>>

StreamInv ==
  players = 1 /\ playing =>
    Runs(pipe) /\ Linked(pipe) /\ Continued(pipe, drained, part) /\ NeverPartial

(* Where a page's run begins.                                                *)
LEMMA RunBegins ==
  ASSUME PipeInv, WholeInv, Runs(pipe), NEW j \in 1 .. Len(pipe)
  PROVE  /\ pipe[j][1][1] \in 0 .. MaxFrames /\ pipe[j][1][2] \in 1 .. Size
         /\ pipe[j][1][2] + PageSize - 1 <= Size
<1>1. pipe[j] \in Seq(Bytes) /\ Len(pipe[j]) = PageSize
  BY DEF PipeInv, WholeInv
<1>2. pipe[j][1] \in Bytes /\ pipe[j][PageSize] \in Bytes
  BY <1>1, ParametersOK
<1>3. pipe[j][PageSize] = <<pipe[j][1][1], pipe[j][1][2] + PageSize - 1>>
  BY ParametersOK DEF Runs
<1> QED
  BY <1>2, <1>3 DEF Bytes

(* Taking the first page off leaves runs, linked.                            *)
LEMMA StreamTail ==
  ASSUME PipeInv, pipe # <<>>, Runs(pipe), Linked(pipe)
  PROVE  Runs(Tail(pipe)) /\ Linked(Tail(pipe))
<1> DEFINE t == Tail(pipe)
           n == Len(pipe)
<1>1. Len(t) = n - 1 /\ n \in Nat \ {0} /\ \A j \in 1 .. n - 1 : t[j] = pipe[j + 1]
  BY PipeTail
<1> HIDE DEF t
<1>2. \A j \in 1 .. n - 1 : j + 1 \in 1 .. n
  BY <1>1
<1>3. Runs(t)
  <2> SUFFICES ASSUME NEW j \in 1 .. n - 1, NEW i \in 1 .. PageSize
               PROVE  t[j][i] = <<t[j][1][1], t[j][1][2] + i - 1>>
    BY <1>1 DEF Runs
  <2>1. pipe[j + 1][i] = <<pipe[j + 1][1][1], pipe[j + 1][1][2] + i - 1>>
    BY <1>2 DEF Runs
  <2> QED
    BY ONLY <1>1, <2>1, j \in 1 .. n - 1
<1>4. Linked(t)
  <2> SUFFICES ASSUME NEW j \in 1 .. n - 1
               PROVE  IF t[j][1][2] + PageSize - 1 = Size
                        THEN j < n - 1 => t[j + 1][1][2] = 1
                        ELSE j < n - 1 /\ t[j + 1][1] = <<t[j][1][1], t[j][1][2] + PageSize>>
    BY <1>1 DEF Linked
  <2>1. j + 1 \in 1 .. n /\ t[j] = pipe[j + 1] /\ (j < n - 1 <=> j + 1 < n)
    BY <1>1
  <2>2. IF t[j][1][2] + PageSize - 1 = Size
          THEN j + 1 < n => pipe[(j + 1) + 1][1][2] = 1
          ELSE j + 1 < n /\ pipe[(j + 1) + 1][1] = <<t[j][1][1], t[j][1][2] + PageSize>>
    BY <2>1 DEF Linked
  <2>3. j < n - 1 => t[j + 1] = pipe[(j + 1) + 1]
    BY <1>1
  <2> QED
    BY ONLY <2>1, <2>2, <2>3
<1> QED
  BY <1>3, <1>4 DEF t

(* A write of a whole frame appends its runs.                                *)
LEMMA StreamWritten ==
  ASSUME Size % PageSize = 0, PipeInv, WholeInv, Runs(pipe), Linked(pipe),
         NEW f \in 0 .. MaxFrames, Len(pipe) + PagesOfFrame <= Pages
  PROVE  /\ Runs(Written(f)) /\ Linked(Written(f)) /\ Written(f) # <<>>
         /\ pipe = <<>> => Written(f)[1][1] = <<f, 1>>
         /\ pipe # <<>> => Written(f)[1] = pipe[1]
<1> DEFINE n == Len(pipe)
           m == PagesOfFrame
           W == Written(f)
           from(k) == (k - 1) * PageSize
<1>1. /\ Joined = 0 /\ NewPages = m
      /\ \A k \in 1 .. m :
           /\ from(k) \in Nat
           /\ IF k = m THEN from(k) + PageSize = Size ELSE from(k) + PageSize < Size
           /\ k * PageSize = from(k) + PageSize
           /\ \A i \in 1 .. PageSize : NewPage(f, k)[i] = <<f, from(k) + i>>
  BY WholeWrite
<1>2. /\ Len(W) = n + m
      /\ \A j \in 1 .. n : W[j] = pipe[j]
      /\ \A k \in 1 .. m : W[n + k] = NewPage(f, k)
  BY <1>1, WrittenPages
<1>3. n \in Nat /\ m \in Nat \ {0}
  BY FrameIsPages DEF PipeInv
<1>4. from(1) = 0 /\ \A k \in 1 .. m : from(k + 1) = k * PageSize
  BY <1>3, ParametersOK
<1> HIDE DEF W, from, m
<1>5. \A k \in 1 .. m : \A i \in 1 .. PageSize : W[n + k][i] = <<f, from(k) + i>>
  BY <1>1, <1>2
<1>6. \A k \in 1 .. m : W[n + k][1] = <<f, from(k) + 1>>
  BY <1>5, ParametersOK
<1>7. \A j \in 1 .. Len(W) : j \in 1 .. n \/ (j - n \in 1 .. m /\ j = n + (j - n))
  BY <1>2, <1>3
<1>8. Runs(W)
  <2>1. ASSUME NEW j \in 1 .. n, NEW i \in 1 .. PageSize
        PROVE  W[j][i] = <<W[j][1][1], W[j][1][2] + i - 1>>
    BY <1>2, <2>1 DEF Runs
  <2>2. ASSUME NEW k \in 1 .. m, NEW i \in 1 .. PageSize
        PROVE  W[n + k][i] = <<W[n + k][1][1], W[n + k][1][2] + i - 1>>
    <3>1. from(k) \in Nat /\ W[n + k][i] = <<f, from(k) + i>> /\ W[n + k][1] = <<f, from(k) + 1>>
      BY <1>1, <1>5, <1>6
    <3>2. from(k) + 1 + i - 1 = from(k) + i
      BY <3>1
    <3> QED
      BY ONLY <3>1, <3>2
  <2>3. ASSUME NEW j \in 1 .. Len(W), NEW i \in 1 .. PageSize
        PROVE  W[j][i] = <<W[j][1][1], W[j][1][2] + i - 1>>
    <3>1. CASE j \in 1 .. n
      BY <2>1, <3>1
    <3>2. CASE j - n \in 1 .. m /\ j = n + (j - n)
      <4>1. W[n + (j - n)][i] = <<W[n + (j - n)][1][1], W[n + (j - n)][1][2] + i - 1>>
        BY ONLY <2>2, <3>2, i \in 1 .. PageSize
      <4> QED
        BY <3>2, <4>1
    <3> QED
      BY <1>7, <3>1, <3>2
  <2> QED
    BY <2>3 DEF Runs
<1>9. Linked(W)
  <2> DEFINE Link(j) ==
        IF W[j][1][2] + PageSize - 1 = Size
          THEN j < Len(W) => W[j + 1][1][2] = 1
          ELSE j < Len(W) /\ W[j + 1][1] = <<W[j][1][1], W[j][1][2] + PageSize>>
  <2>1. ASSUME NEW j \in 1 .. n
        PROVE  Link(j)
    <3>1. W[j] = pipe[j] /\ j < Len(W)
      BY <1>2, <1>3
    <3>2. CASE j < n
      <4>1. W[j + 1] = pipe[j + 1]
        BY <1>2, <1>3, <3>2
      <4>2. IF pipe[j][1][2] + PageSize - 1 = Size
              THEN pipe[j + 1][1][2] = 1
              ELSE pipe[j + 1][1] = <<pipe[j][1][1], pipe[j][1][2] + PageSize>>
        BY <3>2 DEF Linked
      <4> QED
        BY ONLY <3>1, <4>1, <4>2
    <3>3. CASE j = n
      <4>1. pipe[j][1][2] + PageSize - 1 = Size
        BY <3>3 DEF Linked
      <4>2. W[n + 1][1] = <<f, 0 + 1>>
        BY <1>3, <1>4, <1>6
      <4> QED
        BY ONLY <3>1, <3>3, <4>1, <4>2
    <3> QED
      BY <1>3, <3>2, <3>3
  <2>2. ASSUME NEW k \in 1 .. m
        PROVE  Link(n + k)
    <3>1. /\ W[n + k][1] = <<f, from(k) + 1>> /\ from(k) \in Nat
          /\ IF k = m THEN from(k) + PageSize = Size ELSE from(k) + PageSize < Size
      BY <1>1, <1>6
    <3>2. W[n + k][1][2] + PageSize - 1 = from(k) + PageSize
      BY <3>1, ParametersOK
    <3>3. CASE k = m
      <4>1. ~ (n + k < Len(W)) /\ W[n + k][1][2] + PageSize - 1 = Size
        BY <1>2, <1>3, <3>1, <3>2, <3>3
      <4> QED
        BY ONLY <4>1
    <3>4. CASE k # m
      <4>1. n + k < Len(W) /\ W[n + k][1][2] + PageSize - 1 # Size /\ k + 1 \in 1 .. m
        BY <1>2, <1>3, <3>1, <3>2, <3>4, ParametersOK
      <4>2. W[n + (k + 1)][1] = <<f, from(k + 1) + 1>>
        BY ONLY <1>6, <4>1
      <4>3. from(k + 1) = from(k) + PageSize
        BY <1>1, <1>4
      <4>4. n + (k + 1) = n + k + 1
        BY <1>3
      <4>5. W[n + k + 1][1] = <<f, from(k) + PageSize + 1>>
        BY ONLY <4>2, <4>3, <4>4
      <4>6. from(k) + PageSize + 1 = W[n + k][1][2] + PageSize /\ W[n + k][1][1] = f
        BY <3>1, ParametersOK
      <4>7. W[n + k + 1][1] = <<W[n + k][1][1], W[n + k][1][2] + PageSize>>
        BY ONLY <4>5, <4>6
      <4> QED
        BY ONLY <4>1, <4>7
    <3> QED
      BY <3>3, <3>4
  <2>3. ASSUME NEW j \in 1 .. Len(W)
        PROVE  Link(j)
    <3> HIDE DEF Link
    <3>1. CASE j \in 1 .. n
      BY <2>1, <3>1
    <3>2. CASE j - n \in 1 .. m /\ j = n + (j - n)
      <4>1. Link(n + (j - n))
        BY ONLY <2>2, <3>2
      <4> QED
        BY <3>2, <4>1
    <3> QED
      BY <1>7, <3>1, <3>2
  <2> QED
    BY <2>3 DEF Linked
<1>10. W # <<>>
  BY <1>2, <1>3
<1>11. pipe = <<>> => W[1][1] = <<f, 1>>
  <2> SUFFICES ASSUME pipe = <<>> PROVE W[1][1] = <<f, 1>>
    OBVIOUS
  <2>1. n = 0
    OBVIOUS
  <2>2. W[n + 1][1] = <<f, from(1) + 1>>
    BY <1>3, <1>6
  <2> QED
    BY <1>4, <2>1, <2>2
<1>12. pipe # <<>> => W[1] = pipe[1]
  <2>1. pipe # <<>> => 1 \in 1 .. n
    BY DEF PipeInv
  <2> QED
    BY <1>2, <2>1
<1> QED
  BY <1>8, <1>9, <1>10, <1>11, <1>12 DEF W

(* A read goes on where the part so far ends, so that what is complete is     *)
(* one frame.                                                                *)
LEMMA StreamRead ==
  ASSUME PipeInv, WholeInv, Runs(pipe), Linked(pipe), Continued(pipe, drained, part), NeverPartial,
         NEW k \in 1 .. PageSize, PlayerRead(k)
  PROVE  Runs(pipe') /\ Linked(pipe') /\ Continued(pipe', drained', part') /\ NeverPartial'
<1> DEFINE got == SubSeq(pipe[1], drained + 1, drained + k)
           bytes == part \o got
           f == pipe[1][1][1]
           a == pipe[1][1][2]
<1>1. pipe # <<>> /\ k <= Len(pipe[1]) - drained /\ k <= Size - Len(part)
  BY DEF PlayerRead
<1>2. 1 \in 1 .. Len(pipe) /\ Len(pipe[1]) = PageSize /\ drained \in Nat /\ part \in Seq(Bytes)
  BY <1>1 DEF PipeInv, WholeInv
<1>3. f \in 0 .. MaxFrames /\ a \in 1 .. Size /\ a + PageSize - 1 <= Size
  BY <1>2, RunBegins
<1>4. \A i \in 1 .. PageSize : pipe[1][i] = <<f, a + i - 1>>
  BY <1>2 DEF Runs
<1>5. Len(part) + 1 = a + drained /\ \A i \in 1 .. Len(part) : part[i] = <<f, i>>
  BY <1>1 DEF Continued
<1>6. /\ bytes \in Seq(Bytes) /\ Len(bytes) = Len(part) + k /\ \A i \in 1 .. k : got[i] = pipe[1][drained + i]
      /\ \A i \in 1 .. Len(part) + k : bytes[i] = IF i <= Len(part) THEN part[i] ELSE got[i - Len(part)]
  BY ONLY <1>1, PipeInv, k \in 1 .. PageSize, ReadFacts
<1>7. /\ \/ drained + k = Len(pipe[1]) /\ pipe' = Tail(pipe) /\ drained' = 0
         \/ drained + k # Len(pipe[1]) /\ pipe' = pipe /\ drained' = drained + k
      /\ \/ Len(bytes) = Size /\ shown' = bytes /\ part' = <<>>
         \/ Len(bytes) # Size /\ shown' = shown /\ part' = bytes
  BY DEF PlayerRead
<1> DEFINE p == pipe[1]
<1>8. \A i \in 1 .. PageSize : p[i] = <<f, a + i - 1>>
  BY <1>4
<1>9. \A i \in 1 .. k : got[i] = p[drained + i]
  BY <1>6
<1>10. k <= PageSize - drained /\ Len(part) \in Nat /\ k \in Nat \ {0}
  BY <1>1, <1>2, ParametersOK
<1> HIDE DEF got, bytes, f, a, p
<1>11. \A i \in 1 .. Len(bytes) : bytes[i] = <<f, i>>
  <2> SUFFICES ASSUME NEW i \in 1 .. Len(part) + k
               PROVE  bytes[i] = <<f, i>>
    BY <1>6
  <2>1. CASE i <= Len(part)
    <3>1. i \in 1 .. Len(part) /\ bytes[i] = part[i]
      BY ONLY <1>6, <1>10, <2>1, i \in 1 .. Len(part) + k
    <3> QED
      BY ONLY <1>5, <3>1
  <2>2. CASE i > Len(part)
    <3> DEFINE h == i - Len(part)
    <3>1. h \in 1 .. k /\ bytes[i] = got[h]
      BY ONLY <1>6, <1>10, <2>2, i \in 1 .. Len(part) + k
    <3>2. drained + h \in 1 .. PageSize /\ a + (drained + h) - 1 = i
      BY ONLY <1>2, <1>3, <1>5, <1>10, <2>2, i \in 1 .. Len(part) + k, ParametersOK
    <3> HIDE DEF h
    <3>3. got[h] = p[drained + h] /\ p[drained + h] = <<f, a + (drained + h) - 1>>
      BY ONLY <1>8, <1>9, <3>1, <3>2
    <3> QED
      BY ONLY <3>1, <3>2, <3>3
  <2> QED
    BY <1>10, <2>1, <2>2
<1>12. NeverPartial'
  <2>1. CASE Len(bytes) = Size /\ shown' = bytes
    <3>1. bytes = [i \in 1 .. Len(bytes) |-> bytes[i]]
      BY ONLY <1>6
    <3>2. bytes = FrameOf(f)
      BY ONLY <1>11, <2>1, <3>1 DEF FrameOf
    <3> QED
      BY ONLY <1>3, <2>1, <3>2 DEF NeverPartial, FrameOf
  <2>2. CASE shown' = shown
    BY <2>2 DEF NeverPartial, FrameOf
  <2> QED
    BY <1>7, <2>1, <2>2
<1>13. CASE drained + k = Len(pipe[1]) /\ pipe' = Tail(pipe) /\ drained' = 0
  <2>1. Runs(pipe') /\ Linked(pipe')
    BY <1>1, <1>13, StreamTail
  <2>2. Len(bytes) = a + PageSize - 1
    <3>1. drained + k = PageSize /\ Len(bytes) = Len(part) + k /\ Len(part) + 1 = a + drained
      BY ONLY <1>2, <1>5, <1>6, <1>13
    <3> QED
      BY ONLY <1>2, <1>3, <1>10, <3>1, ParametersOK
  <2>3. /\ Len(pipe') = Len(pipe) - 1 /\ Len(pipe) \in Nat
        /\ \A j \in 1 .. Len(pipe) - 1 : pipe'[j] = pipe[j + 1]
        /\ pipe' \in Seq(Seq(Bytes))
    BY <1>1, <1>13, PipeTail
  <2>4. 1 < Len(pipe) => pipe' # <<>> /\ pipe'[1] = pipe[2]
    <3>1. 1 < Len(pipe) => 1 \in 1 .. Len(pipe) - 1 /\ 1 + 1 = 2 /\ Len(pipe') > 0
      BY ONLY <2>3
    <3> QED
      BY ONLY <2>3, <3>1
  <2>5. pipe' # <<>> => 1 < Len(pipe)
    BY ONLY <2>3
  <2>6. IF a + PageSize - 1 = Size
          THEN 1 < Len(pipe) => pipe[2][1][2] = 1
          ELSE 1 < Len(pipe) /\ pipe[2][1] = <<f, a + PageSize>>
    BY <1>2 DEF Linked, a, f
  <2>7. CASE Len(bytes) = Size
    <3>1. part' = <<>>
      BY <1>7, <2>7
    <3>2. pipe' # <<>> => pipe'[1][1][2] = 1
      BY <2>2, <2>4, <2>5, <2>6, <2>7
    <3> QED
      BY <1>12, <1>13, <2>1, <3>1, <3>2 DEF Continued
  <2>8. CASE Len(bytes) # Size
    <3>1. part' = bytes
      BY <1>7, <2>8
    <3>2. pipe' # <<>> /\ pipe'[1][1] = <<f, a + PageSize>>
      BY <2>2, <2>4, <2>6, <2>8
    <3>3. Len(bytes) + 1 = a + PageSize + 0
      BY <1>3, <2>2, ParametersOK
    <3>4. Continued(pipe', drained', part')
      BY ONLY <1>11, <1>13, <3>1, <3>2, <3>3 DEF Continued
    <3> QED
      BY <1>12, <2>1, <3>4
  <2> QED
    BY <2>7, <2>8
<1>14. CASE drained + k # Len(pipe[1]) /\ pipe' = pipe /\ drained' = drained + k
  <2>1. Runs(pipe') /\ Linked(pipe')
    BY <1>14
  <2>2. Len(bytes) + 1 = a + drained' /\ Len(bytes) # Size
    <3>1. /\ drained + k # PageSize /\ drained' = drained + k
          /\ Len(bytes) = Len(part) + k /\ Len(part) + 1 = a + drained
      BY ONLY <1>2, <1>5, <1>6, <1>14
    <3> QED
      BY ONLY <1>2, <1>3, <1>10, <3>1, ParametersOK
  <2>3. part' = bytes /\ pipe' # <<>> /\ pipe' = pipe
    BY <1>1, <1>7, <1>14, <2>2
  <2>4. Continued(pipe', drained', part')
    BY ONLY <1>11, <2>2, <2>3 DEF Continued, a, f
  <2> QED
    BY <1>12, <2>1, <2>4
<1> QED
  BY <1>7, <1>13, <1>14

LEMMA StreamInit == Init => StreamInv
  BY DEF Init, StreamInv

LEMMA StreamNext ==
  ASSUME Size % PageSize = 0, ControlInv, PipeInv, WholeInv, StreamInv, [Next]_vars
  PROVE  StreamInv'
<1>1. CASE UNCHANGED <<pipe, drained, player>>
  BY <1>1 DEF StreamInv, player, Runs, Linked, Continued, NeverPartial, FrameOf
<1>2. CASE Write
  <2>1. pipe' = Written(taken) /\ UNCHANGED <<drained, player>> /\ hpc = "write"
        /\ taken \in 0 .. MaxFrames
    BY <1>2, ParametersOK DEF Write, ControlInv, Looks, LooksInOrder
  <2>2. Len(pipe) + PagesOfFrame <= Pages
    BY <2>1 DEF WholeInv
  <2> SUFFICES ASSUME players = 1, playing
               PROVE  Runs(pipe') /\ Linked(pipe') /\ Continued(pipe', drained', part') /\ NeverPartial'
    BY <2>1 DEF StreamInv, player
  <2>3. Runs(pipe) /\ Linked(pipe) /\ Continued(pipe, drained, part) /\ NeverPartial
    BY DEF StreamInv
  <2>4. /\ Runs(pipe') /\ Linked(pipe') /\ pipe' # <<>>
        /\ pipe = <<>> => pipe'[1][1] = <<taken, 1>>
        /\ pipe # <<>> => pipe'[1] = pipe[1]
    BY <2>1, <2>2, <2>3, StreamWritten
  <2>5. Continued(pipe', drained', part')
    <3>1. CASE pipe = <<>>
      <4>1. drained = 0 /\ part = <<>>
        BY <2>3, <3>1 DEF PipeInv, Continued
      <4> QED
        BY <2>1, <2>4, <3>1, <4>1 DEF Continued, player
    <3>2. CASE pipe # <<>>
      BY <2>1, <2>3, <2>4, <3>2 DEF Continued, player
    <3> QED
      BY <3>1, <3>2
  <2> QED
    BY <2>1, <2>3, <2>4, <2>5 DEF NeverPartial, FrameOf, player
<1>3. CASE Close
  <2>1. CASE playing
    <3>1. UNCHANGED <<pipe, drained, player>>
      BY <1>3, <2>1 DEF Close, Emptied
    <3> QED
      BY <1>1, <3>1
  <2>2. CASE ~ playing
    <3>1. ~ playing'
      BY <1>3, <2>2 DEF Close, player
    <3> QED
      BY <3>1 DEF StreamInv
  <2> QED
    BY <2>1, <2>2
<1>4. CASE PlayerOpen
  <2>1. players' = players + 1 /\ part' = <<>> /\ shown' = <<>> /\ UNCHANGED <<pipe, drained>>
    BY <1>4 DEF PlayerOpen
  <2> SUFFICES ASSUME players' = 1
               PROVE  StreamInv'
    BY DEF StreamInv
  <2>2. pipe' = <<>>
    BY <2>1 DEF WholeInv, ControlInv
  <2> QED
    BY <2>1, <2>2 DEF StreamInv, Runs, Linked, Continued, NeverPartial
<1>5. CASE PlayerQuit
  <2>1. ~ playing'
    BY <1>5 DEF PlayerQuit
  <2> QED
    BY <2>1 DEF StreamInv
<1>6. ASSUME NEW k \in 1 .. PageSize, PlayerRead(k)
      PROVE  StreamInv'
  <2>1. UNCHANGED <<playing, players>>
    BY <1>6 DEF PlayerRead
  <2> SUFFICES ASSUME players = 1, playing
               PROVE  Runs(pipe') /\ Linked(pipe') /\ Continued(pipe', drained', part') /\ NeverPartial'
    BY <2>1 DEF StreamInv
  <2> QED
    BY <1>6, StreamRead DEF StreamInv
<1> QED
  BY <1>1, <1>2, <1>3, <1>4, <1>5, <1>6
     DEF Next, Thread, Camera, Geometry, Open, NoReader, Notice, Copy, Take, Torn, Handled, Check,
         Gone, Reads, vars, player

(***************************************************************************)
(* "the host drops whole frames (never partial)" (README): with frames that   *)
(* fill whole pages, as YUY2 frames of 640x480 and 1280x720 do with pages of  *)
(* 4096 bytes, every frame the first player puts together is one frame of     *)
(* the camera, however it reads and however long it is slow.                  *)
(***************************************************************************)
THEOREM FirstPlayerSeesWholeFrames ==
  ASSUME Size % PageSize = 0
  PROVE  Spec => []WholeForTheFirst
<1> DEFINE IInv == ControlInv /\ PipeInv /\ WholeInv /\ StreamInv
<1>1. Init => IInv
  BY ControlInit, PipeInit, WholeInit, StreamInit
<1>2. IInv /\ [Next]_vars => IInv'
  BY ControlNext, PipeNext, WholeNext, StreamNext
<1>3. IInv => WholeForTheFirst
  <2> SUFFICES ASSUME IInv, players = 1 PROVE NeverPartial
    BY DEF WholeForTheFirst
  <2>1. CASE playing
    BY <2>1 DEF StreamInv
  <2>2. CASE ~ playing
    BY <2>2 DEF WholeInv, ControlInv, NeverPartial
  <2> QED
    BY <2>1, <2>2
<1> QED
  BY <1>1, <1>2, <1>3, PTL DEF Spec

=============================================================================
