---------------------------- MODULE AudioRingProofs ----------------------------
(***************************************************************************)
(* Proofs about AudioRing, for every ring size, frame size, set of pushes    *)
(* and set of windows: the seqlock argument (Inv) and what follows from it.  *)
(***************************************************************************)
EXTENDS AudioRing, ModularArithmetic

Parameters ==
  /\ Cap \in Nat \ {0} /\ Frame \in Nat \ {0}
  /\ PushSizes \subseteq Nat
  /\ \A len \in PushSizes : len % Frame = 0
  /\ Windows \subseteq 0 .. Cap
  /\ \A w \in Windows : w % Frame = 0
  /\ MaxLatency \in Nat /\ MaxTail \in Nat /\ MaxCrashes \in Nat

(* What the provers may use of the constants' assumptions.                   *)
LEMMA ParametersOK == Parameters
  BY CapIsPowerOfTwo, FrameIsPositive, PushesAreFrames, WindowsAreFrames,
     BoundsAreNaturals
  DEF Parameters

-----------------------------------------------------------------------------
(* The arithmetic of the two operations.                                     *)

(* AlignDown cuts to whole frames and loses less than one of them.           *)
LEMMA AlignDownFacts ==
  ASSUME NEW b \in Nat
  PROVE  /\ AlignDown(b) \in Nat /\ AlignDown(b) <= b /\ b < AlignDown(b) + Frame
         /\ AlignDown(b) % Frame = 0
         /\ b % Frame = 0 => AlignDown(b) = b
  BY ParametersOK, CutDown, CutAligned DEF AlignDown, Parameters

(* A position has a cell of the payload.                                     *)
LEMMA MaskFacts ==
  ASSUME NEW p \in Int
  PROVE  Mask(p) \in 0 .. Cap - 1
  BY ParametersOK, DivMod DEF Mask, Parameters

(* What survives of a slice fits the ring.                                   *)
LEMMA KeepNewestFacts ==
  ASSUME NEW len \in PushSizes
  PROVE  /\ len \in Nat /\ KeepNewest(len) \in 0 .. Cap /\ KeepNewest(len) <= len
  BY ParametersOK DEF KeepNewest, MinOf, Parameters

(* A read starts at or after the old head, within budget of the tail, and    *)
(* leaves the old head only when the backlog exceeds the budget.             *)
LEMMA StartAtFacts ==
  ASSUME NEW h \in Nat, NEW t \in Nat, h <= t, NEW w \in Nat
  PROVE  /\ Budget(w) \in Nat /\ Budget(w) % Frame = 0
         /\ Budget(w) <= w + MaxLatency /\ w + MaxLatency < Budget(w) + Frame
         /\ StartAt(h, t, w) \in h .. t
         /\ t - StartAt(h, t, w) <= Budget(w)
         /\ StartAt(h, t, w) = h
            \/ (StartAt(h, t, w) = t - Budget(w) /\ t - h > Budget(w))
<1>1. w + MaxLatency \in Nat
  BY ParametersOK DEF Parameters
<1>2. /\ Budget(w) \in Nat /\ Budget(w) % Frame = 0
      /\ Budget(w) <= w + MaxLatency /\ w + MaxLatency < Budget(w) + Frame
  BY <1>1, AlignDownFacts DEF Budget
<1> QED
  BY <1>2 DEF StartAt, MinOf

(* A read of whole frames takes the window, or all the whole frames there.   *)
LEMMA WantAtFacts ==
  ASSUME NEW w \in Nat, w % Frame = 0, NEW t \in Nat, NEW start \in 0 .. t
  PROVE  /\ WantAt(start, t, w) \in 0 .. w
         /\ start + WantAt(start, t, w) <= t
         /\ WantAt(start, t, w) % Frame = 0
         /\ WantAt(start, t, w) = w \/ WantAt(start, t, w) = AlignDown(t - start)
<1>1. t - start \in Nat
  OBVIOUS
<1>2. AlignDown(w) = w
  BY <1>1, AlignDownFacts
<1>3. CASE w <= t - start
  <2>1. WantAt(start, t, w) = w
    BY <1>1, <1>2, <1>3 DEF WantAt, MinOf
  <2> QED
    BY <1>1, <1>3, <2>1
<1>4. CASE ~ (w <= t - start)
  <2>1. WantAt(start, t, w) = AlignDown(t - start)
    BY <1>1, <1>2, <1>4 DEF WantAt, MinOf
  <2>2. /\ AlignDown(t - start) \in Nat /\ AlignDown(t - start) <= t - start
        /\ AlignDown(t - start) % Frame = 0
    BY <1>1, AlignDownFacts
  <2> QED
    BY <1>1, <1>4, <2>1, <2>2
<1> QED
  BY <1>3, <1>4

-----------------------------------------------------------------------------
(* The invariant, action by action.                                          *)

(* A freshly initialized ring satisfies the invariant.                       *)
LEMMA InitInv == Init => Inv
<1> SUFFICES ASSUME Init PROVE Inv
  OBVIOUS
<1>1. TypeOK
  BY ParametersOK DEF Init, TypeOK, Positions, Parameters
<1>2. PushInv
  BY ParametersOK DEF Init, PushInv, Parameters
<1>3. RingInv
  BY ParametersOK DEF Init, RingInv, Positions, Parameters
<1> QED
  BY <1>1, <1>2, <1>3 DEF Init, Inv, SnapshotInv, ReadInv, CopyInv, RecheckInv

(* Inv speaks of neither lost nor chunk, nor of anything a stutter changes.  *)
LEMMA StutterInv ==
  ASSUME Inv, UNCHANGED vars
  PROVE  Inv'
  BY DEF Inv, vars, TypeOK, PushInv, RingInv, SnapshotInv, ReadInv, CopyInv, RecheckInv

(* Making seq odd parts every reader's s0 from it.                           *)
LEMMA PushBeginInv ==
  ASSUME Inv, NEW len \in PushSizes, PushBegin(len)
  PROVE  Inv'
<1> USE DEF Inv, PushBegin
<1>1. KeepNewest(len) \in 0 .. Cap /\ KeepNewest(len) <= len /\ len \in Nat
  BY KeepNewestFacts
<1>2. TypeOK'
  BY <1>1, ParametersOK DEF TypeOK, Parameters, reads
<1>3. PushInv'
  <2>1. seq \in Nat /\ seq % 2 = 0
    BY DEF TypeOK, PushInv
  <2>2. seq' % 2 # 0
    BY <2>1
  <2> QED
    BY <1>1, <2>2 DEF PushInv
<1>4. RingInv'
  <2>1. wrote = 0
    BY DEF TypeOK, PushInv
  <2> QED
    BY <2>1 DEF RingInv
<1>5. seq \in Nat /\ s0 \in Nat /\ seq' = seq + 1
  BY DEF TypeOK
<1>6. SnapshotInv' /\ ReadInv' /\ CopyInv' /\ RecheckInv'
  BY <1>5 DEF SnapshotInv, ReadInv, CopyInv, RecheckInv, reads
<1> QED
  BY <1>2, <1>3, <1>4, <1>6

(* A stored byte is the newest of its cell; the cell's old byte is Cap behind. *)
LEMMA PushByteInv ==
  ASSUME Inv, PushByte
  PROVE  Inv'
<1> USE DEF Inv, PushByte
<1>1. /\ tail \in Nat /\ wrote \in Nat /\ n \in 0 .. Cap /\ wrote < n
      /\ tail + wrote \in Positions /\ Cap \in Nat \ {0}
  BY ParametersOK DEF TypeOK, PushInv, Positions, Parameters
<1>2. TypeOK'
  <2>1. payload' \in [0 .. Cap - 1 -> Positions \cup {Stale}]
    BY <1>1 DEF TypeOK
  <2> QED
    BY <1>1, <2>1 DEF TypeOK, header, reads
<1>3. PushInv'
  BY DEF PushInv, header
<1>4. RingInv'
  <2> SUFFICES ASSUME NEW p \in Positions,
                      tail + (wrote + 1) - Cap <= p, p < tail + (wrote + 1)
               PROVE  payload'[Mask(p)] = p
    BY DEF RingInv, header
  <2>1. Mask(p) \in 0 .. Cap - 1 /\ Mask(tail + wrote) \in 0 .. Cap - 1 /\ p \in Int
    BY <1>1, ParametersOK, MaskFacts DEF Positions, Parameters
  <2>2. CASE p = tail + wrote
    BY <2>1, <2>2 DEF TypeOK
  <2>3. CASE p # tail + wrote
    <3>1. p - (tail + wrote) < Cap /\ (tail + wrote) - p < Cap
      BY <1>1, <2>1
    <3>2. Mask(p) # Mask(tail + wrote)
      <4> DEFINE q == tail + wrote
      <4>1. q \in Int /\ p \in Int /\ Cap \in Nat \ {0} /\ p - q < Cap /\ q - p < Cap /\ p # q
        BY <1>1, <2>1, <2>3, <3>1
      <4> HIDE DEF q
      <4>2. p % Cap # q % Cap
        BY <4>1, CellOfOne
      <4> QED
        BY <4>2 DEF q, Mask
    <3>3. payload[Mask(p)] = p
      BY <1>1, <2>1, <2>3 DEF RingInv
    <3> QED
      BY <2>1, <3>2, <3>3 DEF TypeOK
  <2> QED
    BY <2>2, <2>3
<1>5. SnapshotInv' /\ ReadInv' /\ CopyInv' /\ RecheckInv'
  BY DEF SnapshotInv, ReadInv, CopyInv, RecheckInv, reads, header
<1> QED
  BY <1>2, <1>3, <1>4, <1>5 DEF header

(* Publishing tail moves the newest Cap bytes from tail + wrote to tail.     *)
LEMMA PushTailInv ==
  ASSUME Inv, PushTail
  PROVE  Inv'
<1> USE DEF Inv, PushTail
<1>1. /\ tail \in Nat /\ head \in Nat /\ n \in Nat /\ t0 \in Nat
      /\ seq \in Nat /\ s0 \in Nat /\ MaxTail \in Nat /\ Cap \in Nat
  BY ParametersOK DEF TypeOK, Positions, Parameters
<1>2. TypeOK'
  BY <1>1 DEF TypeOK, PushInv, Positions, reads
<1>3. PushInv'
  BY <1>1 DEF PushInv
<1>4. RingInv'
  BY <1>1 DEF RingInv
<1>5. seq % 2 # 0
  BY DEF PushInv
<1>6. SnapshotInv' /\ RecheckInv' /\ CopyInv'
  BY <1>5 DEF SnapshotInv, RecheckInv, CopyInv, reads
<1>7. ReadInv'
  BY <1>1, <1>5 DEF SnapshotInv, ReadInv, reads
<1> QED
  BY <1>1, <1>2, <1>3, <1>4, <1>6, <1>7

(* Making seq even leaves no reader with the current seq in its s0.          *)
LEMMA PushCloseInv ==
  ASSUME Inv, PushClose
  PROVE  Inv'
<1> USE DEF Inv, PushClose
<1>1. seq \in Nat /\ s0 \in Nat /\ seq % 2 # 0
  BY DEF TypeOK, PushInv
<1>2. TypeOK' /\ PushInv' /\ RingInv'
  BY <1>1 DEF TypeOK, PushInv, RingInv, reads
<1>3. SnapshotInv' /\ ReadInv' /\ CopyInv' /\ RecheckInv'
  BY <1>1 DEF SnapshotInv, ReadInv, CopyInv, RecheckInv, reads
<1> QED
  BY <1>2, <1>3

(* A new read has nothing in its snapshots.                                  *)
LEMMA ReadBeginInv ==
  ASSUME Inv, NEW w \in Windows, ReadBegin(w)
  PROVE  Inv'
<1> USE DEF Inv, ReadBegin
<1>1. cpc = "idle" /\ cpc' = "seq" /\ w \in 0 .. Cap
  BY ParametersOK DEF Parameters
<1>2. TypeOK'
  BY <1>1 DEF TypeOK, header, pvars
<1>3. PushInv' /\ RingInv'
  BY DEF PushInv, RingInv, header, pvars
<1>4. SnapshotInv' /\ ReadInv' /\ CopyInv' /\ RecheckInv'
  BY <1>1 DEF SnapshotInv, ReadInv, CopyInv, RecheckInv
<1> QED
  BY <1>2, <1>3, <1>4 DEF header

(* The first load of seq is even and current.                                *)
LEMMA ReadSeqInv ==
  ASSUME Inv, ReadSeq
  PROVE  Inv'
<1> USE DEF Inv, ReadSeq
<1>1. TypeOK' /\ PushInv' /\ RingInv'
  BY DEF TypeOK, PushInv, RingInv, header, pvars
<1>2. SnapshotInv' /\ ReadInv' /\ CopyInv' /\ RecheckInv'
  BY DEF TypeOK, SnapshotInv, ReadInv, CopyInv, RecheckInv, header
<1> QED
  BY <1>1, <1>2 DEF header

(* The bytes chosen lie between head and the tail loaded.                    *)
LEMMA ReadTailInv ==
  ASSUME Inv, ReadTail
  PROVE  Inv'
<1> USE DEF Inv, ReadTail
<1>1. /\ head \in Nat /\ tail \in Nat /\ head <= tail /\ tail \in Positions
      /\ MaxTail \in Nat /\ window \in Nat /\ window % Frame = 0
  BY ParametersOK DEF TypeOK, Positions, Parameters
<1>2. /\ Budget(window) \in Nat
      /\ from' \in head .. tail
      /\ tail - from' <= Budget(window)
      /\ from' = head \/ (from' = tail - Budget(window) /\ tail - head > Budget(window))
  BY <1>1, StartAtFacts
<1>3. /\ want' \in 0 .. window
      /\ from' + want' <= tail
      /\ want' % Frame = 0
      /\ want' = window \/ want' = AlignDown(tail - from')
  BY <1>1, <1>2, WantAtFacts
<1>4. TypeOK'
  BY <1>1, <1>2, <1>3 DEF TypeOK, Positions, header, pvars
<1>5. PushInv' /\ RingInv'
  BY DEF PushInv, RingInv, header, pvars
<1>6. SnapshotInv' /\ RecheckInv'
  BY DEF SnapshotInv, RecheckInv, header
<1>7. ReadInv'
  BY <1>1, <1>2, <1>3 DEF ReadInv, header
<1>8. CopyInv'
  BY DEF CopyInv
<1> QED
  BY <1>4, <1>5, <1>6, <1>7, <1>8 DEF header

(* A byte copied while seq is undisturbed is the stream's.                   *)
LEMMA ReadByteInv ==
  ASSUME Inv, ReadByte
  PROVE  Inv'
<1> USE DEF Inv, ReadByte
<1>1. /\ from \in Nat /\ want \in Nat /\ got \in 0 .. want - 1 /\ want \in 0 .. window
      /\ window \in 0 .. Cap /\ tail \in Nat /\ t0 \in Nat /\ Cap \in Nat /\ MaxTail \in Nat
      /\ from + want <= t0 /\ t0 <= tail /\ tail \in Positions
  BY ParametersOK DEF TypeOK, ReadInv, Positions, Parameters
<1>2. Mask(from + got) \in 0 .. Cap - 1
  BY <1>1, MaskFacts
<1>3. payload[Mask(from + got)] \in Positions \cup {Stale}
  BY <1>2 DEF TypeOK
<1>4. TypeOK'
  <2>1. out' \in [0 .. window - 1 -> Positions \cup {Stale}]
    BY <1>3 DEF TypeOK
  <2> QED
    BY <1>1, <2>1 DEF TypeOK, header, pvars
<1>5. PushInv' /\ RingInv' /\ SnapshotInv' /\ ReadInv' /\ RecheckInv'
  BY DEF PushInv, RingInv, SnapshotInv, ReadInv, RecheckInv, header, pvars
<1>6. CopyInv'
  <2> SUFFICES ASSUME s0 = seq, NEW i \in 0 .. got, from + i >= tail - Cap
               PROVE  out'[i] = from + i
    BY <1>1 DEF CopyInv, header
  <2>1. ppc = "idle" /\ wrote = 0 /\ t0 = tail
    BY DEF TypeOK, PushInv, SnapshotInv, ReadInv
  <2>2. CASE i = got
    <3>1. from + got \in Positions /\ from + got < tail
      BY <1>1 DEF Positions
    <3>2. payload[Mask(from + got)] = from + got
      BY <1>1, <2>1, <2>2, <3>1 DEF RingInv
    <3> QED
      BY <1>1, <2>2, <3>2 DEF TypeOK
  <2>3. CASE i # got
    BY <1>1, <2>3 DEF CopyInv, TypeOK
  <2> QED
    BY <2>2, <2>3
<1> QED
  BY <1>4, <1>5, <1>6 DEF header

(* The second tail is the first when seq is undisturbed.                     *)
LEMMA ReadTail2Inv ==
  ASSUME Inv, ReadTail2
  PROVE  Inv'
<1> USE DEF Inv, ReadTail2
<1>1. TypeOK'
  BY DEF TypeOK, header, pvars
<1>2. /\ PushInv' /\ RingInv' /\ SnapshotInv' /\ ReadInv' /\ CopyInv' /\ RecheckInv'
  BY DEF PushInv, RingInv, SnapshotInv, ReadInv, CopyInv, RecheckInv, header, pvars
<1> QED
  BY <1>1, <1>2 DEF header

(* A retry forgets its snapshots.                                            *)
LEMMA ReadRetryInv ==
  ASSUME Inv, ReadRetry
  PROVE  Inv'
<1> USE DEF Inv, ReadRetry, Forget
<1>1. TypeOK'
  BY ParametersOK DEF TypeOK, Positions, Parameters, header, pvars
<1>2. PushInv' /\ RingInv'
  BY DEF PushInv, RingInv, header, pvars
<1>3. SnapshotInv' /\ ReadInv' /\ CopyInv' /\ RecheckInv'
  BY DEF SnapshotInv, ReadInv, CopyInv, RecheckInv
<1> QED
  BY <1>1, <1>2, <1>3 DEF header

(***************************************************************************)
(* What an accepted read has: its seq was never disturbed, the tail it saw   *)
(* is still the tail, and every byte it copied is the stream's.              *)
(***************************************************************************)
LEMMA AcceptedRead ==
  ASSUME Inv, ReadDone
  PROVE  /\ ppc = "idle" /\ t0 = tail
         /\ window \in Windows /\ want \in 0 .. window
         /\ head \in Nat /\ from \in Nat /\ tail \in Nat
         /\ head <= from /\ from + want <= tail /\ want % Frame = 0
         /\ tail - from <= Budget(window)
         /\ from # head => tail - head > Budget(window)
         /\ want = window \/ want = AlignDown(tail - from)
         /\ head' = from + want
         /\ chunk' = [i \in 0 .. window - 1 |-> IF i < want THEN from + i ELSE Silence]
<1> USE DEF Inv, ReadDone
<1>1. seq = s0 /\ t2 = tail /\ got = want /\ t2 - from <= Cap
  BY ParametersOK DEF Torn, RecheckInv, TypeOK, Positions, Parameters
<1>2. ppc = "idle" /\ t0 = tail
  BY <1>1 DEF PushInv, SnapshotInv, ReadInv
<1>3. /\ window \in Windows /\ want \in 0 .. window
      /\ head \in Nat /\ from \in Nat /\ tail \in Nat /\ Cap \in Nat
  BY ParametersOK DEF TypeOK, Positions, Parameters
<1>4. /\ head <= from /\ from + want <= tail /\ want % Frame = 0
      /\ tail - from <= Budget(window)
      /\ from # head => tail - head > Budget(window)
      /\ want = window \/ want = AlignDown(tail - from)
  BY <1>2 DEF ReadInv
<1>5. ASSUME NEW i \in 0 .. want - 1
      PROVE  out[i] = from + i
  <2>1. i \in 0 .. got - 1 /\ from + i >= tail - Cap
    BY <1>1, <1>3
  <2> QED
    BY <1>1, <2>1 DEF CopyInv
<1>6. DOMAIN out = 0 .. window - 1
  BY DEF TypeOK
<1>7. chunk' = [i \in 0 .. window - 1 |-> IF i < want THEN from + i ELSE Silence]
  <2>1. chunk' = [i \in 0 .. window - 1 |-> IF i < want THEN out[i] ELSE Silence]
    BY <1>6 DEF Filled
  <2>2. ASSUME NEW i \in 0 .. window - 1
        PROVE  (IF i < want THEN out[i] ELSE Silence) = (IF i < want THEN from + i ELSE Silence)
    BY <1>3, <1>5
  <2> QED
    BY <2>1, <2>2
<1> QED
  BY <1>2, <1>3, <1>4, <1>7

(* An accepted read leaves head at most at tail.                             *)
LEMMA ReadDoneInv ==
  ASSUME Inv, ReadDone
  PROVE  Inv'
<1>1. /\ head' = from + want /\ from \in Nat /\ tail \in Nat /\ want \in 0 .. window
      /\ from + want <= tail /\ window \in 0 .. Cap
  BY AcceptedRead, ParametersOK DEF Parameters
<1> USE DEF Inv, ReadDone, Forget
<1>2. TypeOK'
  <2>1. head' \in Positions
    BY <1>1, ParametersOK DEF TypeOK, Positions, Parameters
  <2> QED
    BY <2>1, ParametersOK DEF TypeOK, Positions, Parameters, pvars
<1>3. PushInv' /\ RingInv'
  BY DEF PushInv, RingInv, pvars
<1>4. SnapshotInv' /\ ReadInv' /\ CopyInv' /\ RecheckInv'
  BY DEF SnapshotInv, ReadInv, CopyInv, RecheckInv
<1> QED
  BY <1>1, <1>2, <1>3, <1>4 DEF pvars

(* Every step keeps the invariant.                                           *)
LEMMA StepInv ==
  ASSUME Inv, [Next]_vars
  PROVE  Inv'
<1>1. ASSUME NEW len \in PushSizes, PushBegin(len)
      PROVE  Inv'
  BY <1>1, PushBeginInv
<1>2. CASE PushByte
  BY <1>2, PushByteInv
<1>3. CASE PushTail
  BY <1>3, PushTailInv
<1>4. CASE PushClose
  BY <1>4, PushCloseInv
<1>5. ASSUME NEW w \in Windows, ReadBegin(w)
      PROVE  Inv'
  BY <1>5, ReadBeginInv
<1>6. CASE ReadSeq
  BY <1>6, ReadSeqInv
<1>7. CASE ReadTail
  BY <1>7, ReadTailInv
<1>8. CASE ReadByte
  BY <1>8, ReadByteInv
<1>9. CASE ReadTail2
  BY <1>9, ReadTail2Inv
<1>10. CASE ReadRetry
  BY <1>10, ReadRetryInv
<1>11. CASE ReadDone
  BY <1>11, ReadDoneInv
<1>12. CASE UNCHANGED vars
  BY <1>12, StutterInv
<1> QED
  BY <1>1, <1>2, <1>3, <1>4, <1>5, <1>6, <1>7, <1>8, <1>9, <1>10, <1>11, <1>12
  DEF Next, PushStep, ReadStep

(* The seqlock argument holds in every reachable state.                      *)
THEOREM SeqlockInvariant == Spec => []Inv
<1>1. Init => Inv
  BY InitInv
<1>2. Inv /\ [Next]_vars => Inv'
  BY StepInv
<1> QED
  BY <1>1, <1>2, PTL DEF Spec

(* Types: the first conjunct of the invariant.                               *)
THEOREM TypeCorrect == Spec => []TypeOK
<1>1. Inv => TypeOK
  BY DEF Inv
<1> QED
  BY <1>1, SeqlockInvariant, PTL

-----------------------------------------------------------------------------
(* What the readers are promised.                                            *)

(* The ring starts with nothing read.                                        *)
LEMMA InitNoTorn == Init => NoTornRead
<1> SUFFICES ASSUME Init PROVE NoTornRead
  OBVIOUS
<1>1. 0 % Frame = 0
  BY ParametersOK DEF Parameters
<1>2. head = 0 /\ chunk = [i \in 0 .. -1 |-> Silence]
  BY DEF Init
<1>3. 0 .. 0 - 1 \subseteq DOMAIN chunk /\ \A i \in DOMAIN chunk : FALSE
  BY <1>2
<1> QED
  BY <1>1, <1>2, <1>3 DEF NoTornRead

(* Only an accepted read changes what was read last.                         *)
LEMMA StepNoTorn ==
  ASSUME Inv, NoTornRead, [Next]_vars
  PROVE  NoTornRead'
<1>1. CASE UNCHANGED <<head, chunk>>
  BY <1>1 DEF NoTornRead
<1>2. CASE ReadDone
  <2>1. /\ head' = from + want /\ from \in Nat /\ want \in Nat /\ want % Frame = 0
        /\ chunk' = [i \in 0 .. window - 1 |-> IF i < want THEN from + i ELSE Silence]
    BY <1>2, AcceptedRead, ParametersOK DEF Parameters
  <2>2. want \in 0 .. head' /\ head' - want = from
    BY <2>1
  <2>3. \A i \in DOMAIN chunk' :
           chunk'[i] = IF i < want THEN head' - want + i ELSE Silence
    BY <2>1, <2>2
  <2>4. 0 .. want - 1 \subseteq DOMAIN chunk'
    <3>1. want \in 0 .. window /\ window \in Windows /\ Windows \subseteq Nat
      BY <1>2, AcceptedRead, ParametersOK DEF Parameters
    <3> QED
      BY <2>1, <3>1
  <2> QED
    BY <2>1, <2>2, <2>3, <2>4 DEF NoTornRead
<1>3. UNCHANGED <<head, chunk>> \/ ReadDone
  BY DEF Next, PushStep, ReadStep, PushBegin, PushByte, PushTail, PushClose, ReadBegin,
         ReadSeq, ReadTail, ReadByte, ReadTail2, ReadRetry, header, vars
<1> QED
  BY <1>1, <1>2, <1>3

(* No torn read: a completed read gave its caller the newest bytes up to     *)
(* head, as many as its buffer holds or fewer, whole frames, and silence     *)
(* after them (push_overwrite against read_quantum).                         *)
THEOREM NoTornReads == Spec => []NoTornRead
<1>1. Init => NoTornRead
  BY InitNoTorn
<1>2. Inv /\ NoTornRead /\ [Next]_vars => NoTornRead'
  BY StepNoTorn
<1> QED
  BY <1>1, <1>2, SeqlockInvariant, PTL DEF Spec

(* No byte is played twice: reads start where the last one ended, or past it.*)
THEOREM HeadNeverMovesBack == Spec => NeverReplays
<1>1. Inv /\ [Next]_vars => [head' >= head /\ (ReadDone => from >= head)]_vars
  <2> SUFFICES ASSUME Inv, Next PROVE head' >= head /\ (ReadDone => from >= head)
    OBVIOUS
  <2>1. CASE ReadDone
    BY <2>1, AcceptedRead, ParametersOK DEF Parameters
  <2>2. CASE ~ ReadDone
    <3>1. UNCHANGED head
      BY <2>2 DEF Next, PushStep, ReadStep, PushBegin, PushByte, PushTail, PushClose, ReadBegin,
                  ReadSeq, ReadTail, ReadByte, ReadTail2, ReadRetry, header
    <3> QED
      BY <2>2, <3>1 DEF Inv, TypeOK, Positions
  <2> QED
    BY <2>1, <2>2
<1> QED
  BY <1>1, SeqlockInvariant, PTL DEF Spec, NeverReplays

-----------------------------------------------------------------------------
(***************************************************************************)
(* Frame alignment needs more than the code checks: a push longer than the   *)
(* ring is cut to Cap bytes, which are whole frames only when Cap is a       *)
(* multiple of the frame.  CutsAreFrames says that no push is so cut, or     *)
(* that the cut falls between frames.                                        *)
(***************************************************************************)
CutsAreFrames == \A len \in PushSizes : KeepNewest(len) % Frame = 0

(* A ring of whole frames cuts between frames ...                            *)
LEMMA CapOfFramesIsEnough ==
  ASSUME Cap % Frame = 0
  PROVE  CutsAreFrames
  BY ParametersOK DEF CutsAreFrames, KeepNewest, MinOf, Parameters

(* ... and pushes no longer than the ring are not cut at all.                *)
LEMMA ShortPushesAreEnough ==
  ASSUME \A len \in PushSizes : len <= Cap
  PROVE  CutsAreFrames
  BY ParametersOK DEF CutsAreFrames, KeepNewest, MinOf, Parameters

AlignInv ==
  /\ FrameAligned
  /\ n % Frame = 0
  /\ cpc \in {"copy", "recheck"} => from % Frame = 0

(* The counters begin at a frame boundary.                                   *)
LEMMA InitAligned == Init => AlignInv
<1>1. 0 % Frame = 0
  BY ParametersOK DEF Parameters
<1> QED
  BY <1>1 DEF Init, AlignInv, FrameAligned

(* Every step keeps them there.                                              *)
LEMMA StepAligned ==
  ASSUME CutsAreFrames, Inv, AlignInv, [Next]_vars
  PROVE  AlignInv'
<1>0. /\ Frame \in Nat \ {0} /\ tail \in Int /\ head \in Int /\ n \in Int
      /\ lost \in Int /\ from \in Int /\ want \in Int /\ window \in Nat
      /\ head \in Nat /\ tail \in Nat /\ head <= tail
  BY ParametersOK DEF Inv, TypeOK, Positions, Parameters
<1> USE DEF AlignInv, FrameAligned
<1>1. ASSUME NEW len \in PushSizes, PushBegin(len)
      PROVE  AlignInv'
  <2>1. len \in Int /\ len % Frame = 0 /\ n' \in Int /\ n' % Frame = 0
    BY <1>1, KeepNewestFacts, ParametersOK DEF CutsAreFrames, PushBegin, Parameters
  <2> DEFINE cut == len - n'
  <2>2. cut % Frame = 0
    BY ONLY <1>0, <2>1, AlignedSum
  <2>3. (lost + cut) % Frame = 0
    <3>1. cut \in Int /\ lost % Frame = 0
      BY <2>1
    <3> HIDE DEF cut
    <3> QED
      BY ONLY <1>0, <2>2, <3>1, AlignedSum
  <2> QED
    BY <1>1, <2>1, <2>3 DEF PushBegin, reads
<1>2. CASE PushTail
  <2>1. tail % Frame = 0 /\ n % Frame = 0
    OBVIOUS
  <2>2. (tail + n) % Frame = 0
    BY ONLY <1>0, <2>1, AlignedSum
  <2>3. 0 % Frame = 0
    BY <1>0
  <2> QED
    BY <1>2, <2>2, <2>3 DEF PushTail, reads
<1>3. CASE ReadTail
  <2>1. /\ Budget(window) \in Int /\ Budget(window) % Frame = 0
        /\ from' = head \/ from' = tail - Budget(window)
    BY <1>0, <1>3, StartAtFacts DEF ReadTail
  <2>2. from' % Frame = 0
    BY <1>0, <2>1, AlignedSum
  <2> QED
    BY <1>3, <2>2 DEF ReadTail, header, pvars
<1>4. CASE ReadDone
  <2>1. /\ head' = from + want /\ want % Frame = 0 /\ from % Frame = 0
    BY <1>4, AcceptedRead DEF ReadDone
  <2>2. head' % Frame = 0
    BY <1>0, <2>1, AlignedSum
  <2> QED
    BY <1>4, <2>2 DEF ReadDone, pvars
<1>5. CASE PushByte \/ PushClose \/ (\E w \in Windows : ReadBegin(w)) \/ ReadSeq
           \/ ReadByte \/ ReadTail2 \/ ReadRetry \/ UNCHANGED vars
  BY <1>5 DEF PushByte, PushClose, ReadBegin, ReadSeq, ReadByte, ReadTail2, ReadRetry,
              header, pvars, reads, vars
<1> QED
  BY <1>1, <1>2, <1>3, <1>4, <1>5 DEF Next, PushStep, ReadStep

(* So they stay there.                                                       *)
LEMMA AlignedAlways ==
  ASSUME CutsAreFrames
  PROVE  Spec => []AlignInv
<1>1. Init => AlignInv
  BY InitAligned
<1>2. Inv /\ AlignInv /\ [Next]_vars => AlignInv'
  BY StepAligned
<1> QED
  BY <1>1, <1>2, SeqlockInvariant, PTL DEF Spec

(* When no push is cut inside a frame, every counter stays at a frame        *)
(* boundary and what is lost is whole frames.                                *)
THEOREM FramesNeverSplit ==
  ASSUME CutsAreFrames
  PROVE  Spec => []FrameAligned
<1>1. AlignInv => FrameAligned
  BY DEF AlignInv
<1> QED
  BY <1>1, AlignedAlways, PTL

(***************************************************************************)
(* An accepted read, when offsets are aligned: it leaves a backlog of at     *)
(* most MaxLatency, skips only what exceeds window + MaxLatency, and comes   *)
(* back short only when it drains the stream.                                *)
(***************************************************************************)
LEMMA AlignedRead ==
  ASSUME Inv, AlignInv, ReadDone
  PROVE  /\ from % Frame = 0
         /\ from # head => tail - head > window + MaxLatency
         /\ want = window \/ want = tail - from
         /\ tail - (from + want) <= MaxLatency
<1>1. /\ head \in Nat /\ tail \in Nat /\ from \in Nat /\ window \in Nat /\ want \in Nat
      /\ from + want <= tail /\ head <= from /\ MaxLatency \in Nat /\ Frame \in Nat \ {0}
      /\ tail - from <= Budget(window)
      /\ from # head => tail - head > Budget(window)
      /\ want = window \/ want = AlignDown(tail - from)
  <2>1. window \in Windows /\ want \in 0 .. window
    BY AcceptedRead
  <2>2. window \in Nat /\ want \in Nat
    BY <2>1, ParametersOK DEF Parameters
  <2> QED
    BY <2>2, AcceptedRead, ParametersOK DEF Parameters
<1>2. tail % Frame = 0 /\ head % Frame = 0 /\ from % Frame = 0
  BY DEF AlignInv, FrameAligned, ReadDone
<1>3. /\ Budget(window) \in Nat /\ Budget(window) % Frame = 0
      /\ Budget(window) <= window + MaxLatency
      /\ window + MaxLatency < Budget(window) + Frame
  BY <1>1, StartAtFacts
<1>4. want = window \/ want = tail - from
  <2>1. tail - from \in Nat
    BY <1>1
  <2>2. (tail - from) % Frame = 0
    <3>1. tail \in Int /\ from \in Int /\ Frame \in Nat \ {0}
      BY <1>1
    <3> QED
      BY ONLY <3>1, <1>2, AlignedSum
  <2> QED
    BY <1>1, <2>1, <2>2, AlignDownFacts
<1>5. tail - (from + want) <= MaxLatency
  BY <1>1, <1>3, <1>4
<1>6. ASSUME from # head
      PROVE  tail - head > window + MaxLatency
  <2> SUFFICES ASSUME tail - head < Budget(window) + Frame
               PROVE  FALSE
    BY <1>1, <1>3
  <2> DEFINE b == tail - head
             c == Budget(window)
  <2>1. b % Frame = 0
    <3>1. tail \in Int /\ head \in Int /\ Frame \in Nat \ {0}
      BY <1>1
    <3> QED
      BY ONLY <3>1, <1>2, AlignedSum
  <2>2. b \in Int /\ c \in Int /\ c % Frame = 0 /\ b > c /\ b < c + Frame
    BY <1>1, <1>3, <1>6
  <2> HIDE DEF b, c
  <2>3. b - c < Frame /\ c - b < Frame
    BY <1>1, <2>2
  <2>4. b = c
    BY <1>1, <2>1, <2>2, <2>3, AlignedApart
  <2> QED
    BY <2>2, <2>4
<1> QED
  BY <1>2, <1>4, <1>5, <1>6

(* Bounded latency: a read leaves at most MaxLatency behind the tail it saw. *)
THEOREM LatencyBounded ==
  ASSUME CutsAreFrames
  PROVE  Spec => BoundedLatency
<1>1. Inv /\ AlignInv /\ [Next]_vars => [ReadDone => t0 - head' <= MaxLatency]_vars
  <2> SUFFICES ASSUME Inv, AlignInv, ReadDone PROVE t0 - head' <= MaxLatency
    OBVIOUS
  <2> QED
    BY AcceptedRead, AlignedRead
<1> QED
  BY <1>1, SeqlockInvariant, AlignedAlways, PTL DEF Spec, BoundedLatency

(***************************************************************************)
(* The retry loop of read_quantum is not bounded, but it does not go round   *)
(* for nothing: as long as a budget fits the ring, an attempt is thrown away *)
(* only when a push has begun or ended since it began.                       *)
(***************************************************************************)
THEOREM RetriesAreDisturbed ==
  ASSUME \A w \in Windows : Budget(w) <= Cap
  PROVE  Spec => [][ReadRetry => seq > s0]_vars
<1>1. Inv => [ReadRetry => seq > s0]_vars
  <2> SUFFICES ASSUME Inv, ReadRetry PROVE seq > s0
    OBVIOUS
  <2>1. /\ s0 \in Nat /\ seq \in Nat /\ s0 <= seq
        /\ window \in Windows /\ t0 - from <= Budget(window)
        /\ s0 = seq => t2 = tail /\ t0 = tail
    BY DEF Inv, TypeOK, SnapshotInv, ReadInv, RecheckInv, ReadRetry
  <2>2. ASSUME s0 = seq PROVE FALSE
    <3>1. t2 - from <= Budget(window) /\ Budget(window) <= Cap
      BY <2>1, <2>2
    <3>2. window \in Nat /\ t2 \in Nat /\ from \in Nat /\ Cap \in Nat
      BY <2>1, ParametersOK DEF Inv, TypeOK, Positions, Parameters
    <3>3. Budget(window) \in Nat
      BY <3>2, AlignDownFacts, ParametersOK DEF Budget, Parameters
    <3> QED
      BY <2>2, <3>1, <3>2, <3>3 DEF ReadRetry, Torn
  <2> QED
    BY <2>1, <2>2
<1> QED
  BY <1>1, SeqlockInvariant, PTL DEF Spec

-----------------------------------------------------------------------------
(***************************************************************************)
(* The seqlock ring implements the atomic stream: PushTail is the stream's   *)
(* Push, an accepted read is its Read (its linearization point is the last   *)
(* load of seq), and every other step is invisible.                          *)
(***************************************************************************)
THEOREM RingImplementsStream ==
  ASSUME CutsAreFrames
  PROVE  Spec => ImplementsStream
<1>1. Init => Stream!Init
  BY DEF Init, Stream!Init, Silence, Stream!Silence
<1>2. Inv /\ Inv' /\ AlignInv /\ AlignInv' /\ [Next]_vars => [Stream!Next]_(Stream!svars)
  <2> SUFFICES ASSUME Inv, Inv', AlignInv, AlignInv', [Next]_vars
               PROVE  [Stream!Next]_(Stream!svars)
    OBVIOUS
  <2>1. CASE PushTail
    <3>1. CASE n = 0
      <4>1. tail' = tail
        BY <2>1, <3>1 DEF PushTail, Inv, TypeOK, Positions
      <4> QED
        BY <2>1, <4>1 DEF PushTail, Stream!svars
    <3>2. CASE n # 0
      <4>1. tail' \in tail + 1 .. MaxTail
        BY <2>1, <3>2, ParametersOK
        DEF PushTail, Inv, TypeOK, PushInv, Positions, Parameters
      <4>2. tail' % Frame = 0
        BY DEF AlignInv, FrameAligned
      <4>3. Stream!Push
        BY <2>1, <4>1, <4>2 DEF PushTail, Stream!Push
      <4> QED
        BY <4>3 DEF Stream!Next
    <3> QED
      BY <3>1, <3>2
  <2>2. CASE ReadDone
    <3>1. /\ window \in Windows /\ want \in 0 .. window
          /\ from \in head .. tail
          /\ head' = from + want
          /\ chunk' = Stream!Chunk(window, from, want)
      BY <2>2, AcceptedRead DEF Stream!Chunk, Silence, Stream!Silence
    <3>2. /\ from % Frame = 0
          /\ from # head => tail - head > window + MaxLatency
          /\ want \in {window, tail - from}
          /\ tail - (from + want) <= MaxLatency
      BY <2>2, AlignedRead
    <3>3. Stream!Read(window)
      BY <2>2, <3>1, <3>2 DEF Stream!Read, ReadDone
    <3> QED
      BY <3>1, <3>3 DEF Stream!Next
  <2>3. CASE UNCHANGED <<tail, head, chunk>>
    BY <2>3 DEF Stream!svars
  <2>4. PushTail \/ ReadDone \/ UNCHANGED <<tail, head, chunk>>
    BY DEF Next, PushStep, ReadStep, PushBegin, PushByte, PushClose, ReadBegin,
           ReadSeq, ReadTail, ReadByte, ReadTail2, ReadRetry, header, vars
  <2> QED
    BY <2>1, <2>2, <2>3, <2>4
<1> QED
  BY <1>1, <1>2, SeqlockInvariant, AlignedAlways, PTL DEF Spec, ImplementsStream, Stream!Spec

=============================================================================
