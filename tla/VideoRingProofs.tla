---------------------------- MODULE VideoRingProofs ----------------------------
(***************************************************************************)
(* Proofs about VideoRing, for every region, alignment, number of slots and  *)
(* set of formats: a producer that is not restarted never has a torn frame   *)
(* accepted, and the ring implements VideoSource; one that is restarted, on   *)
(* a camera with one format, has one accepted only by a read that its reset  *)
(* of frame_seq fell into.                                                   *)
(***************************************************************************)
EXTENDS VideoRing, ModularArithmetic

Parameters ==
  /\ Region \in Nat /\ Align \in Nat \ {0}
  /\ MinSlots \in Nat /\ MinSlots >= 2
  /\ \A vf \in Formats : vf.size \in Nat \ {0}
  /\ SrcLens \subseteq Nat \ {0} /\ MaxFrames \in Nat

(* What the provers may use of the constants' assumptions.                   *)
LEMMA ParametersOK == Parameters
  BY RegionIsMemory, EnoughSlots, FormatsHaveSize, BoundsAreNaturals DEF Parameters

-----------------------------------------------------------------------------
(* Where the words of the slots lie.                                         *)

(* A slot is wide enough for a frame.                                        *)
LEMMA StrideFacts ==
  ASSUME NEW size \in Nat \ {0}
  PROVE  Stride(size) \in Nat \ {0} /\ Stride(size) >= size
<1> DEFINE a == size + Align - 1
           s == (a \div Align) * Align
<1>1. Align \in Nat \ {0} /\ a \in Nat
  BY ParametersOK DEF Parameters
<1>2. s \in Nat /\ a < s + Align
  <2> HIDE DEF a
  <2> QED
    BY <1>1, CutDown
<1>3. Stride(size) = s
  BY DEF Stride
<1> HIDE DEF s
<1> QED
  BY <1>1, <1>2, <1>3

(* The slots fit the region.                                                 *)
LEMMA SlotsFacts ==
  ASSUME NEW size \in Nat \ {0}
  PROVE  Slots(size) \in Nat /\ Slots(size) * Stride(size) <= Region
<1> DEFINE d == Stride(size)
<1>1. d \in Nat \ {0} /\ Region \in Nat
  BY StrideFacts, ParametersOK DEF Parameters
<1> HIDE DEF d
<1>2. (Region \div d) * d <= Region
  BY <1>1, CutDown
<1>3. Region \div d \in Nat
  BY <1>1
<1> QED
  BY <1>2, <1>3 DEF Slots, d

(* A word of a slot lies in the region.                                      *)
LEMMA CellInRegion ==
  ASSUME NEW size \in Nat \ {0}, Slots(size) > 0,
         NEW f \in Nat, NEW i \in 0 .. size - 1
  PROVE  Cell(f, Slots(size), size, i) \in 0 .. Region - 1
<1> DEFINE n == Slots(size)
           d == Stride(size)
           k == f % n
<1>1. n \in Nat \ {0} /\ d \in Nat \ {0} /\ d >= size /\ n * d <= Region
  BY StrideFacts, SlotsFacts
<1>2. Region \in Nat
  BY ParametersOK DEF Parameters
<1> HIDE DEF n, d
<1>3. k \in 0 .. n - 1
  BY ONLY <1>1, f \in Nat, DivMod
<1> HIDE DEF k
<1>4. k * d \in Nat /\ n * d \in Nat /\ k * d + d <= n * d
  BY ONLY <1>1, <1>3, MultipleBelow
<1>5. k * d + i \in 0 .. Region - 1
  BY <1>1, <1>2, <1>4
<1> QED
  BY <1>5 DEF Cell, k, n, d

(* Two words share a cell only when they are the same word of one slot.      *)
LEMMA CellsDiffer ==
  ASSUME NEW size \in Nat \ {0}, NEW n \in Nat \ {0},
         NEW f \in Nat, NEW i \in 0 .. size - 1,
         NEW g \in Nat, NEW j \in 0 .. size - 1,
         Cell(f, n, size, i) = Cell(g, n, size, j)
  PROVE  f % n = g % n /\ i = j
<1> DEFINE d == Stride(size)
           k == f % n
           l == g % n
<1>1. d \in Nat \ {0} /\ d >= size
  BY StrideFacts
<1>2. k \in Int /\ l \in Int
  BY DivMod
<1>3. k * d + i = l * d + j
  BY DEF Cell
<1> HIDE DEF d, k, l
<1>4. d * (k - l) = j - i
  BY <1>1, <1>2, <1>3
<1>5. k - l = 0
  <2>1. k - l \in Int /\ d * (k - l) < d /\ d * (k - l) > -d
    BY <1>1, <1>2, <1>4
  <2> QED
    BY <1>1, <2>1, SmallMultiple
<1>6. k = l
  BY <1>2, <1>5
<1>7. i = j
  BY <1>2, <1>3, <1>6, <1>1
<1> QED
  BY <1>6, <1>7 DEF k, l

-----------------------------------------------------------------------------
(* The invariant, action by action.                                          *)

(* An initialized region satisfies the invariant.                            *)
LEMMA InitInv == Init => Inv
<1> SUFFICES ASSUME Init PROVE Inv
  OBVIOUS
<1>1. TypeOK
  <2>1. lens \in Seq(Nat) /\ Len(lens) = 0
    BY DEF Init
  <2>2. cells \in [0 .. Region - 1 -> Words]
    BY DEF Init, Words
  <2>3. out \in [0 .. -1 -> Words]
    BY DEF Init, Nothing, Words
  <2>4. out \in [(IF rpc = "copy" THEN 0 .. rsize - 1 ELSE 0 .. -1) -> Words]
    BY <2>3 DEF Init
  <2>5. MaxFrames \in Nat
    BY ParametersOK DEF Parameters
  <2>6. /\ got \in 0 .. (IF rpc = "copy" THEN rsize ELSE 0) /\ taken \in -1 .. MaxFrames
        /\ from \in 0 .. streams /\ wrote \in 0 .. psize
        /\ frameSeq \in 0 .. MaxFrames /\ s0 \in 0 .. MaxFrames
        /\ pseq \in 0 .. MaxFrames /\ stamp \in 0 .. MaxFrames
    BY <2>5 DEF Init
  <2> QED
    BY <2>1, <2>2, <2>4, <2>6 DEF Init, TypeOK
<1> QED
  BY <1>1 DEF Init, Inv, PublishInv, CacheInv, SlotInv, CopyInv, TakenInv

(* So does whatever a stutter leaves.                                        *)
LEMMA StutterInv ==
  ASSUME Inv, UNCHANGED vars
  PROVE  Inv'
<1> USE DEF Inv, vars
<1>1. TypeOK'
  BY DEF TypeOK
<1>2. PublishInv' /\ CacheInv' /\ TakenInv'
  BY DEF PublishInv, CacheInv, TakenInv
<1>3. SlotInv'
  BY DEF SlotInv, Content
<1>4. CopyInv'
  BY DEF CopyInv, Content
<1> QED
  BY <1>1, <1>2, <1>3, <1>4

(* Steps that leave the slots, the pushes and the copy alone.                *)
LEMMA GeometryInv ==
  ASSUME Inv, Geometry
  PROVE  Inv'
<1> USE DEF Inv, header, producer, reader, geometry
<1>1. ASSUME NEW vf \in Formats, GeometryReject(vf)
      PROVE  Inv'
  BY <1>1 DEF GeometryReject, TypeOK, PublishInv, CacheInv, SlotInv, CopyInv, TakenInv, Content
<1>2. ASSUME NEW vf \in Formats, GeometryBegin(vf)
      PROVE  Inv'
  <2>1. /\ vf.size \in Nat \ {0} /\ Slots(vf.size) \in Nat /\ Slots(vf.size) >= MinSlots
        /\ frameSeq = 0 /\ frameSize = 0 /\ psize = 0
    BY <1>2, SlotsFacts, ParametersOK DEF GeometryBegin, PublishInv, Parameters
  <2>2. TypeOK'
    BY <1>2, <2>1 DEF GeometryBegin, TypeOK
  <2>3. PublishInv'
    BY <1>2, <2>1 DEF GeometryBegin, PublishInv
  <2>4. CacheInv' /\ CopyInv'
    BY <1>2, <2>1 DEF GeometryBegin, CacheInv, CopyInv, TypeOK
  <2>5. SlotInv'
    BY <1>2, <2>1 DEF GeometryBegin, SlotInv, TypeOK
  <2>6. TakenInv'
    BY <1>2 DEF GeometryBegin, TakenInv
  <2> QED
    BY <2>2, <2>3, <2>4, <2>5, <2>6
<1>3. CASE StoreSlots
  <2>1. TypeOK' /\ PublishInv'
    BY <1>3 DEF StoreSlots, TypeOK, PublishInv
  <2>2. CacheInv' /\ SlotInv' /\ CopyInv' /\ TakenInv'
    BY <1>3 DEF StoreSlots, PublishInv, CacheInv, SlotInv, CopyInv, TakenInv, Content
  <2> QED
    BY <2>1, <2>2
<1>4. CASE StoreSeq
  <2>1. frameSeq = 0 /\ frameSeq' = 0 /\ frameSize = 0 /\ streams = 0 /\ streams' = 1
    BY <1>4 DEF StoreSeq, PublishInv
  <2>2. TypeOK'
    BY <1>4, <2>1, ParametersOK DEF StoreSeq, TypeOK, Parameters
  <2>3. PublishInv'
    BY <1>4, <2>1 DEF StoreSeq, PublishInv
  <2>4. CacheInv' /\ SlotInv' /\ CopyInv' /\ TakenInv'
    BY <1>4, <2>1 DEF StoreSeq, PublishInv, CacheInv, SlotInv, CopyInv, TakenInv, Content
  <2> QED
    BY <2>2, <2>3, <2>4
<1>5. CASE StoreGate
  <2>1. TypeOK' /\ PublishInv'
    BY <1>5 DEF StoreGate, TypeOK, PublishInv
  <2>2. CacheInv' /\ SlotInv' /\ CopyInv' /\ TakenInv'
    BY <1>5 DEF StoreGate, PublishInv, CacheInv, SlotInv, CopyInv, TakenInv, Content
  <2> QED
    BY <2>1, <2>2
<1> QED
  BY <1>1, <1>2, <1>3, <1>4, <1>5 DEF Geometry

(* While frames are pushed the cached geometry is a real one.                *)
LEMMA Pushing ==
  ASSUME Inv, ppc \in {"idle", "write"}
  PROVE  /\ psize \in Nat \ {0} /\ pcount \in Nat /\ pcount >= 2
         /\ pcount = Slots(psize) /\ frameSize = psize
  BY ParametersOK DEF Inv, PublishInv, TypeOK, Parameters

(* A push begins on the slot of the oldest frame.                            *)
LEMMA PushBeginInv ==
  ASSUME Inv, NEW len \in SrcLens, PushBegin(len)
  PROVE  Inv'
<1> USE DEF Inv, PushBegin, header, reader, geometry
<1>1. /\ len \in Nat /\ stamp \in Nat /\ lens \in Seq(Nat) /\ Len(lens) = stamp
      /\ frameSeq = stamp /\ MaxFrames \in Nat
  BY ParametersOK DEF TypeOK, PublishInv, Parameters
<1>2. ASSUME NEW k \in 1 .. stamp
      PROVE  lens'[k] = lens[k]
  BY <1>1, <1>2
<1>3. TypeOK'
  <2>1. lens' \in Seq(Nat) /\ Len(lens') = stamp + 1
    BY <1>1
  <2> QED
    BY <1>1, <2>1 DEF TypeOK
<1>4. PublishInv' /\ CacheInv' /\ TakenInv'
  BY <1>1 DEF PublishInv, CacheInv, TakenInv, TypeOK
<1>5. SlotInv'
  BY <1>1, <1>2 DEF SlotInv, Content, TypeOK
<1>6. CopyInv'
  <2>1. rpc = "copy" => s0 \in 1 .. stamp
    BY <1>1 DEF CopyInv
  <2> QED
    BY <1>1, <1>2, <2>1 DEF CopyInv, Content
<1> QED
  BY <1>3, <1>4, <1>5, <1>6

(* A stored word disturbs no frame within pcount of the next.                *)
LEMMA PushWordInv ==
  ASSUME Inv, PushWord
  PROVE  Inv'
<1> USE DEF Inv, PushWord, header, reader, geometry
<1>1. /\ psize \in Nat \ {0} /\ pcount \in Nat \ {0} /\ pcount = Slots(psize) /\ pcount > 0
      /\ pseq \in Nat /\ pseq = frameSeq /\ wrote \in 0 .. psize - 1
      /\ stamp \in Nat /\ stamp \in 1 .. MaxFrames /\ MaxFrames \in Nat
  BY Pushing, ParametersOK DEF TypeOK, PublishInv, Parameters
<1>2. Cell(pseq, pcount, psize, wrote) \in 0 .. Region - 1
  BY <1>1, CellInRegion
<1>3. Content(stamp, wrote) \in Words
  BY <1>1 DEF Content, Words, Zero
<1>4. TypeOK'
  <2>1. cells' \in [0 .. Region - 1 -> Words]
    BY <1>2, <1>3 DEF TypeOK
  <2> QED
    BY <1>1, <2>1 DEF TypeOK
<1>5. PublishInv' /\ CacheInv' /\ CopyInv' /\ TakenInv'
  BY DEF PublishInv, CacheInv, CopyInv, TakenInv, Content
<1>6. ASSUME NEW f \in 0 .. MaxFrames, NEW i \in 0 .. psize - 1,
             f < frameSeq, frameSeq < f + pcount
      PROVE  cells'[Cell(f, pcount, psize, i)] = Content(f + 1, i)
  <2>1. f % pcount # pseq % pcount
    <3>1. f # pseq /\ f - pseq < pcount /\ pseq - f < pcount /\ f \in Int /\ pseq \in Int
      BY <1>1, <1>6
    <3> QED
      BY <1>1, <3>1, CellOfOne
  <2>2. Cell(f, pcount, psize, i) # Cell(pseq, pcount, psize, wrote)
    BY <1>1, <2>1, CellsDiffer
  <2>3. cells[Cell(f, pcount, psize, i)] = Content(f + 1, i)
    BY <1>1, <1>6 DEF SlotInv
  <2>4. Cell(f, pcount, psize, i) \in 0 .. Region - 1
    BY <1>1, CellInRegion
  <2> QED
    BY <2>2, <2>3, <2>4 DEF TypeOK
<1>7. ASSUME NEW i \in 0 .. wrote
      PROVE  cells'[Cell(pseq, pcount, psize, i)] = Content(stamp, i)
  <2>1. i \in 0 .. psize - 1
    BY <1>1
  <2>2. Cell(pseq, pcount, psize, i) \in 0 .. Region - 1
    BY <1>1, <2>1, CellInRegion
  <2>3. CASE i = wrote
    BY <1>2, <2>3 DEF TypeOK
  <2>4. CASE i # wrote
    <3>1. Cell(pseq, pcount, psize, i) # Cell(pseq, pcount, psize, wrote)
      BY <1>1, <2>1, <2>4, CellsDiffer
    <3>2. cells[Cell(pseq, pcount, psize, i)] = Content(stamp, i)
      BY <1>1, <2>4 DEF SlotInv
    <3> QED
      BY <2>2, <3>1, <3>2 DEF TypeOK
  <2> QED
    BY <2>3, <2>4
<1>8. SlotInv'
  BY <1>1, <1>6, <1>7 DEF SlotInv, Content
<1> QED
  BY <1>4, <1>5, <1>8

(* A published frame has all its words.                                      *)
LEMMA PushPublishInv ==
  ASSUME Inv, PushPublish
  PROVE  Inv'
<1> USE DEF Inv, PushPublish, reader, geometry
<1>1. /\ psize \in Nat \ {0} /\ pcount \in Nat \ {0} /\ pseq = frameSeq /\ frameSeq \in Nat
      /\ frameSeq' = frameSeq + 1 /\ stamp = frameSeq + 1 /\ MaxFrames \in Nat
      /\ stamp \in 0 .. MaxFrames /\ frameSize = psize
  BY Pushing, ParametersOK DEF TypeOK, PublishInv, Parameters
<1>2. TypeOK'
  BY <1>1 DEF TypeOK
<1>3. PublishInv' /\ CacheInv'
  BY <1>1 DEF PublishInv, CacheInv
<1>4. SlotInv'
  <2> SUFFICES ASSUME NEW f \in 0 .. MaxFrames, NEW i \in 0 .. psize - 1,
                      f < frameSeq + 1, frameSeq + 1 < f + pcount
               PROVE  cells[Cell(f, pcount, psize, i)] = Content(f + 1, i)
    BY <1>1 DEF SlotInv, Content
  <2>1. CASE f = frameSeq
    <3>1. i \in 0 .. wrote - 1 /\ f + 1 = stamp /\ f = pseq
      BY <1>1, <2>1
    <3> QED
      BY <1>1, <3>1 DEF SlotInv
  <2>2. CASE f # frameSeq
    BY <1>1, <2>2 DEF SlotInv
  <2> QED
    BY <2>1, <2>2
<1>5. CopyInv'
  BY <1>1, ParametersOK DEF CopyInv, TypeOK, Content, Parameters
<1>6. TakenInv'
  BY <1>1 DEF TakenInv, TypeOK
<1> QED
  BY <1>2, <1>3, <1>4, <1>5, <1>6

(* The reader's cache takes the producer's geometry, behind the gate.        *)
LEMMA RefreshInv ==
  ASSUME Inv, Refresh
  PROVE  Inv'
<1> USE DEF Inv, header, producer
<1>1. CASE LoadGate
  <2>1. frameSize = psize /\ frameSize \in Nat
    BY <1>1 DEF LoadGate, PublishInv, TypeOK
  <2>2. TypeOK'
    BY <1>1, <2>1 DEF LoadGate, TypeOK
  <2> QED
    BY <1>1, <2>1, <2>2
    DEF LoadGate, PublishInv, CacheInv, SlotInv, CopyInv, TakenInv, Content
<1>2. CASE LoadSlots
  <2>1. slotCount = pcount
    BY <1>2 DEF LoadSlots, PublishInv, CacheInv
  <2>2. TypeOK'
    BY <1>2 DEF LoadSlots, TypeOK
  <2> QED
    BY <1>2, <2>1, <2>2
    DEF LoadSlots, PublishInv, CacheInv, SlotInv, CopyInv, TakenInv, Content
<1>3. CASE LoadShape
  <2>1. TypeOK'
    BY <1>3 DEF LoadShape, TypeOK
  <2> QED
    BY <1>3, <2>1
    DEF LoadShape, PublishInv, CacheInv, SlotInv, CopyInv, TakenInv, Content
<1> QED
  BY <1>1, <1>2, <1>3 DEF Refresh

(* A read begins at the newest frame.                                        *)
LEMMA ReadBeginInv ==
  ASSUME Inv, ReadBegin
  PROVE  Inv'
<1> USE DEF Inv, ReadBegin, header, producer, geometry
<1>1. TypeOK'
  BY DEF TypeOK, Words
<1>2. PublishInv' /\ CacheInv' /\ SlotInv' /\ TakenInv'
  BY DEF PublishInv, CacheInv, SlotInv, TakenInv, Content
<1>3. CopyInv'
  BY DEF CopyInv, TypeOK, TakenInv
<1> QED
  BY <1>1, <1>2, <1>3

(* The reader's geometry while it copies is the producer's.                  *)
LEMMA Copying ==
  ASSUME Inv, rpc = "copy"
  PROVE  /\ ppc \in {"idle", "write"}
         /\ rsize = psize /\ rcount = pcount
         /\ psize \in Nat \ {0} /\ pcount \in Nat /\ pcount >= 2 /\ pcount = Slots(psize)
<1>1. ppc \in {"idle", "write"} /\ rsize = psize /\ rcount = pcount
  BY DEF Inv, CacheInv, PublishInv
<1> QED
  BY <1>1, Pushing

(* A word copied within pcount - 2 of s0 is that frame's.                    *)
LEMMA ReadWordInv ==
  ASSUME Inv, ReadWord
  PROVE  Inv'
<1> USE DEF Inv, ReadWord, header, producer, geometry
<1>1. /\ rsize = psize /\ rcount = pcount /\ psize \in Nat \ {0}
      /\ pcount \in Nat /\ pcount >= 2 /\ pcount = Slots(psize)
      /\ s0 \in 1 .. frameSeq /\ frameSeq \in 0 .. MaxFrames /\ MaxFrames \in Nat
      /\ got \in 0 .. rsize - 1
  BY Copying, ParametersOK DEF CopyInv, TypeOK, Parameters
<1>2. Cell(s0 - 1, rcount, rsize, got) \in 0 .. Region - 1
  BY <1>1, CellInRegion
<1>3. TypeOK'
  <2>1. cells[Cell(s0 - 1, rcount, rsize, got)] \in Words
    BY <1>2 DEF TypeOK
  <2>2. out' \in [0 .. rsize - 1 -> Words]
    BY <2>1 DEF TypeOK
  <2> QED
    BY <1>1, <2>2 DEF TypeOK
<1>4. PublishInv' /\ CacheInv' /\ SlotInv' /\ TakenInv'
  BY DEF PublishInv, CacheInv, SlotInv, TakenInv, Content
<1>5. CopyInv'
  <2> SUFFICES ASSUME frameSeq - s0 <= rcount - 2, NEW i \in 0 .. got
               PROVE  out'[i] = Content(s0, i)
    BY <1>1 DEF CopyInv, Content
  <2>1. CASE i = got
    <3>1. s0 - 1 \in 0 .. MaxFrames /\ s0 - 1 < frameSeq /\ frameSeq < (s0 - 1) + pcount
      BY <1>1
    <3>2. cells[Cell(s0 - 1, pcount, psize, got)] = Content((s0 - 1) + 1, got)
      BY <1>1, <3>1 DEF SlotInv
    <3>3. (s0 - 1) + 1 = s0
      BY <1>1
    <3> QED
      BY <1>1, <2>1, <3>2, <3>3 DEF TypeOK
  <2>2. CASE i # got
    BY <1>1, <2>2 DEF CopyInv, TypeOK
  <2> QED
    BY <2>1, <2>2
<1> QED
  BY <1>3, <1>4, <1>5

(* What an accepted copy is: frame s0 - 1, whole, and still in its slot.     *)
LEMMA AcceptedCopy ==
  ASSUME Inv, ReadAccept
  PROVE  /\ taken' = s0 - 1 /\ s0 \in 1 .. frameSeq /\ frameSeq \in Nat /\ taken < s0
         /\ frameSeq - s0 <= pcount - 2
         /\ frameSize # 0 /\ pcount \in Nat
         /\ s0 \in 1 .. stamp
         /\ \A i \in DOMAIN frame' : frame'[i] = Content(s0, i)
<1> USE DEF Inv, ReadAccept, ReadEnd
<1>1. rcount = pcount /\ rcount >= 2 /\ pcount \in Nat /\ rsize \in Nat \ {0}
  BY Copying
<1>2. s0 \in 1 .. frameSeq /\ taken < s0 /\ frameSeq \in Nat /\ frameSize # 0
  BY DEF CopyInv, TypeOK, CacheInv
<1>3. frameSeq - s0 <= rcount - 2
  BY <1>1 DEF Intact
<1>4. \A i \in 0 .. rsize - 1 : out[i] = Content(s0, i)
  BY <1>3 DEF CopyInv
<1>5. DOMAIN out = 0 .. rsize - 1
  BY DEF TypeOK
<1>6. s0 \in 1 .. stamp
  BY <1>2 DEF PublishInv, TypeOK
<1> QED
  BY <1>1, <1>2, <1>3, <1>4, <1>5, <1>6

(* A read that ends, taken or dropped, forgets its copy.                     *)
LEMMA CopyEndInv ==
  ASSUME Inv, ReadAccept \/ ReadDrop
  PROVE  Inv'
<1> USE DEF Inv, ReadEnd, header, producer, geometry
<1>1. CASE ReadAccept
  <2>1. taken' = s0 - 1 /\ s0 \in 1 .. frameSeq /\ frameSeq \in 0 .. MaxFrames
    BY <1>1, AcceptedCopy DEF TypeOK
  <2>2. TypeOK'
    BY <1>1, <2>1, ParametersOK DEF ReadAccept, TypeOK, Nothing, Parameters
  <2>3. TakenInv'
    BY <1>1, <2>1 DEF ReadAccept, TakenInv
  <2>4. PublishInv' /\ CacheInv' /\ SlotInv' /\ CopyInv'
    BY <1>1 DEF ReadAccept, PublishInv, CacheInv, SlotInv, CopyInv, Content
  <2> QED
    BY <2>2, <2>3, <2>4
<1>2. CASE ReadDrop
  <2>1. TypeOK'
    BY <1>2, ParametersOK DEF ReadDrop, TypeOK, Nothing, Parameters
  <2>2. PublishInv' /\ CacheInv' /\ SlotInv' /\ CopyInv' /\ TakenInv'
    BY <1>2 DEF ReadDrop, PublishInv, CacheInv, SlotInv, CopyInv, TakenInv, Content
  <2> QED
    BY <2>1, <2>2
<1> QED
  BY <1>1, <1>2

(* Every step keeps the invariant.                                           *)
LEMMA StepInv ==
  ASSUME Inv, [Next]_vars
  PROVE  Inv'
  BY GeometryInv, PushBeginInv, PushWordInv, PushPublishInv, RefreshInv, ReadBeginInv,
     ReadWordInv, CopyEndInv, StutterInv
  DEF Next, Push, Copy

(* The slot argument holds in every reachable state.                         *)
THEOREM SlotInvariant == Spec => []Inv
<1>1. Init => Inv
  BY InitInv
<1>2. Inv /\ [Next]_vars => Inv'
  BY StepInv
<1> QED
  BY <1>1, <1>2, PTL DEF Spec

-----------------------------------------------------------------------------
(* What the forwarding thread is promised.                                   *)

(* Every frame handed over is one pushed frame, whole.                       *)
THEOREM FramesAreWhole == Spec => []WholeFrames
<1>1. Init => WholeFrames
  BY DEF Init, WholeFrames
<1>2. Inv /\ WholeFrames /\ [Next]_vars => WholeFrames'
  <2> SUFFICES ASSUME Inv, WholeFrames, [Next]_vars PROVE WholeFrames'
    OBVIOUS
  <2>1. CASE ReadAccept
    <3>1. s0 \in 1 .. stamp /\ \A i \in DOMAIN frame' : frame'[i] = Content(s0, i)
      BY <2>1, AcceptedCopy
    <3>2. UNCHANGED <<stamp, lens>>
      BY <2>1 DEF ReadAccept, producer
    <3> QED
      BY <3>1, <3>2 DEF WholeFrames, Whole, Content
  <2>2. CASE \E len \in SrcLens : PushBegin(len)
    <3> PICK len \in SrcLens : PushBegin(len)
      BY <2>2
    <3>1. /\ UNCHANGED <<taken, frame>> /\ stamp' = stamp + 1 /\ stamp \in Nat
          /\ lens' = Append(lens, len) /\ lens \in Seq(Nat) /\ Len(lens) = stamp /\ len \in Nat
      BY ParametersOK DEF PushBegin, reader, Inv, TypeOK, Parameters
    <3>2. ASSUME NEW k \in 1 .. stamp
          PROVE  lens'[k] = lens[k] /\ k \in 1 .. stamp'
      BY <3>1, <3>2
    <3> QED
      BY <3>1, <3>2 DEF WholeFrames, Whole, Content
  <2>3. CASE UNCHANGED <<taken, frame, stamp, lens>>
    BY <2>3 DEF WholeFrames, Whole, Content
  <2>4. \/ ReadAccept \/ (\E len \in SrcLens : PushBegin(len))
        \/ UNCHANGED <<taken, frame, stamp, lens>>
    BY DEF Next, Geometry, Push, Refresh, Copy, GeometryReject, GeometryBegin, StoreSlots,
           StoreSeq, StoreGate, PushWord, PushPublish, LoadGate, LoadSlots, LoadShape,
           ReadBegin, ReadWord, ReadDrop, producer, reader, vars
  <2> QED
    BY <2>1, <2>2, <2>3, <2>4
<1> QED
  BY <1>1, <1>2, SlotInvariant, PTL DEF Spec

(* A reader that has its geometry has that of the producer.                  *)
THEOREM GeometriesAgree == Spec => []GeometryAgrees
<1>1. Inv => GeometryAgrees
  BY DEF Inv, CacheInv, GeometryAgrees
<1> QED
  BY <1>1, SlotInvariant, PTL

(***************************************************************************)
(* The frame ring implements VideoSource: StoreGate is Open, PushPublish is  *)
(* Publish, an accepted read is Take, and every other step is invisible.     *)
(***************************************************************************)
THEOREM RingImplementsSource == Spec => ImplementsSource
<1>1. Init => Source!Init
  BY DEF Init, Source!Init
<1>2. Inv /\ Inv' /\ [Next]_vars => [Source!Next]_(Source!svars)
  <2> SUFFICES ASSUME Inv, Inv', [Next]_vars
               PROVE  [Source!Next]_(Source!svars)
    OBVIOUS
  <2>1. CASE StoreGate
    <3>1. /\ frameSize = 0 /\ frameSize' # 0 /\ UNCHANGED <<pcount, frameSeq, taken>>
          /\ pcount \in Nat /\ pcount >= MinSlots
      BY <2>1 DEF StoreGate, Inv, PublishInv, TypeOK, reader
    <3> QED
      BY <3>1 DEF Source!Next, Source!Open
  <2>2. CASE PushPublish
    <3>1. /\ frameSeq' = frameSeq + 1 /\ frameSeq < MaxFrames
          /\ UNCHANGED <<frameSize, pcount, taken>>
      BY <2>2, ParametersOK DEF PushPublish, Inv, PublishInv, TypeOK, reader, Parameters
    <3>2. frameSize # 0 /\ pcount \in Nat /\ pcount >= 2
      BY <2>2, Pushing DEF PushPublish
    <3> QED
      BY <3>1, <3>2 DEF Source!Next, Source!Publish
  <2>3. CASE ReadAccept
    <3>1. /\ taken' = s0 - 1 /\ s0 \in 1 .. frameSeq /\ frameSeq \in Nat /\ taken < s0
          /\ frameSeq - s0 <= pcount - 2 /\ frameSize # 0 /\ pcount \in Nat
      BY <2>3, AcceptedCopy
    <3>3. taken \in Int
      BY ParametersOK DEF Inv, TypeOK, Parameters
    <3>2. UNCHANGED <<frameSize, pcount, frameSeq>>
      BY <2>3 DEF ReadAccept, header, producer
    <3> QED
      BY <3>1, <3>2, <3>3 DEF Source!Next, Source!Take
  <2>4. CASE UNCHANGED <<frameSize, frameSeq, pcount, taken>>
    BY <2>4 DEF Source!svars
  <2>5. CASE (\E vf \in Formats : GeometryBegin(vf)) \/ StoreSeq
    <3>1. frameSize = 0 /\ frameSeq = 0 /\ frameSize' = 0 /\ frameSeq' = 0 /\ UNCHANGED taken
      BY <2>5 DEF GeometryBegin, StoreSeq, Inv, PublishInv, reader
    <3> QED
      BY <3>1 DEF Source!svars
  <2>6. \/ StoreGate \/ PushPublish \/ ReadAccept
        \/ UNCHANGED <<frameSize, frameSeq, pcount, taken>>
        \/ (\E vf \in Formats : GeometryBegin(vf)) \/ StoreSeq
    BY DEF Next, Geometry, Push, Refresh, Copy, GeometryReject, StoreSlots,
           PushBegin, PushWord, LoadGate, LoadSlots, LoadShape,
           ReadBegin, ReadWord, ReadDrop, header, producer, reader, vars
  <2> QED
    BY <2>1, <2>2, <2>3, <2>4, <2>5, <2>6
<1> QED
  BY <1>1, <1>2, SlotInvariant, PTL DEF Spec, ImplementsSource, Source!Spec

-----------------------------------------------------------------------------
(* RESTARTS, on a camera that settles on one format.                         *)

OneFormatOnly == \A v, w \in Formats : v = w

(* A geometry the camera's format gives.                                     *)
Held(size, count, shp) ==
  \E vf \in Formats : /\ size = vf.size /\ count = Slots(vf.size) /\ shp = vf.shape
                      /\ count >= MinSlots

(* The geometry in the header outlives a kill, and a new run stores the same. *)
KeptHeader ==
  /\ frameSize # 0 => Held(frameSize, slotCount, shape)
  /\ ppc \in {"slots", "seq", "gate", "idle", "write"} => Held(psize, pcount, shape)
  /\ ppc \in {"seq", "gate", "idle", "write"} => slotCount = pcount
  /\ ppc \in {"idle", "write"} => frameSize = psize
  /\ frameSize = 0 \/ ppc = "gate" => frameSeq = 0
  /\ IF ppc = "write" THEN pseq = frameSeq /\ frameSeq < stamp ELSE wrote = 0 /\ frameSeq <= stamp

KeptCache ==
  /\ rpc # "gate" => frameSize # 0 /\ rsize = frameSize
  /\ rpc \in {"shape", "ready", "copy"} => rcount = slotCount
  /\ rpc \in {"ready", "copy"} => rshape = shape

(* A frame that is not the next to be overwritten is one pushed frame, but    *)
(* no longer the one of its number.                                          *)
KeptSlots ==
  frameSize # 0 =>
    /\ \A f \in 0 .. MaxFrames : f < frameSeq /\ frameSeq < f + slotCount =>
         \E k \in 1 .. stamp : \A i \in 0 .. frameSize - 1 :
           cells[Cell(f, slotCount, frameSize, i)] = Content(k, i)
    /\ ppc = "write" => \A i \in 0 .. wrote - 1 :
         cells[Cell(pseq, slotCount, frameSize, i)] = Content(stamp, i)

(* A copy within one stream is what is still in the slot.                    *)
KeptCopy ==
  rpc = "copy" =>
    /\ s0 >= 1
    /\ from = streams =>
         /\ s0 <= frameSeq
         /\ frameSeq - s0 <= rcount - 2 =>
              \A i \in 0 .. got - 1 : out[i] = cells[Cell(s0 - 1, rcount, rsize, i)]

RestartInv == TypeOK /\ KeptHeader /\ KeptCache /\ KeptSlots /\ KeptCopy

(* Any two geometries of the one format are the same.                        *)
LEMMA HeldIsOne ==
  ASSUME OneFormatOnly, NEW a, NEW b, NEW c, NEW d, NEW e, NEW g, Held(a, b, c), Held(d, e, g)
  PROVE  a = d /\ b = e /\ c = g
<1>1. PICK v \in Formats : a = v.size /\ b = Slots(v.size) /\ c = v.shape
  BY DEF Held
<1>2. PICK w \in Formats : d = w.size /\ e = Slots(w.size) /\ g = w.shape
  BY DEF Held
<1>3. v = w
  BY DEF OneFormatOnly
<1> QED
  BY <1>1, <1>2, <1>3

(* What such a geometry is.                                                  *)
LEMMA HeldFacts ==
  ASSUME NEW a, NEW b, NEW c, Held(a, b, c)
  PROVE  a \in Nat \ {0} /\ b = Slots(a) /\ b \in Nat /\ b >= 2
<1>1. PICK v \in Formats : a = v.size /\ b = Slots(v.size) /\ b >= MinSlots
  BY DEF Held
<1>2. v.size \in Nat \ {0} /\ MinSlots \in Nat /\ MinSlots >= 2
  BY ParametersOK DEF Parameters
<1>3. Slots(v.size) \in Nat
  BY <1>2, SlotsFacts
<1> QED
  BY <1>1, <1>2, <1>3

LEMMA InitRestartInv == Init => RestartInv
<1> SUFFICES ASSUME Init PROVE RestartInv
  OBVIOUS
<1>1. TypeOK
  BY InitInv DEF Inv
<1> QED
  BY <1>1 DEF Init, RestartInv, KeptHeader, KeptCache, KeptSlots, KeptCopy

LEMMA StutterRestartInv ==
  ASSUME RestartInv, UNCHANGED vars
  PROVE  RestartInv'
<1> USE DEF RestartInv, vars
<1>1. TypeOK'
  BY DEF TypeOK
<1>2. KeptHeader' /\ KeptCache'
  BY DEF KeptHeader, KeptCache
<1>3. KeptSlots'
  BY DEF KeptSlots, Content
<1>4. KeptCopy'
  BY DEF KeptCopy
<1> QED
  BY <1>1, <1>2, <1>3, <1>4

(* A kill loses the unfinished write and nothing of the header.              *)
LEMMA RestartKeeps ==
  ASSUME RestartInv, Restart
  PROVE  RestartInv'
<1> USE DEF RestartInv, Restart, header, reader, geometry
<1>1. TypeOK'
  BY ParametersOK DEF TypeOK, Parameters
<1>2. KeptHeader'
  BY DEF KeptHeader, TypeOK
<1>3. KeptCache' /\ KeptCopy'
  BY DEF KeptCache, KeptCopy
<1>4. KeptSlots'
  BY DEF KeptSlots, Content
<1> QED
  BY <1>1, <1>2, <1>3, <1>4

(* set_geometry stores what the header held, or opens a gate with no frames   *)
(* behind it; its reset of frame_seq begins a stream.                        *)
LEMMA GeometryKeeps ==
  ASSUME OneFormatOnly, RestartInv, Geometry
  PROVE  RestartInv'
<1> USE DEF RestartInv, header, producer, reader, geometry
<1>1. ASSUME NEW vf \in Formats, GeometryReject(vf)
      PROVE  RestartInv'
  <2>1. TypeOK'
    BY <1>1 DEF GeometryReject, TypeOK
  <2>2. KeptHeader' /\ KeptCache' /\ KeptCopy'
    BY <1>1 DEF GeometryReject, KeptHeader, KeptCache, KeptCopy
  <2>3. KeptSlots'
    BY <1>1 DEF GeometryReject, KeptSlots, Content
  <2> QED
    BY <2>1, <2>2, <2>3
<1>2. ASSUME NEW vf \in Formats, GeometryBegin(vf)
      PROVE  RestartInv'
  <2>1. Held(vf.size, Slots(vf.size), vf.shape)
    BY <1>2 DEF GeometryBegin, Held
  <2>2. vf.size \in Nat \ {0} /\ Slots(vf.size) \in Nat
    BY <2>1, HeldFacts
  <2>3. frameSize # 0 => shape = vf.shape
    BY <2>1, HeldIsOne DEF KeptHeader
  <2>4. TypeOK'
    BY <1>2, <2>2 DEF GeometryBegin, TypeOK, KeptHeader
  <2>5. KeptHeader'
    BY <1>2, <2>1, <2>3 DEF GeometryBegin, KeptHeader
  <2>6. KeptCache'
    BY <1>2, <2>3 DEF GeometryBegin, KeptCache
  <2>7. KeptSlots' /\ KeptCopy'
    BY <1>2 DEF GeometryBegin, KeptSlots, KeptCopy, Content
  <2> QED
    BY <2>4, <2>5, <2>6, <2>7
<1>3. CASE StoreSlots
  <2>1. Held(psize, pcount, shape) /\ (frameSize # 0 => slotCount = pcount)
    BY <1>3, HeldIsOne DEF StoreSlots, KeptHeader
  <2>2. TypeOK'
    BY <1>3 DEF StoreSlots, TypeOK
  <2>3. KeptHeader' /\ KeptCache' /\ KeptCopy'
    BY <1>3, <2>1 DEF StoreSlots, KeptHeader, KeptCache, KeptCopy
  <2>4. KeptSlots'
    BY <1>3, <2>1 DEF StoreSlots, KeptSlots, Content
  <2> QED
    BY <2>2, <2>3, <2>4
<1>4. CASE StoreSeq
  <2>1. TypeOK'
    BY <1>4, ParametersOK DEF StoreSeq, TypeOK, Parameters
  <2>2. KeptHeader' /\ KeptCache'
    BY <1>4 DEF StoreSeq, KeptHeader, KeptCache, TypeOK
  <2>3. KeptSlots'
    BY <1>4 DEF StoreSeq, KeptSlots
  <2>4. KeptCopy'
    BY <1>4 DEF StoreSeq, KeptCopy, TypeOK
  <2> QED
    BY <2>1, <2>2, <2>3, <2>4
<1>5. CASE StoreGate
  <2>1. Held(psize, pcount, shape) /\ slotCount = pcount /\ frameSeq = 0 /\ psize # 0
    BY <1>5, HeldFacts DEF StoreGate, KeptHeader
  <2>2. frameSize # 0 => frameSize = psize
    BY <2>1, HeldIsOne DEF KeptHeader
  <2>3. TypeOK'
    BY <1>5 DEF StoreGate, TypeOK
  <2>4. KeptHeader' /\ KeptCache' /\ KeptCopy'
    BY <1>5, <2>1, <2>2 DEF StoreGate, KeptHeader, KeptCache, KeptCopy
  <2>5. KeptSlots'
    BY <1>5, <2>1 DEF StoreGate, KeptSlots
  <2> QED
    BY <2>3, <2>4, <2>5
<1> QED
  BY <1>1, <1>2, <1>3, <1>4, <1>5 DEF Geometry

(* What a push writes with is the geometry of the header.                    *)
LEMMA PushingKept ==
  ASSUME RestartInv, ppc \in {"idle", "write"}
  PROVE  /\ psize \in Nat \ {0} /\ pcount \in Nat /\ pcount >= 2 /\ pcount = Slots(psize)
         /\ frameSize = psize /\ slotCount = pcount
<1>1. Held(psize, pcount, shape) /\ frameSize = psize /\ slotCount = pcount
  BY DEF RestartInv, KeptHeader
<1> QED
  BY <1>1, HeldFacts

LEMMA PushBeginKeeps ==
  ASSUME RestartInv, NEW len \in SrcLens, PushBegin(len)
  PROVE  RestartInv'
<1> USE DEF RestartInv, PushBegin, header, reader, geometry
<1>1. /\ len \in Nat /\ stamp \in Nat /\ lens \in Seq(Nat) /\ Len(lens) = stamp
      /\ frameSeq <= stamp /\ frameSeq \in Nat /\ MaxFrames \in Nat
  BY ParametersOK DEF TypeOK, KeptHeader, Parameters
<1>2. ASSUME NEW k \in 1 .. stamp
      PROVE  lens'[k] = lens[k] /\ k \in 1 .. stamp'
  BY <1>1, <1>2
<1>3. TypeOK'
  <2>1. lens' \in Seq(Nat) /\ Len(lens') = stamp + 1
    BY <1>1
  <2> QED
    BY <1>1, <2>1 DEF TypeOK
<1>4. KeptHeader' /\ KeptCache' /\ KeptCopy'
  BY <1>1 DEF KeptHeader, KeptCache, KeptCopy
<1>5. KeptSlots'
  <2> SUFFICES ASSUME frameSize # 0, NEW f \in 0 .. MaxFrames,
                      f < frameSeq, frameSeq < f + slotCount
               PROVE  \E k \in 1 .. stamp' : \A i \in 0 .. frameSize - 1 :
                        cells[Cell(f, slotCount, frameSize, i)] = Content(k, i)'
    BY DEF KeptSlots
  <2>1. PICK k \in 1 .. stamp : \A i \in 0 .. frameSize - 1 :
               cells[Cell(f, slotCount, frameSize, i)] = Content(k, i)
    BY DEF KeptSlots
  <2> QED
    BY <1>2, <2>1 DEF Content
<1> QED
  BY <1>3, <1>4, <1>5

(* A stored word lands in the slot of the next frame, and disturbs neither    *)
(* the frames that may still be read nor a copy that may be accepted.        *)
LEMMA PushWordKeeps ==
  ASSUME RestartInv, PushWord
  PROVE  RestartInv'
<1> USE DEF RestartInv, PushWord, header, reader, geometry
<1>1. /\ psize \in Nat \ {0} /\ pcount \in Nat \ {0} /\ pcount = Slots(psize) /\ pcount > 0
      /\ frameSize = psize /\ slotCount = pcount
      /\ pseq \in Nat /\ pseq = frameSeq /\ wrote \in 0 .. psize - 1
      /\ stamp \in Nat /\ stamp \in 1 .. MaxFrames /\ MaxFrames \in Nat
  BY PushingKept, ParametersOK DEF TypeOK, KeptHeader, Parameters
<1>2. Cell(pseq, pcount, psize, wrote) \in 0 .. Region - 1
  BY <1>1, CellInRegion
<1>3. Content(stamp, wrote) \in Words
  BY <1>1 DEF Content, Words, Zero
<1>4. TypeOK'
  <2>1. cells' \in [0 .. Region - 1 -> Words]
    BY <1>2, <1>3 DEF TypeOK
  <2> QED
    BY <1>1, <2>1 DEF TypeOK
<1>5. KeptHeader' /\ KeptCache'
  BY DEF KeptHeader, KeptCache
<1>6. ASSUME NEW f \in Nat, NEW i \in 0 .. psize - 1, f < frameSeq, frameSeq < f + pcount
      PROVE  cells'[Cell(f, pcount, psize, i)] = cells[Cell(f, pcount, psize, i)]
  <2>1. f % pcount # pseq % pcount
    <3>1. f # pseq /\ f - pseq < pcount /\ pseq - f < pcount /\ f \in Int /\ pseq \in Int
      BY <1>1, <1>6
    <3> QED
      BY <1>1, <3>1, CellOfOne
  <2>2. Cell(f, pcount, psize, i) # Cell(pseq, pcount, psize, wrote)
    BY <1>1, <2>1, CellsDiffer
  <2>3. Cell(f, pcount, psize, i) \in 0 .. Region - 1
    BY <1>1, CellInRegion
  <2> QED
    BY <2>2, <2>3 DEF TypeOK
<1>7. ASSUME NEW i \in 0 .. wrote
      PROVE  cells'[Cell(pseq, pcount, psize, i)] = Content(stamp, i)
  <2>1. i \in 0 .. psize - 1
    BY <1>1
  <2>2. Cell(pseq, pcount, psize, i) \in 0 .. Region - 1
    BY <1>1, <2>1, CellInRegion
  <2>3. CASE i = wrote
    BY <1>2, <2>3 DEF TypeOK
  <2>4. CASE i # wrote
    <3>1. Cell(pseq, pcount, psize, i) # Cell(pseq, pcount, psize, wrote)
      BY <1>1, <2>1, <2>4, CellsDiffer
    <3>2. cells[Cell(pseq, pcount, psize, i)] = Content(stamp, i)
      BY <1>1, <2>4 DEF KeptSlots
    <3> QED
      BY <2>2, <3>1, <3>2 DEF TypeOK
  <2> QED
    BY <2>3, <2>4
<1>8. KeptSlots'
  <2>1. ASSUME NEW f \in 0 .. MaxFrames, f < frameSeq, frameSeq < f + slotCount
        PROVE  \E k \in 1 .. stamp : \A i \in 0 .. frameSize - 1 :
                 cells'[Cell(f, slotCount, frameSize, i)] = Content(k, i)
    <3>1. PICK k \in 1 .. stamp : \A i \in 0 .. frameSize - 1 :
                 cells[Cell(f, slotCount, frameSize, i)] = Content(k, i)
      BY <1>1, <2>1 DEF KeptSlots
    <3> QED
      BY <1>1, <1>6, <2>1, <3>1
  <2> QED
    BY <1>1, <1>7, <2>1 DEF KeptSlots, Content
<1>9. KeptCopy'
  <2> SUFFICES ASSUME rpc = "copy", from = streams, frameSeq - s0 <= rcount - 2,
                      NEW i \in 0 .. got - 1
               PROVE  out[i] = cells'[Cell(s0 - 1, rcount, rsize, i)]
    BY DEF KeptCopy
  <2>1. rsize = psize /\ rcount = pcount /\ i \in 0 .. psize - 1
    BY <1>1 DEF KeptCache, TypeOK
  <2>2. s0 - 1 \in Nat /\ s0 - 1 < frameSeq /\ frameSeq < (s0 - 1) + pcount
    <3>1. s0 \in Nat /\ frameSeq \in Nat /\ pcount \in Nat
      BY <1>1 DEF TypeOK
    <3>2. s0 >= 1 /\ s0 <= frameSeq
      BY DEF KeptCopy
    <3>3. frameSeq - s0 <= pcount - 2
      BY <2>1
    <3> QED
      BY ONLY <3>1, <3>2, <3>3
  <2>3. cells'[Cell(s0 - 1, pcount, psize, i)] = cells[Cell(s0 - 1, pcount, psize, i)]
    BY <1>6, <2>1, <2>2
  <2> QED
    BY <2>1, <2>3 DEF KeptCopy
<1> QED
  BY <1>4, <1>5, <1>8, <1>9

LEMMA PushPublishKeeps ==
  ASSUME RestartInv, PushPublish
  PROVE  RestartInv'
<1> USE DEF RestartInv, PushPublish, reader, geometry
<1>1. /\ psize \in Nat \ {0} /\ pcount \in Nat \ {0} /\ pseq = frameSeq /\ frameSeq \in Nat
      /\ frameSeq' = frameSeq + 1 /\ frameSeq < stamp /\ MaxFrames \in Nat
      /\ stamp \in 1 .. MaxFrames /\ frameSize = psize /\ slotCount = pcount /\ wrote = psize
  BY PushingKept, ParametersOK DEF TypeOK, KeptHeader, Parameters
<1>2. TypeOK'
  BY <1>1 DEF TypeOK
<1>3. KeptHeader' /\ KeptCache'
  BY <1>1 DEF KeptHeader, KeptCache
<1>4. KeptSlots'
  <2> SUFFICES ASSUME NEW f \in 0 .. MaxFrames, f < frameSeq + 1, frameSeq + 1 < f + slotCount
               PROVE  \E k \in 1 .. stamp : \A i \in 0 .. frameSize - 1 :
                        cells[Cell(f, slotCount, frameSize, i)] = Content(k, i)
    BY <1>1 DEF KeptSlots, Content
  <2>1. CASE f = frameSeq
    <3>1. \A i \in 0 .. frameSize - 1 : cells[Cell(f, slotCount, frameSize, i)] = Content(stamp, i)
      BY <1>1, <2>1 DEF KeptSlots
    <3> QED
      BY <1>1, <3>1
  <2>2. CASE f # frameSeq
    BY <1>1, <2>2 DEF KeptSlots
  <2> QED
    BY <2>1, <2>2
<1>5. KeptCopy'
  <2>1. rpc = "copy" => s0 >= 1 /\ s0 \in Nat /\ rcount \in Nat
    BY DEF KeptCopy, TypeOK
  <2>2. rpc = "copy" /\ from = streams =>
          /\ s0 <= frameSeq + 1
          /\ frameSeq + 1 - s0 <= rcount - 2 =>
               \A i \in 0 .. got - 1 : out[i] = cells[Cell(s0 - 1, rcount, rsize, i)]
    <3> SUFFICES ASSUME rpc = "copy", from = streams
                 PROVE  /\ s0 <= frameSeq + 1
                        /\ frameSeq + 1 - s0 <= rcount - 2 =>
                             \A i \in 0 .. got - 1 : out[i] = cells[Cell(s0 - 1, rcount, rsize, i)]
      OBVIOUS
    <3>1. s0 <= frameSeq
      BY DEF KeptCopy
    <3>2. frameSeq + 1 - s0 <= rcount - 2 => frameSeq - s0 <= rcount - 2
      BY <1>1, <2>1
    <3> QED
      BY <1>1, <2>1, <3>1, <3>2 DEF KeptCopy
  <2> QED
    BY <1>1, <2>1, <2>2 DEF KeptCopy
<1> QED
  BY <1>2, <1>3, <1>4, <1>5

(* The reader caches the header's geometry, which no later run changes.      *)
LEMMA RefreshKeeps ==
  ASSUME RestartInv, Refresh \/ ReadBegin
  PROVE  RestartInv'
<1> USE DEF RestartInv, header, producer
<1>1. CASE LoadGate
  <2>1. TypeOK'
    BY <1>1 DEF LoadGate, TypeOK
  <2> QED
    BY <1>1, <2>1 DEF LoadGate, KeptHeader, KeptCache, KeptSlots, KeptCopy, Content
<1>2. CASE LoadSlots
  <2>1. TypeOK'
    BY <1>2 DEF LoadSlots, TypeOK
  <2> QED
    BY <1>2, <2>1 DEF LoadSlots, KeptHeader, KeptCache, KeptSlots, KeptCopy, Content
<1>3. CASE LoadShape
  <2>1. TypeOK'
    BY <1>3 DEF LoadShape, TypeOK
  <2> QED
    BY <1>3, <2>1 DEF LoadShape, KeptHeader, KeptCache, KeptSlots, KeptCopy, Content
<1>4. CASE ReadBegin
  <2> USE <1>4 DEF ReadBegin, geometry
  <2>1. TypeOK'
    BY DEF TypeOK, Words
  <2>2. KeptHeader' /\ KeptCache'
    BY DEF KeptHeader, KeptCache
  <2>3. KeptSlots'
    BY DEF KeptSlots, Content
  <2>4. KeptCopy'
    BY DEF KeptCopy, TypeOK
  <2> QED
    BY <2>1, <2>2, <2>3, <2>4
<1> QED
  BY <1>1, <1>2, <1>3, <1>4 DEF Refresh

LEMMA ReadWordKeeps ==
  ASSUME RestartInv, ReadWord
  PROVE  RestartInv'
<1> USE DEF RestartInv, ReadWord, header, producer, geometry
<1>1. /\ rsize \in Nat \ {0} /\ rcount = Slots(rsize) /\ rcount > 0 /\ rcount \in Nat
      /\ got \in 0 .. rsize - 1 /\ MaxFrames \in Nat
  <2>1. Held(frameSize, slotCount, shape) /\ rsize = frameSize /\ rcount = slotCount
    BY DEF KeptCache, KeptHeader
  <2> QED
    BY <2>1, HeldFacts, ParametersOK DEF TypeOK, Parameters
<1>2. Cell(s0 - 1, rcount, rsize, got) \in 0 .. Region - 1
  <2>1. s0 - 1 \in Nat
    BY DEF KeptCopy, TypeOK
  <2> QED
    BY <1>1, <2>1, CellInRegion
<1>3. TypeOK'
  <2>1. cells[Cell(s0 - 1, rcount, rsize, got)] \in Words
    BY <1>2 DEF TypeOK
  <2>2. out' \in [0 .. rsize - 1 -> Words]
    BY <2>1 DEF TypeOK
  <2> QED
    BY <1>1, <2>2 DEF TypeOK
<1>4. KeptHeader' /\ KeptCache'
  BY DEF KeptHeader, KeptCache
<1>5. KeptSlots'
  BY DEF KeptSlots, Content
<1>6. KeptCopy'
  <2> SUFFICES ASSUME from = streams, frameSeq - s0 <= rcount - 2, NEW i \in 0 .. got
               PROVE  out'[i] = cells[Cell(s0 - 1, rcount, rsize, i)]
    BY <1>1 DEF KeptCopy
  <2>1. CASE i = got
    BY <1>1, <2>1 DEF TypeOK
  <2>2. CASE i # got
    BY <1>1, <2>2 DEF KeptCopy, TypeOK
  <2> QED
    BY <2>1, <2>2
<1> QED
  BY <1>3, <1>4, <1>5, <1>6

(* A copy accepted in the stream it began in is one pushed frame.            *)
LEMMA AcceptedKept ==
  ASSUME RestartInv, ReadAccept, ~ spanned'
  PROVE  \E k \in 1 .. stamp : \A i \in DOMAIN frame' : frame'[i] = Content(k, i)
<1> USE DEF RestartInv, ReadAccept
<1>1. /\ frameSize \in Nat \ {0} /\ rsize = frameSize /\ rcount = slotCount
      /\ rcount \in Nat /\ rcount >= 2
  <2>1. Held(frameSize, slotCount, shape) /\ rsize = frameSize /\ rcount = slotCount
    BY DEF KeptCache, KeptHeader
  <2> QED
    BY <2>1, HeldFacts
<1>2. from = streams /\ frameSeq \in 0 .. MaxFrames /\ MaxFrames \in Nat /\ s0 \in Nat
  <2>1. from = streams
    BY Zenon
  <2> QED
    BY <2>1, ParametersOK DEF TypeOK, Parameters
<1>3. s0 \in 1 .. frameSeq /\ frameSeq - s0 <= rcount - 2
  BY <1>1, <1>2 DEF KeptCopy, Intact
<1>4. \A i \in 0 .. rsize - 1 : out[i] = cells[Cell(s0 - 1, rcount, rsize, i)]
  BY <1>2, <1>3 DEF KeptCopy
<1>5. s0 - 1 \in 0 .. MaxFrames /\ s0 - 1 < frameSeq /\ frameSeq < (s0 - 1) + slotCount
  BY <1>1, <1>2, <1>3
<1>6. PICK k \in 1 .. stamp : \A i \in 0 .. frameSize - 1 :
             cells[Cell(s0 - 1, slotCount, frameSize, i)] = Content(k, i)
  BY <1>1, <1>5 DEF KeptSlots
<1>7. DOMAIN out = 0 .. rsize - 1 /\ frame' = out
  BY DEF TypeOK
<1>8. \A i \in DOMAIN frame' : frame'[i] = Content(k, i)
  BY <1>1, <1>4, <1>6, <1>7
<1> QED
  BY <1>8

LEMMA CopyEndKeeps ==
  ASSUME RestartInv, ReadAccept \/ ReadDrop
  PROVE  RestartInv'
<1> USE DEF RestartInv, ReadEnd, header, producer, geometry
<1>1. TypeOK'
  <2>1. CASE ReadAccept
    <3>1. taken' \in -1 .. MaxFrames
      BY <2>1, ParametersOK DEF ReadAccept, KeptCopy, TypeOK, Parameters
    <3>2. spanned' \in BOOLEAN
      BY <2>1 DEF ReadAccept
    <3> QED
      BY <2>1, <3>1, <3>2, ParametersOK DEF ReadAccept, TypeOK, Nothing, Parameters
  <2>2. CASE ReadDrop
    BY <2>2, ParametersOK DEF ReadDrop, TypeOK, Nothing, Parameters
  <2> QED
    BY <2>1, <2>2
<1>2. KeptHeader' /\ KeptCache' /\ KeptCopy'
  BY DEF ReadAccept, ReadDrop, KeptHeader, KeptCache, KeptCopy
<1>3. KeptSlots'
  BY DEF ReadAccept, ReadDrop, KeptSlots, Content
<1> QED
  BY <1>1, <1>2, <1>3

LEMMA StepRestartInv ==
  ASSUME OneFormatOnly, RestartInv, [Next \/ Restart]_vars
  PROVE  RestartInv'
  BY GeometryKeeps, PushBeginKeeps, PushWordKeeps, PushPublishKeeps, RefreshKeeps,
     ReadWordKeeps, CopyEndKeeps, RestartKeeps, StutterRestartInv
  DEF Next, Push, Copy

(* What holds across kills and restarts, in every reachable state.           *)
THEOREM RestartInvariant ==
  ASSUME OneFormatOnly
  PROVE  RestartSpec => []RestartInv
<1>1. Init => RestartInv
  BY InitRestartInv
<1>2. RestartInv /\ [Next \/ Restart]_vars => RestartInv'
  BY StepRestartInv
<1> QED
  BY <1>1, <1>2, PTL DEF RestartSpec

(***************************************************************************)
(* However often the VM program is killed, between any two stores, and       *)
(* started again on a camera with one format, a read that no reset of        *)
(* frame_seq fell into hands over one pushed frame, whole.                   *)
(***************************************************************************)
THEOREM OneStreamIsWhole ==
  ASSUME OneFormatOnly
  PROVE  RestartSpec => []WholeInOneStream
<1>1. Init => WholeInOneStream
  BY DEF Init, WholeInOneStream
<1>2. RestartInv /\ WholeInOneStream /\ [Next \/ Restart]_vars => WholeInOneStream'
  <2> SUFFICES ASSUME RestartInv, WholeInOneStream, [Next \/ Restart]_vars
               PROVE  WholeInOneStream'
    OBVIOUS
  <2>1. CASE ReadAccept
    <3> SUFFICES ASSUME ~ spanned' PROVE Whole'
      BY DEF WholeInOneStream
    <3>1. \E k \in 1 .. stamp : \A i \in DOMAIN frame' : frame'[i] = Content(k, i)
      BY <2>1, AcceptedKept
    <3>2. UNCHANGED <<stamp, lens>>
      BY <2>1 DEF ReadAccept, producer
    <3> QED
      BY <3>1, <3>2 DEF Whole, Content
  <2>2. CASE \E len \in SrcLens : PushBegin(len)
    <3> PICK len \in SrcLens : PushBegin(len)
      BY <2>2
    <3>1. /\ UNCHANGED <<taken, frame, spanned>> /\ stamp' = stamp + 1 /\ stamp \in Nat
          /\ lens' = Append(lens, len) /\ lens \in Seq(Nat) /\ Len(lens) = stamp /\ len \in Nat
      BY ParametersOK DEF PushBegin, reader, RestartInv, TypeOK, Parameters
    <3>2. ASSUME NEW k \in 1 .. stamp
          PROVE  lens'[k] = lens[k] /\ k \in 1 .. stamp'
      BY <3>1, <3>2
    <3> QED
      BY <3>1, <3>2 DEF WholeInOneStream, Whole, Content
  <2>3. CASE UNCHANGED <<taken, frame, spanned, stamp, lens>>
    BY <2>3 DEF WholeInOneStream, Whole, Content
  <2>4. \/ ReadAccept \/ (\E len \in SrcLens : PushBegin(len))
        \/ UNCHANGED <<taken, frame, spanned, stamp, lens>>
    BY DEF Next, Geometry, Push, Refresh, Copy, GeometryReject, GeometryBegin, StoreSlots,
           StoreSeq, StoreGate, PushWord, PushPublish, LoadGate, LoadSlots, LoadShape,
           ReadBegin, ReadWord, ReadDrop, Restart, producer, reader, vars
  <2> QED
    BY <2>1, <2>2, <2>3, <2>4
<1> QED
  BY <1>1, <1>2, RestartInvariant, PTL DEF RestartSpec

(* Across restarts with one format the two sides' geometries agree.          *)
THEOREM GeometriesSurvive ==
  ASSUME OneFormatOnly
  PROVE  RestartSpec => []GeometryAgrees
<1>1. RestartInv => GeometryAgrees
  BY DEF RestartInv, KeptHeader, KeptCache, GeometryAgrees
<1> QED
  BY <1>1, RestartInvariant, PTL

=============================================================================
