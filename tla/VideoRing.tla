------------------------------ MODULE VideoRing ------------------------------
(***************************************************************************)
(* The frame ring of packages/shared/src/lib.rs (ShmVideoBuffer): the VM's   *)
(* video callback publishes the geometry and pushes frames, the host's video *)
(* thread caches the geometry and copies the newest frame out.  Every store  *)
(* to and every load from the shared region is a step, a frame being copied  *)
(* word by word; stores become visible in program order (x86_64).            *)
(*                                                                         *)
(* Memory is measured in words of the copy.  Word i of the k-th frame pushed *)
(* is named <<k, i>>, so a cell of the region says which word it holds.      *)
(***************************************************************************)
EXTENDS Integers, Sequences

CONSTANTS
  Region,     (* words of the region after the header                        *)
  Align,      (* words in the 64 bytes a slot is aligned to                  *)
  MinSlots,   (* VIDEO_MIN_SLOTS                                             *)
  Formats,    (* the formats the camera may settle on: [size, shape]         *)
  SrcLens,    (* lengths of the sample buffers the callback is given         *)
  MaxFrames,  (* bound: frames ever pushed                                   *)
  MaxRuns     (* bound: times the VM program is started                      *)

ASSUME RegionIsMemory == Region \in Nat /\ Align \in Nat \ {0}

(* VIDEO_MIN_SLOTS is 3; the recheck of read_frame needs no less than 2.     *)
ASSUME EnoughSlots == MinSlots \in Nat /\ MinSlots >= 2

ASSUME FormatsHaveSize == \A vf \in Formats : vf.size \in Nat \ {0}

ASSUME BoundsAreNaturals ==
  SrcLens \subseteq Nat \ {0} /\ MaxFrames \in Nat /\ MaxRuns \in Nat

VARIABLES
  frameSize, slotCount, shape, frameSeq,  (* the shared header; shape is its  *)
                                          (* width, height, stride and fourcc *)
  cells,            (* the shared slots                                      *)
  ppc, psize, pcount,    (* producer: control state, cached geometry         *)
  pseq, stamp, wrote,    (* its local seq, frames ever pushed, words written *)
  lens,             (* useful words of each frame pushed                     *)
  runs,             (* times the VM program was started                      *)
  rpc, rsize, rcount, rshape,  (* reader: control state, cached geometry     *)
  s0, got, out,     (* its first load of frame_seq, words copied, the copy   *)
  taken, frame,     (* number and words of the frame last handed over        *)
  streams, from,    (* streams begun; the one a read began in                *)
  spanned           (* did the frame last handed over span two of them?      *)

header   == <<frameSize, slotCount, shape, frameSeq>>
producer == <<ppc, psize, pcount, pseq, stamp, wrote, lens, runs, streams>>
geometry == <<rsize, rcount, rshape>>
reader   == <<rpc, geometry, s0, got, out, taken, frame, from, spanned>>
vars     == <<frameSize, slotCount, shape, frameSeq, cells,
              ppc, psize, pcount, pseq, stamp, wrote, lens, runs,
              rpc, rsize, rcount, rshape, s0, got, out, taken, frame, streams, from, spanned>>

Zero  == <<0, 0>>     (* a zeroed word                                       *)
Unset == "unset"      (* the shape of a header whose geometry is not set     *)
Nothing == [i \in 0 .. -1 |-> Zero]

-----------------------------------------------------------------------------
(* align_up_64, in words.                                                    *)
Stride(size) == ((size + Align - 1) \div Align) * Align

(* How many slots the region has room for.                                   *)
Slots(size) == Region \div Stride(size)

(* Where word i of frame number seq lies.                                    *)
Cell(seq, slots, size, i) == (seq % slots) * Stride(size) + i

Content(k, i) == IF i < lens[k] THEN <<k, i>> ELSE Zero

-----------------------------------------------------------------------------
(* The host has initialized the region: geometry unset, no frame.            *)
Init ==
  /\ frameSize = 0 /\ slotCount = 0 /\ shape = Unset /\ frameSeq = 0
  /\ cells = [a \in 0 .. Region - 1 |-> Zero]
  /\ ppc = "attached" /\ psize = 0 /\ pcount = 0
  /\ pseq = 0 /\ stamp = 0 /\ wrote = 0 /\ lens = <<>> /\ runs = 1
  /\ rpc = "gate" /\ rsize = 0 /\ rcount = 0 /\ rshape = Unset
  /\ s0 = 0 /\ got = 0 /\ out = Nothing
  /\ taken = -1 /\ frame = Nothing
  /\ streams = 0 /\ from = 0 /\ spanned = FALSE

-----------------------------------------------------------------------------
(* PRODUCER: set_geometry.                                                   *)

(* The region is too small: the error ends video, audio goes on without it.  *)
GeometryReject(vf) ==
  /\ ppc = "attached"
  /\ Slots(vf.size) < MinSlots
  /\ ppc' = "rejected"
  /\ UNCHANGED <<header, cells, psize, pcount, pseq, stamp, wrote, lens, runs, streams, reader>>

(* Mutant: the gate is stored with the shape, before the rest.               *)
GateFirst(vf) ==
  /\ ppc = "attached"
  /\ Slots(vf.size) >= MinSlots
  /\ psize' = vf.size
  /\ pcount' = Slots(vf.size)
  /\ shape' = vf.shape
  /\ frameSize' = vf.size
  /\ ppc' = "slots"
  /\ UNCHANGED <<slotCount, frameSeq, cells, pseq, stamp, wrote, lens, runs, streams, reader>>

(* Cache the geometry and store width, height, stride and fourcc.            *)
GeometryBegin(vf) ==
  /\ ppc = "attached"
  /\ Slots(vf.size) >= MinSlots
  /\ psize' = vf.size
  /\ pcount' = Slots(vf.size)
  /\ shape' = vf.shape
  /\ ppc' = "slots"
  /\ UNCHANGED <<frameSize, slotCount, frameSeq, cells,
                 pseq, stamp, wrote, lens, runs, streams, reader>>

StoreSlots ==
  /\ ppc = "slots"
  /\ slotCount' = pcount
  /\ ppc' = "seq"
  /\ UNCHANGED <<frameSize, shape, frameSeq, cells,
                 psize, pcount, pseq, stamp, wrote, lens, runs, streams, reader>>

(* A fresh stream.                                                           *)
StoreSeq ==
  /\ ppc = "seq"
  /\ frameSeq' = 0
  /\ streams' = streams + 1
  /\ ppc' = "gate"
  /\ UNCHANGED <<frameSize, slotCount, shape, cells,
                 psize, pcount, pseq, stamp, wrote, lens, runs, reader>>

(* The gate, last.                                                           *)
StoreGate ==
  /\ ppc = "gate"
  /\ frameSize' = psize
  /\ ppc' = "idle"
  /\ UNCHANGED <<slotCount, shape, frameSeq, cells,
                 psize, pcount, pseq, stamp, wrote, lens, runs, streams, reader>>

-----------------------------------------------------------------------------
(* PRODUCER: push_frame.                                                     *)

(* Load frame_seq and pick the slot.                                         *)
PushBegin(len) ==
  /\ ppc = "idle"
  /\ stamp < MaxFrames
  /\ pseq' = frameSeq
  /\ stamp' = stamp + 1
  /\ lens' = Append(lens, len)
  /\ wrote' = 0
  /\ ppc' = "write"
  /\ UNCHANGED <<header, cells, psize, pcount, runs, streams, reader>>

(* One store of volatile_write_frame: a short source is zero-filled.         *)
PushWord ==
  /\ ppc = "write"
  /\ wrote < psize
  /\ cells' = [cells EXCEPT ![Cell(pseq, pcount, psize, wrote)] = Content(stamp, wrote)]
  /\ wrote' = wrote + 1
  /\ UNCHANGED <<header, ppc, psize, pcount, pseq, stamp, lens, runs, streams, reader>>

(* Mutant: the count is bumped before the words are written.                 *)
PublishEarly ==
  /\ ppc = "write"
  /\ frameSeq' = pseq + 1
  /\ IF wrote = psize
       THEN ppc' = "idle" /\ pseq' = 0 /\ wrote' = 0
       ELSE UNCHANGED <<ppc, pseq, wrote>>
  /\ UNCHANGED <<frameSize, slotCount, shape, cells, psize, pcount, stamp, lens, runs, streams, reader>>

(* Publish the frame.                                                        *)
PushPublish ==
  /\ ppc = "write"
  /\ wrote = psize
  /\ frameSeq' = pseq + 1
  /\ pseq' = 0 /\ wrote' = 0
  /\ ppc' = "idle"
  /\ UNCHANGED <<frameSize, slotCount, shape, cells,
                 psize, pcount, stamp, lens, runs, streams, reader>>

(***************************************************************************)
(* The VM program is killed between any two stores and started again.  Its   *)
(* attach finds the old header valid and caches the geometry it holds;       *)
(* nothing is pushed before set_geometry replaces that.                      *)
(***************************************************************************)
Restart ==
  /\ runs < MaxRuns
  /\ runs' = runs + 1
  /\ psize' = frameSize
  /\ pcount' = IF frameSize = 0 THEN 0 ELSE slotCount
  /\ pseq' = 0 /\ wrote' = 0
  /\ ppc' = "attached"
  /\ UNCHANGED <<header, cells, stamp, lens, streams, reader>>

-----------------------------------------------------------------------------
(* READER: refresh_geometry, until it finds the gate open.                   *)

LoadGate ==
  /\ rpc = "gate"
  /\ frameSize # 0
  /\ rsize' = frameSize
  /\ rpc' = "slots"
  /\ UNCHANGED <<header, cells, producer, rcount, rshape, s0, got, out, taken, frame, from, spanned>>

LoadSlots ==
  /\ rpc = "slots"
  /\ rcount' = slotCount
  /\ rpc' = "shape"
  /\ UNCHANGED <<header, cells, producer, rsize, rshape, s0, got, out, taken, frame, from, spanned>>

LoadShape ==
  /\ rpc = "shape"
  /\ rshape' = shape
  /\ rpc' = "ready"
  /\ UNCHANGED <<header, cells, producer, rsize, rcount, s0, got, out, taken, frame, from, spanned>>

-----------------------------------------------------------------------------
(* READER: read_frame.                                                       *)

(* Load frame_seq; with no frame yet the call returns None at once.          *)
ReadBegin ==
  /\ rpc = "ready"
  /\ frameSeq # 0
  /\ s0' = frameSeq
  /\ from' = streams
  /\ out' = [i \in 0 .. rsize - 1 |-> Zero]
  /\ rpc' = "copy"
  /\ UNCHANGED <<header, cells, producer, geometry, got, taken, frame, spanned>>

(* One load of volatile_copy_from_words.                                     *)
ReadWord ==
  /\ rpc = "copy"
  /\ got < rsize
  /\ out' = [out EXCEPT ![got] = cells[Cell(s0 - 1, rcount, rsize, got)]]
  /\ got' = got + 1
  /\ UNCHANGED <<header, cells, producer, rpc, geometry, s0, taken, frame, from, spanned>>

IntactLate == frameSeq >= s0 /\ frameSeq - s0 <= rcount - 1
IntactUnchecked == TRUE
(* The recheck (a count below s0 wraps round to a huge difference).          *)
Intact == frameSeq >= s0 /\ frameSeq - s0 <= (IF rcount >= 2 THEN rcount - 2 ELSE 0)

ReadEnd == s0' = 0 /\ from' = 0 /\ got' = 0 /\ out' = Nothing /\ rpc' = "ready"

ReadAccept ==
  /\ rpc = "copy"
  /\ got = rsize
  /\ Intact
  /\ taken' = s0 - 1
  /\ frame' = out
  /\ spanned' = (from # streams)
  /\ ReadEnd
  /\ UNCHANGED <<header, cells, producer, geometry>>

(* Possibly torn: None, the caller drops the frame.                          *)
ReadDrop ==
  /\ rpc = "copy"
  /\ got = rsize
  /\ ~ Intact
  /\ ReadEnd
  /\ UNCHANGED <<header, cells, producer, geometry, taken, frame, spanned>>

-----------------------------------------------------------------------------
Geometry == \/ \E vf \in Formats : GeometryReject(vf) \/ GeometryBegin(vf)
            \/ StoreSlots \/ StoreSeq \/ StoreGate
Push     == (\E len \in SrcLens : PushBegin(len)) \/ PushWord \/ PushPublish
Refresh  == LoadGate \/ LoadSlots \/ LoadShape
Copy     == ReadWord \/ ReadAccept \/ ReadDrop

Next == Geometry \/ Push \/ Refresh \/ ReadBegin \/ Copy

Spec == Init /\ [][Next]_vars

(* The same when the VM program may be killed and restarted.                 *)
RestartSpec == Init /\ [][Next \/ Restart]_vars

-----------------------------------------------------------------------------
Words == {Zero} \cup ((1 .. MaxFrames) \X Nat)

TypeOK ==
  /\ frameSize \in Nat /\ slotCount \in Nat /\ frameSeq \in 0 .. MaxFrames
  /\ cells \in [0 .. Region - 1 -> Words]
  /\ ppc \in {"attached", "rejected", "slots", "seq", "gate", "idle", "write"}
  /\ psize \in Nat /\ pcount \in Nat /\ wrote \in 0 .. psize
  /\ pseq \in 0 .. MaxFrames /\ stamp \in 0 .. MaxFrames
  /\ lens \in Seq(Nat) /\ Len(lens) = stamp
  /\ rpc \in {"gate", "slots", "shape", "ready", "copy"}
  /\ rsize \in Nat /\ rcount \in Nat
  /\ s0 \in 0 .. MaxFrames /\ got \in 0 .. (IF rpc = "copy" THEN rsize ELSE 0)
  /\ out \in [(IF rpc = "copy" THEN 0 .. rsize - 1 ELSE 0 .. -1) -> Words]
  /\ taken \in -1 .. MaxFrames
  /\ streams \in Nat /\ from \in 0 .. streams /\ spanned \in BOOLEAN

(***************************************************************************)
(* A frame handed over is one frame the VM pushed, every word of it in its   *)
(* place, and its silent tail zeroed: the slot was not rewritten at any time *)
(* of the copy ("Tearing is handled structurally, not by timing", lib.rs).   *)
(***************************************************************************)
Whole == \E k \in 1 .. stamp : \A i \in DOMAIN frame : frame[i] = Content(k, i)

WholeFrames == taken >= 0 => Whole

(***************************************************************************)
(* With restarts and one format, only a read that spans the reset of         *)
(* frame_seq can hand over a torn frame: frames cut short by a kill, and     *)
(* frames of the stream before, are never mixed into a later read.           *)
(***************************************************************************)
WholeInOneStream == taken >= 0 /\ ~ spanned => Whole

(***************************************************************************)
(* "Both sides derive slot_stride from frame_size identically, so the modulo *)
(* math matches" (lib.rs): while frames are pushed, a reader that has its    *)
(* geometry has the producer's.                                              *)
(***************************************************************************)
GeometryAgrees ==
  rpc \in {"ready", "copy"} /\ ppc \in {"idle", "write"} =>
    rsize = psize /\ rcount = pcount /\ rshape = shape

(***************************************************************************)
(* Why a frame is whole, as an inductive invariant of Spec.  The header is   *)
(* that of the producer once the gate is open, and the reader's cache that   *)
(* of the header.  Frame f stays in its slot until frame f + pcount begins;  *)
(* so a copy is right as long as frame_seq is within pcount - 2 of s0.       *)
(***************************************************************************)
PublishInv ==
  /\ ppc \in {"attached", "rejected"} <=> psize = 0
  /\ psize # 0 => pcount = Slots(psize) /\ pcount >= MinSlots
  /\ ppc \in {"seq", "gate", "idle", "write"} => slotCount = pcount
  /\ frameSize = (IF ppc \in {"idle", "write"} THEN psize ELSE 0)
  /\ stamp = frameSeq + (IF ppc = "write" THEN 1 ELSE 0)
  /\ ppc = "write" => pseq = frameSeq
  /\ frameSize = 0 => frameSeq = 0 /\ streams = (IF ppc = "gate" THEN 1 ELSE 0)

CacheInv ==
  /\ rpc # "gate" => frameSize # 0 /\ rsize = psize
  /\ rpc \in {"shape", "ready", "copy"} => rcount = pcount
  /\ rpc \in {"ready", "copy"} => rshape = shape

SlotInv ==
  psize # 0 =>
    /\ \A f \in 0 .. MaxFrames, i \in 0 .. psize - 1 :
         f < frameSeq /\ frameSeq < f + pcount =>
           cells[Cell(f, pcount, psize, i)] = Content(f + 1, i)
    /\ ppc = "write" =>
         \A i \in 0 .. wrote - 1 :
           cells[Cell(pseq, pcount, psize, i)] = Content(stamp, i)

CopyInv ==
  rpc = "copy" =>
    /\ s0 \in 1 .. frameSeq /\ taken < s0
    /\ frameSeq - s0 <= rcount - 2 => \A i \in 0 .. got - 1 : out[i] = Content(s0, i)

TakenInv == taken < frameSeq \/ taken = -1

Inv == TypeOK /\ PublishInv /\ CacheInv /\ SlotInv /\ CopyInv /\ TakenInv

(* At the level of whole frames the ring is the source of VideoSource.       *)
Source == INSTANCE VideoSource WITH
  slots <- IF frameSize = 0 THEN 0 ELSE pcount,
  count <- frameSeq
ImplementsSource == Source!Spec

=============================================================================
