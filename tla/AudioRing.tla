------------------------------ MODULE AudioRing ------------------------------
(***************************************************************************)
(* The lock-free audio ring of packages/shared/src/lib.rs, as the VM's       *)
(* capture thread (push_overwrite) and the host's PipeWire callback          *)
(* (read_quantum) execute it on one shared mapping: every store the other    *)
(* side can see and every load of such a store is a step of its own.         *)
(*                                                                         *)
(* Both sides are x86_64: stores of one side become visible in program       *)
(* order and loads are not reordered, so interleaving the steps is exact     *)
(* (the producer loads nothing the consumer stores and vice versa, which     *)
(* leaves store buffering without effect).                                   *)
(*                                                                         *)
(* A byte is named by its position in the stream, so payload[i] says which   *)
(* byte of the stream cell i holds.                                          *)
(***************************************************************************)
EXTENDS Integers

CONSTANTS
  Cap,         (* ring size in bytes (ShmHeader.capacity)                    *)
  Frame,       (* bytes per audio frame (ShmHeader.frame_bytes)              *)
  PushSizes,   (* lengths of the slices given to push_overwrite              *)
  Windows,     (* lengths of the buffers given to read_quantum               *)
  MaxLatency,  (* max_latency_bytes of the host, added to each window        *)
  MaxTail,     (* bound: bytes ever pushed                                   *)
  MaxCrashes   (* bound: times the VM process is killed inside a push        *)

(* init asserts that the capacity is a power of two, which makes the mask of *)
(* `mask` a remainder.                                                       *)
ASSUME CapIsPowerOfTwo == Cap \in Nat \ {0} /\ \E k \in 0 .. Cap : Cap = 2 ^ k

ASSUME FrameIsPositive == Frame \in Nat \ {0}

(* Both capture paths push whole frames: frames * nBlockAlign bytes in       *)
(* wasapi.rs, whole sample buffers in dshow.rs.                              *)
ASSUME PushesAreFrames == PushSizes \subseteq Nat /\ \A n \in PushSizes : n % Frame = 0

(* The process callback cuts its window to whole frames.  A window larger    *)
(* than the ring is outside the model (see README.md).                       *)
ASSUME WindowsAreFrames ==
  Windows \subseteq 0 .. Cap /\ \A w \in Windows : w % Frame = 0

ASSUME BoundsAreNaturals ==
  MaxLatency \in Nat /\ MaxTail \in Nat /\ MaxCrashes \in Nat

VARIABLES
  tail, seq, head,   (* the shared header: lines 1 and 2 of ShmHeader        *)
  payload,           (* the shared payload                                   *)
  ppc, n, wrote,     (* push_overwrite: control state, src.len(), bytes done *)
  lost,              (* bytes the captures delivered and a push cut off      *)
  crashes,           (* times the VM process died inside a push              *)
  cpc, window,       (* read_quantum: control state, out.len()               *)
  s0, t0, t2,        (* its snapshots of seq and tail                        *)
  from, want, got,   (* its local head, the bytes wanted, the bytes copied   *)
  out,               (* the caller's buffer while the read is running        *)
  chunk              (* what the last completed read returned                *)

header == <<tail, seq, head>>
pvars  == <<ppc, n, wrote>>
reads  == <<cpc, window, s0, t0, t2, from, want, got, out>>
vars   == <<tail, seq, head, payload, ppc, n, wrote, lost, crashes,
            cpc, window, s0, t0, t2, from, want, got, out, chunk>>

Silence == -1   (* a zero written by the final fill of read_quantum          *)
Stale   == -2   (* whatever memory held before                               *)

Positions == 0 .. MaxTail

-----------------------------------------------------------------------------
(* Arithmetic of the two operations.                                         *)

Mask(pos) == pos % Cap

MinOf(a, b) == IF a <= b THEN a ELSE b

AlignDown(b) == (b \div Frame) * Frame

KeepNewestButOne(len) == MinOf(len, Cap - 1)
(* A slice longer than the ring is cut to its newest Cap bytes.              *)
KeepNewest(len) == MinOf(len, Cap)

BudgetUnaligned(w) == w + MaxLatency
(* The budget read_quantum applies: the callback passes window + latency.    *)
Budget(w) == AlignDown(w + MaxLatency)

NewestWindow(h, t, w) == t - MinOf(t, Budget(w))
KeepBacklog(h, t, w) == h
(* Where a read starts, given the head and tail it loaded.                   *)
StartAt(h, t, w) ==
  LET cursor == MinOf(h, t) IN
  IF t - cursor > Budget(w) THEN t - Budget(w) ELSE cursor

(* How much a read takes from its start position.                            *)
WantAt(start, t, w) == AlignDown(MinOf(AlignDown(w), t - start))

-----------------------------------------------------------------------------
Init ==
  /\ tail = 0 /\ seq = 0 /\ head = 0
  /\ payload = [i \in 0 .. Cap - 1 |-> Stale]
  /\ ppc = "idle" /\ n = 0 /\ wrote = 0
  /\ lost = 0 /\ crashes = 0
  /\ cpc = "idle" /\ window = 0
  /\ s0 = 0 /\ t0 = 0 /\ t2 = 0
  /\ from = 0 /\ want = 0 /\ got = 0
  /\ out = [i \in 0 .. -1 |-> Stale]
  /\ chunk = [i \in 0 .. -1 |-> Silence]

-----------------------------------------------------------------------------
(* PRODUCER: push_overwrite.                                                 *)

(* Trim the slice, load tail and seq, and make seq odd.                      *)
PushBegin(len) ==
  /\ ppc = "idle"
  /\ KeepNewest(len) # 0
  /\ tail + KeepNewest(len) <= MaxTail
  /\ n' = KeepNewest(len)
  /\ lost' = lost + (len - n')
  /\ wrote' = 0
  /\ seq' = seq + 1
  /\ ppc' = "copy"
  /\ UNCHANGED <<tail, head, payload, crashes, reads, chunk>>

(* One volatile store of the copy into the payload.                          *)
PushByte ==
  /\ ppc = "copy"
  /\ wrote < n
  /\ payload' = [payload EXCEPT ![Mask(tail + wrote)] = tail + wrote]
  /\ wrote' = wrote + 1
  /\ UNCHANGED <<header, ppc, n, lost, crashes, reads, chunk>>

(* Mutant: tail is published as soon as the copy has begun.                  *)
PushTailEarly ==
  /\ ppc = "copy"
  /\ tail' = tail + n
  /\ n' = 0 /\ wrote' = 0
  /\ ppc' = "close"
  /\ UNCHANGED <<seq, head, payload, lost, crashes, reads, chunk>>

(* Publish tail.                                                             *)
PushTail ==
  /\ ppc = "copy"
  /\ wrote = n
  /\ tail' = tail + n
  /\ n' = 0 /\ wrote' = 0
  /\ ppc' = "close"
  /\ UNCHANGED <<seq, head, payload, lost, crashes, reads, chunk>>

(* Mutant: the seqlock is never closed.                                      *)
PushCloseMissing ==
  /\ ppc = "close"
  /\ ppc' = "idle"
  /\ UNCHANGED <<header, payload, n, wrote, lost, crashes, reads, chunk>>

(* Close the seqlock: seq is even again.                                     *)
PushClose ==
  /\ ppc = "close"
  /\ seq' = seq + 1
  /\ ppc' = "idle"
  /\ UNCHANGED <<tail, head, payload, n, wrote, lost, crashes, reads, chunk>>

(***************************************************************************)
(* The VM process is killed inside a push (Ctrl-C is how the DirectShow      *)
(* path ends) and started again: it attaches to the header as it was left,   *)
(* and its capture starts at a frame boundary.  Dying between two pushes     *)
(* changes nothing the ring can see.                                         *)
(***************************************************************************)
Crash ==
  /\ crashes < MaxCrashes
  /\ ppc # "idle"
  /\ ppc' = "idle" /\ n' = 0 /\ wrote' = 0
  /\ crashes' = crashes + 1
  /\ UNCHANGED <<header, payload, lost, reads, chunk>>

-----------------------------------------------------------------------------
(* CONSUMER: read_quantum.                                                   *)

(* The callback hands over a buffer that still holds old samples.            *)
ReadBegin(w) ==
  /\ cpc = "idle"
  /\ window' = w
  /\ out' = [i \in 0 .. w - 1 |-> Stale]
  /\ cpc' = "seq"
  /\ UNCHANGED <<header, payload, pvars, lost, crashes,
                 s0, t0, t2, from, want, got, chunk>>

(* Mutant: a read starts although a push is running.                         *)
ReadSeqAnyParity ==
  /\ cpc = "seq"
  /\ s0' = seq
  /\ cpc' = "tail"
  /\ UNCHANGED <<header, payload, pvars, lost, crashes,
                 window, t0, t2, from, want, got, out, chunk>>

(* Load seq; while it is odd the loop spins and this step is disabled.       *)
ReadSeq ==
  /\ cpc = "seq"
  /\ seq % 2 = 0
  /\ s0' = seq
  /\ cpc' = "tail"
  /\ UNCHANGED <<header, payload, pvars, lost, crashes,
                 window, t0, t2, from, want, got, out, chunk>>

(* Load tail and the reader's own head; choose the bytes to copy.            *)
ReadTail ==
  /\ cpc = "tail"
  /\ t0' = tail
  /\ from' = StartAt(head, tail, window)
  /\ want' = WantAt(from', tail, window)
  /\ got' = 0
  /\ cpc' = "copy"
  /\ UNCHANGED <<header, payload, pvars, lost, crashes,
                 window, s0, t2, out, chunk>>

(* One volatile load of the copy out of the payload.                         *)
ReadByte ==
  /\ cpc = "copy"
  /\ got < want
  /\ out' = [out EXCEPT ![got] = payload[Mask(from + got)]]
  /\ got' = got + 1
  /\ UNCHANGED <<header, payload, pvars, lost, crashes,
                 cpc, window, s0, t0, t2, from, want, chunk>>

(* Load tail again.                                                          *)
ReadTail2 ==
  /\ cpc = "copy"
  /\ got = want
  /\ t2' = tail
  /\ cpc' = "recheck"
  /\ UNCHANGED <<header, payload, pvars, lost, crashes,
                 window, s0, t0, from, want, got, out, chunk>>

TornNoSeq == t2 - from > Cap
(* The recheck, on the seq loaded last: was the copy overtaken?              *)
Torn == seq # s0 \/ t2 - from > Cap

Forget == s0' = 0 /\ t0' = 0 /\ t2' = 0 /\ from' = 0 /\ want' = 0 /\ got' = 0

(* Overtaken: start over (the copied bytes stay in the caller's buffer).     *)
ReadRetry ==
  /\ cpc = "recheck"
  /\ Torn
  /\ cpc' = "seq"
  /\ Forget
  /\ UNCHANGED <<header, payload, pvars, lost, crashes, window, out, chunk>>

(* The buffer at return: silence past the live bytes.                        *)
Filled == [i \in DOMAIN out |-> IF i < want THEN out[i] ELSE Silence]

(* Not overtaken: publish head, silence the rest, return.                    *)
ReadDone ==
  /\ cpc = "recheck"
  /\ ~ Torn
  /\ head' = from + want
  /\ chunk' = Filled
  /\ cpc' = "idle"
  /\ window' = 0
  /\ out' = [i \in 0 .. -1 |-> Stale]
  /\ Forget
  /\ UNCHANGED <<tail, seq, payload, pvars, lost, crashes>>

-----------------------------------------------------------------------------
PushStep == PushByte \/ PushTail \/ PushClose
ReadStep == ReadSeq \/ ReadTail \/ ReadByte \/ ReadTail2 \/ ReadRetry \/ ReadDone

Next ==
  \/ \E len \in PushSizes : PushBegin(len)
  \/ PushStep
  \/ \E w \in Windows : ReadBegin(w)
  \/ ReadStep

Spec == Init /\ [][Next]_vars

(***************************************************************************)
(* A push once begun goes on: the capture thread runs no other code until    *)
(* it returns.  A read once begun goes on: PipeWire's thread waits for it.   *)
(* Nothing makes the device deliver or PipeWire ask.                         *)
(***************************************************************************)
FairSpec == Spec /\ WF_vars(PushStep) /\ WF_vars(ReadStep)

(* The same program when the VM process may be killed inside a push.         *)
CrashNext == Next \/ Crash
CrashSpec == Init /\ [][CrashNext]_vars
FairCrashSpec == CrashSpec /\ WF_vars(PushStep) /\ WF_vars(ReadStep)

-----------------------------------------------------------------------------
TypeOK ==
  /\ tail \in Positions /\ head \in Positions /\ seq \in Nat
  /\ payload \in [0 .. Cap - 1 -> Positions \cup {Stale}]
  /\ ppc \in {"idle", "copy", "close"}
  /\ n \in 0 .. Cap /\ wrote \in 0 .. n
  /\ lost \in Nat /\ crashes \in 0 .. MaxCrashes
  /\ cpc \in {"idle", "seq", "tail", "copy", "recheck"}
  /\ window \in (IF cpc = "idle" THEN {0} ELSE Windows)
  /\ s0 \in Nat /\ t0 \in Positions /\ t2 \in Positions
  /\ from \in Positions /\ want \in 0 .. window /\ got \in 0 .. want
  /\ out \in [0 .. window - 1 -> Positions \cup {Stale}]

(***************************************************************************)
(* The argument behind the seqlock, as an inductive invariant.  seq is odd   *)
(* exactly while a push runs; the newest Cap bytes stored are each in their  *)
(* cell; and a reader whose s0 is still the current seq has seen one tail,   *)
(* and has copied, of the bytes the ring still holds, exactly those.         *)
(***************************************************************************)
PushInv ==
  /\ seq % 2 = 0 <=> ppc = "idle"
  /\ ppc # "copy" => n = 0
  /\ tail + n <= MaxTail

RingInv ==
  \A p \in Positions :
    tail + wrote - Cap <= p /\ p < tail + wrote => payload[Mask(p)] = p

SnapshotInv ==
  cpc \in {"tail", "copy", "recheck"} => s0 <= seq /\ s0 % 2 = 0

ReadInv ==
  cpc \in {"copy", "recheck"} =>
    /\ head <= from /\ from + want <= t0 /\ t0 <= tail
    /\ want % Frame = 0
    /\ t0 - from <= Budget(window)
    /\ from # head => t0 - head > Budget(window)
    /\ \/ want = window
       \/ want = AlignDown(t0 - from)
    /\ s0 = seq => t0 = tail

CopyInv ==
  cpc \in {"copy", "recheck"} /\ s0 = seq =>
    \A i \in 0 .. got - 1 : from + i >= tail - Cap => out[i] = from + i

RecheckInv == cpc = "recheck" => got = want /\ (s0 = seq => t2 = tail)

Inv ==
  /\ TypeOK /\ head <= tail
  /\ PushInv /\ RingInv /\ SnapshotInv /\ ReadInv /\ CopyInv /\ RecheckInv

(***************************************************************************)
(* A completed read filled the first live bytes of the caller's buffer with  *)
(* the live bytes of the stream that end just before head, whole frames, and *)
(* the rest with silence: no torn read, no byte of an older lap, nothing     *)
(* left over in the buffer or from an attempt that was retried               *)
(* (push_overwrite against read_quantum).                                    *)
(***************************************************************************)
NoTornRead ==
  \E live \in 0 .. head :
    /\ 0 .. live - 1 \subseteq DOMAIN chunk
    /\ live % Frame = 0
    /\ \A i \in DOMAIN chunk :
         chunk[i] = IF i < live THEN head - live + i ELSE Silence

(***************************************************************************)
(* "All offsets are frame-aligned so a PCM sample is never split" (lib.rs    *)
(* 23): the counters stay at frame boundaries, and what pushes cut off is    *)
(* whole frames, so a position's place in its frame is its remainder.        *)
(***************************************************************************)
FrameAligned == tail % Frame = 0 /\ head % Frame = 0 /\ lost % Frame = 0

(***************************************************************************)
(* No byte is played twice: a read that is accepted starts where the last    *)
(* one ended or past it, and head never moves back, whatever pushes, jumps   *)
(* and retries came before.                                                  *)
(***************************************************************************)
NeverReplays == [][head' >= head /\ (ReadDone => from >= head)]_vars

(***************************************************************************)
(* A read leaves at most MaxLatency bytes behind the tail it saw: the        *)
(* latency is bounded at the cost of the oldest audio (lib.rs 313-315).      *)
(***************************************************************************)
BoundedLatency == [][ReadDone => t0 - head' <= MaxLatency]_vars

(* The ring behaves as the atomic stream of AudioStream.                     *)
Stream == INSTANCE AudioStream
ImplementsStream == Stream!Spec

(***************************************************************************)
(* When pushes pause for good, a read that has begun returns: the retry loop *)
(* of read_quantum has no other reason to go round for ever.                 *)
(***************************************************************************)
ReadReturns == <>[](ppc = "idle") => ((cpc # "idle") ~> (cpc = "idle"))

(***************************************************************************)
(* "read_quantum, which is wait-free" (playback.rs 30): a read returns       *)
(* whatever the producer does.                                               *)
(***************************************************************************)
WaitFree == (cpc # "idle") ~> (cpc = "idle")

=============================================================================
