----------------------------- MODULE AudioStream -----------------------------
(***************************************************************************)
(* What the shared audio ring promises, with no ring: the producer's pushes *)
(* and the consumer's reads happen in one step each, on an unbounded stream *)
(* of bytes named by their positions.  Module AudioRing implements this     *)
(* specification with the seqlock, the wrapping payload and the byte-wise   *)
(* copies of packages/shared/src/lib.rs.                                    *)
(***************************************************************************)
EXTENDS Integers

CONSTANTS
  Frame,       (* bytes per audio frame (frame_bytes)                        *)
  Windows,     (* lengths in bytes of the buffers a reader asks to be filled *)
  MaxLatency,  (* latency budget in bytes on top of the window               *)
  MaxTail      (* bound on the bytes ever pushed                             *)

VARIABLES
  tail,   (* bytes ever published by the producer                            *)
  head,   (* bytes consumed or skipped by the consumer                       *)
  chunk   (* what the last read handed to its caller                         *)

svars == <<tail, head, chunk>>

(* A byte of a chunk that carries no audio.                                  *)
Silence == -1

(* The chunk a read returns: live bytes of the stream, silence after them.   *)
Chunk(w, from, live) ==
  [i \in 0 .. w - 1 |-> IF i < live THEN from + i ELSE Silence]

Init ==
  /\ tail = 0
  /\ head = 0
  /\ chunk = [i \in 0 .. -1 |-> Silence]

(* The producer appends some whole frames.                                   *)
Push ==
  /\ tail' \in tail + 1 .. MaxTail
  /\ tail' % Frame = 0
  /\ UNCHANGED <<head, chunk>>

(***************************************************************************)
(* The consumer takes up to w bytes of whole frames in stream order.  It    *)
(* skips bytes only when the backlog exceeds w + MaxLatency, leaves at most *)
(* MaxLatency behind, and comes back short only when the stream is drained. *)
(***************************************************************************)
Read(w) ==
  \E from \in head .. tail, live \in 0 .. w :
    /\ from % Frame = 0
    /\ from # head => tail - head > w + MaxLatency
    /\ live \in {w, tail - from}
    /\ tail - (from + live) <= MaxLatency
    /\ head' = from + live
    /\ chunk' = Chunk(w, from, live)
    /\ UNCHANGED tail

Next == Push \/ \E w \in Windows : Read(w)

Spec == Init /\ [][Next]_svars

=============================================================================
