----------------------------- MODULE VideoSource -----------------------------
(***************************************************************************)
(* What the shared video ring promises the forwarding thread of the host:    *)
(* frames are numbered from 0 and appear one at a time; a read hands over    *)
(* one whole frame that is at most slots - 1 frames old, or nothing.  Module *)
(* VideoRing implements this with slots, words and a frame counter.          *)
(***************************************************************************)
EXTENDS Integers

CONSTANTS
  MinSlots,   (* VIDEO_MIN_SLOTS                                             *)
  MaxFrames   (* bound on the frames ever published                          *)

VARIABLES
  slots,   (* slots of the ring, 0 until the geometry is published           *)
  count,   (* frames published (frame_seq)                                   *)
  taken    (* number of the frame the last successful read handed over, or -1 *)

svars == <<slots, count, taken>>

Init == slots = 0 /\ count = 0 /\ taken = -1

(* The producer publishes the geometry.                                      *)
Open ==
  /\ slots = 0
  /\ slots' \in Nat /\ slots' >= MinSlots
  /\ UNCHANGED <<count, taken>>

(* The producer publishes a frame.                                           *)
Publish ==
  /\ slots > 0
  /\ count < MaxFrames
  /\ count' = count + 1
  /\ UNCHANGED <<slots, taken>>

(* A read succeeds: the frame is none older than the one before and has not  *)
(* been out of the ring for any part of the copy.                            *)
Take ==
  /\ taken' \in 0 .. count - 1
  /\ taken' >= taken
  /\ count - taken' <= slots - 1
  /\ UNCHANGED <<slots, count>>

Next == Open \/ Publish \/ Take

Spec == Init /\ [][Next]_svars

=============================================================================
