----------------------------- MODULE VideoForward -----------------------------
(***************************************************************************)
(* The host's video thread (lalah-host/video.rs run_video): it takes the     *)
(* newest frame of the ring and writes it to a named pipe for a player, or   *)
(* drops it.  The ring is VideoSource, which VideoRing implements; between   *)
(* the two loads of a read_frame, between the free-space check and the write *)
(* and between a failed write and the close, the VM and the player go on.    *)
(*                                                                         *)
(* The pipe is the kernel's, as the system calls of video.rs see it: a queue *)
(* of pages, of which the first may be partly read.  A write joins the last  *)
(* page only with the odd end of its length, and stops when the pages run    *)
(* out.  Byte i of frame f is <<f, i>>.                                      *)
(***************************************************************************)
EXTENDS Integers, Sequences

CONSTANTS
  MinSlots, MaxFrames,   (* of VideoSource                                   *)
  SlotCounts,  (* slots the ring may come to have                            *)
  Size,        (* bytes in a frame                                           *)
  PageSize,    (* bytes in a page of the pipe                                *)
  Pages,       (* pages of the pipe, as set_pipe_size left it                *)
  MaxPlayers   (* bound: times a player opens the pipe                       *)

ASSUME SizesArePositive == Size \in Nat \ {0} /\ PageSize \in Nat \ {0} /\ Pages \in Nat

ASSUME BoundsAreNaturals == MaxFrames \in Nat /\ MaxPlayers \in Nat

VARIABLES
  slots, count, taken,   (* of VideoSource                                   *)
  hpc, fd,               (* control state; is the pipe open for writing?     *)
  seen, lastCount, s0,   (* its count, last_count, and read_frame's first load*)
  pipe, drained,         (* pages of the pipe, bytes read off the first      *)
  playing, players,      (* is there a player; how many there were           *)
  part, shown            (* the player's next frame so far; its last frame   *)

ring   == <<slots, count, taken>>
thread == <<hpc, fd, seen, lastCount, s0>>
player == <<playing, players, part, shown>>
vars   == <<slots, count, taken, hpc, fd, seen, lastCount, s0,
            pipe, drained, playing, players, part, shown>>

Source == INSTANCE VideoSource

Init ==
  /\ Source!Init
  /\ hpc = "geometry" /\ fd = FALSE /\ seen = 0 /\ lastCount = 0 /\ s0 = 0
  /\ pipe = <<>> /\ drained = 0
  /\ playing = FALSE /\ players = 0 /\ part = <<>> /\ shown = <<>>

-----------------------------------------------------------------------------
(* The pipe.                                                                 *)

FrameOf(f) == [i \in 1 .. Size |-> <<f, i>>]

Queued ==
  LET Sum[k \in 0 .. Len(pipe)] == IF k = 0 THEN 0 ELSE Sum[k - 1] + Len(pipe[k])
  IN  Sum[Len(pipe)] - drained

Free == Pages * PageSize - Queued

(* How much of a frame the last page takes: the part that fills no page.     *)
Joined ==
  LET odd == Size % PageSize IN
  IF pipe # <<>> /\ Len(pipe[Len(pipe)]) + odd <= PageSize THEN odd ELSE 0

MinOf(a, b) == IF a <= b THEN a ELSE b

(* How much of a frame a write puts into the pipe, and the pipe after it.    *)
Accepted == MinOf(Size, Joined + (Pages - Len(pipe)) * PageSize)

Written(f) ==
  LET rest    == Accepted - Joined
      joined  == IF Joined = 0 THEN pipe
                 ELSE [pipe EXCEPT ![Len(pipe)] = @ \o SubSeq(FrameOf(f), 1, Joined)]
      page(k) == SubSeq(FrameOf(f), Joined + (k - 1) * PageSize + 1,
                        MinOf(Joined + k * PageSize, Accepted))
  IN  joined \o [k \in 1 .. (rest + PageSize - 1) \div PageSize |-> page(k)]

-----------------------------------------------------------------------------
(* THE VM                                                                    *)

Camera ==
  /\ \/ slots' \in SlotCounts /\ Source!Open
     \/ Source!Publish
  /\ UNCHANGED <<thread, pipe, drained, player>>

-----------------------------------------------------------------------------
(* THE VIDEO THREAD                                                          *)

(* refresh_geometry finds the gate open; the fifo is made.                   *)
Geometry ==
  /\ hpc = "geometry"
  /\ slots > 0
  /\ lastCount' = count
  /\ hpc' = "poll"
  /\ UNCHANGED <<ring, fd, seen, s0, pipe, drained, player>>

(* (Re)open the fifo, which a reader has open.                               *)
Open ==
  /\ hpc = "poll" /\ ~ fd
  /\ playing
  /\ fd' = TRUE
  /\ UNCHANGED <<ring, hpc, seen, lastCount, s0, pipe, drained, player>>

(* ENXIO: no reader; do not accumulate stale frames meanwhile.               *)
NoReader ==
  /\ hpc = "poll" /\ ~ fd
  /\ ~ playing
  /\ lastCount' = count
  /\ UNCHANGED <<ring, hpc, fd, seen, s0, pipe, drained, player>>

(* A new frame is there; it is read after the stagger.                       *)
Notice ==
  /\ hpc = "poll" /\ fd
  /\ count # lastCount
  /\ seen' = count
  /\ hpc' = "stagger"
  /\ UNCHANGED <<ring, fd, lastCount, s0, pipe, drained, player>>

(* read_frame loads frame_seq and copies the newest frame ...                *)
Copy ==
  /\ hpc = "stagger"
  /\ s0' = count
  /\ hpc' = "copy"
  /\ UNCHANGED <<ring, fd, seen, lastCount, pipe, drained, player>>

(* Mutant: a copy that may be torn is taken.                                 *)
TakeUnchecked ==
  /\ hpc = "copy"
  /\ taken' = s0 - 1
  /\ s0' = 0
  /\ hpc' = "count"
  /\ UNCHANGED <<slots, count, fd, seen, lastCount, pipe, drained, player>>

(* ... which is whole ...                                                    *)
Take ==
  /\ hpc = "copy"
  /\ count - s0 <= slots - 2
  /\ taken' = s0 - 1
  /\ s0' = 0
  /\ hpc' = "count"
  /\ UNCHANGED <<slots, count, fd, seen, lastCount, pipe, drained, player>>

(* ... or may be torn, and is dropped.                                       *)
Torn ==
  /\ hpc = "copy"
  /\ count - s0 > slots - 2
  /\ lastCount' = seen
  /\ seen' = 0 /\ s0' = 0
  /\ hpc' = "poll"
  /\ UNCHANGED <<ring, fd, pipe, drained, player>>

(* Mutant: only what the first look saw counts as handled.                   *)
CountOfNotice ==
  /\ hpc = "count"
  /\ lastCount' = seen
  /\ seen' = 0
  /\ hpc' = "check"
  /\ UNCHANGED <<ring, fd, s0, pipe, drained, player>>

(* Mutant: the frame does not count as handled.                              *)
NotCounted ==
  /\ hpc = "count"
  /\ seen' = 0
  /\ hpc' = "check"
  /\ UNCHANGED <<ring, fd, lastCount, s0, pipe, drained, player>>

(* Mutant: one frame too many counts as handled.                             *)
CountedAhead ==
  /\ hpc = "count"
  /\ lastCount' = count + 1
  /\ seen' = 0
  /\ hpc' = "check"
  /\ UNCHANGED <<ring, fd, s0, pipe, drained, player>>

(* After a read every frame published up to now counts as handled.           *)
Handled ==
  /\ hpc = "count"
  /\ lastCount' = count
  /\ seen' = 0
  /\ hpc' = "check"
  /\ UNCHANGED <<ring, fd, s0, pipe, drained, player>>

(* Mutant: the pipe's room is not looked at.                                 *)
FitsAnyway == TRUE

(* Mutant: a frame that would fill the pipe is dropped.                      *)
FitsWithRest == Free > Size

(* The frame is dropped only when the free space is less than its length.    *)
Fits == Free >= Size

(* write_frame: is there room for the whole frame?                           *)
Check ==
  /\ hpc = "check"
  /\ hpc' = (IF Fits THEN "write" ELSE "poll")
  /\ UNCHANGED <<ring, fd, seen, lastCount, s0, pipe, drained, player>>

(* The write: whole, cut short or EAGAIN, all alike to the loop.             *)
Write ==
  /\ hpc = "write"
  /\ playing
  /\ pipe' = Written(taken)
  /\ hpc' = "poll"
  /\ UNCHANGED <<ring, fd, seen, lastCount, s0, drained, player>>

(* EPIPE: the reader is gone.                                                *)
Gone ==
  /\ hpc = "write"
  /\ ~ playing
  /\ hpc' = "close"
  /\ UNCHANGED <<ring, fd, seen, lastCount, s0, pipe, drained, player>>

(* What is queued stays while someone has the pipe open.                     *)
Emptied(open) == IF open THEN UNCHANGED <<pipe, drained>> ELSE pipe' = <<>> /\ drained' = 0

Close ==
  /\ hpc = "close"
  /\ fd' = FALSE
  /\ hpc' = "poll"
  /\ Emptied(playing)
  /\ UNCHANGED <<ring, seen, lastCount, s0, player>>

-----------------------------------------------------------------------------
(* THE PLAYER: reads frames of Size bytes back to back.                      *)

PlayerOpen ==
  /\ ~ playing
  /\ players < MaxPlayers
  /\ playing' = TRUE /\ players' = players + 1
  /\ part' = <<>> /\ shown' = <<>>
  /\ UNCHANGED <<ring, thread, pipe, drained>>

PlayerQuit ==
  /\ playing
  /\ playing' = FALSE
  /\ part' = <<>> /\ shown' = <<>>
  /\ Emptied(fd)
  /\ UNCHANGED <<ring, thread, players>>

(* It reads up to k bytes of the first page, no more than its frame lacks.   *)
PlayerRead(k) ==
  /\ playing
  /\ pipe # <<>>
  /\ k <= Len(pipe[1]) - drained
  /\ k <= Size - Len(part)
  /\ IF drained + k = Len(pipe[1])
       THEN pipe' = Tail(pipe) /\ drained' = 0
       ELSE drained' = drained + k /\ UNCHANGED pipe
  /\ LET bytes == part \o SubSeq(pipe[1], drained + 1, drained + k) IN
       IF Len(bytes) = Size
         THEN shown' = bytes /\ part' = <<>>
         ELSE part' = bytes /\ UNCHANGED shown
  /\ UNCHANGED <<ring, thread, playing, players>>

-----------------------------------------------------------------------------
Thread == \/ Geometry \/ Open \/ NoReader \/ Notice \/ Copy \/ Take \/ Torn
          \/ Handled \/ Check \/ Write \/ Gone \/ Close
Reads  == \E k \in 1 .. PageSize : PlayerRead(k)

Next == Camera \/ Thread \/ PlayerOpen \/ PlayerQuit \/ Reads

(* The video thread runs for the whole process; a player that plays reads.   *)
Spec == Init /\ [][Next]_vars /\ WF_vars(Thread) /\ WF_vars(Reads)

-----------------------------------------------------------------------------
Bytes == (0 .. MaxFrames) \X (1 .. Size)

TypeOK ==
  /\ slots \in Nat /\ count \in 0 .. MaxFrames /\ taken \in -1 .. MaxFrames
  /\ hpc \in {"geometry", "poll", "stagger", "copy", "count", "check", "write", "close"}
  /\ fd \in BOOLEAN
  /\ seen \in 0 .. count /\ lastCount \in 0 .. count /\ s0 \in 0 .. count
  /\ pipe \in Seq(Seq(Bytes)) /\ Len(pipe) <= Pages
  /\ drained \in 0 .. PageSize - 1
  /\ playing \in BOOLEAN /\ players \in 0 .. MaxPlayers
  /\ part \in Seq(Bytes) /\ shown \in Seq(Bytes)

(***************************************************************************)
(* "the host drops whole frames (never partial) ... without desyncing"       *)
(* (README): every frame a player puts together is one frame of the camera.  *)
(***************************************************************************)
NeverPartial == shown # <<>> => \E f \in 0 .. MaxFrames : shown = FrameOf(f)

(* The same for a player that was the first to open the pipe: a later one    *)
(* may find the rest of a frame in it.                                       *)
WholeForTheFirst == players = 1 => NeverPartial

(***************************************************************************)
(* Why run_video's looks at the count are enough: what is forwarded lies     *)
(* before last_count, and a look at the count that starts a read, and the    *)
(* look that begins the copy, lie after it.                                  *)
(***************************************************************************)
LooksInOrder ==
  /\ lastCount <= count /\ taken < count
  /\ hpc # "count" => taken < lastCount
  /\ hpc \in {"stagger", "copy"} => lastCount < seen /\ seen <= count
  /\ hpc = "copy" => seen <= s0 /\ s0 <= count

(***************************************************************************)
(* A frame is forwarded at most once, and never after a newer one, though    *)
(* frames are published between the look at the count, the read and the      *)
(* second look that run_video takes.                                         *)
(***************************************************************************)
NeverTwice == [][Take => taken' > taken]_vars

(***************************************************************************)
(* Once the camera stops, the thread comes to rest with every frame counted  *)
(* as handled: a dropped or torn frame is not tried for ever.                *)
(***************************************************************************)
ComesToRest == <>[](slots > 0 => lastCount = count)

(***************************************************************************)
(* "Write the whole frame iff it fits in the pipe's current free space"      *)
(* (write_frame): a frame that comes to the check while the first player     *)
(* plays and the pipe has room for all of it, to the last byte, is in the    *)
(* end shown to that player, whatever the camera, the loop and the reads by  *)
(* pieces do in between, unless the player quits.                            *)
(***************************************************************************)
RoomIsShown ==
  \A f \in 0 .. MaxFrames - 1 :
    (hpc = "check" /\ taken = f /\ playing /\ players = 1 /\ Queued + Size <= Pages * PageSize)
      ~> (shown = FrameOf(f) \/ ~ playing)

(* At the level of the ring, the thread is the reader VideoSource expects.   *)
ReadsSource == Source!Spec

=============================================================================
