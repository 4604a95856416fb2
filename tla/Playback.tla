------------------------------- MODULE Playback -------------------------------
(***************************************************************************)
(* The host's playback (lalah-host/playback.rs) on the ring of AudioRing:    *)
(* PipeWire's process callback, which compares the backlog with its budget,  *)
(* reads a window and counts slips, and the thread that prints the counts    *)
(* once a second.  The producer may be killed inside a push.                 *)
(***************************************************************************)
EXTENDS AudioRing

CONSTANTS
  Slices,     (* lengths in bytes of the buffers PipeWire hands over          *)
  MaxEvents   (* bound: slips counted                                        *)

ASSUME SlicesGiveWindows ==
  /\ Slices \subseteq Nat /\ \A len \in Slices : AlignDown(len) \in Windows
  /\ MaxEvents \in Nat

VARIABLES
  bpc, asked,              (* callback: control state, its window            *)
  counted,                 (* did this callback count an overflow?           *)
  overflows, underflows,   (* the counters                                   *)
  spc, current,            (* statistics: control state, underflows loaded   *)
  lastOver, lastUnder      (* what it printed last, in sum                   *)

callback == <<bpc, asked, counted, overflows, underflows>>
stats    == <<spc, current, lastOver, lastUnder>>
ring     == <<tail, seq, head, payload, ppc, n, wrote, lost, crashes,
              cpc, window, s0, t0, t2, from, want, got, out, chunk>>
allvars  == <<ring, callback, stats>>

PlaybackInit ==
  /\ Init
  /\ bpc = "idle" /\ asked = 0 /\ counted = FALSE
  /\ overflows = 0 /\ underflows = 0
  /\ spc = "load" /\ current = 0 /\ lastOver = 0 /\ lastUnder = 0

-----------------------------------------------------------------------------
(* THE CALLBACK                                                              *)

(* A buffer is dequeued and mapped; its window is whole frames.              *)
Process(len) ==
  /\ bpc = "idle"
  /\ overflows + underflows < MaxEvents
  /\ asked' = AlignDown(len)
  /\ bpc' = "pointers"
  /\ UNCHANGED <<ring, counted, overflows, underflows, stats>>

Backlog == IF tail > head THEN tail - head ELSE 0

(* Mutant: the backlog is compared with the latency alone.                   *)
PointersNoWindow ==
  /\ bpc = "pointers"
  /\ counted' = (Backlog > MaxLatency)
  /\ overflows' = (IF counted' THEN overflows + 1 ELSE overflows)
  /\ ReadBegin(asked)
  /\ bpc' = "read"
  /\ UNCHANGED <<asked, underflows, stats>>

(* pointers, the comparison with the budget, and the call of read_quantum.   *)
Pointers ==
  /\ bpc = "pointers"
  /\ counted' = (Backlog > asked + MaxLatency)
  /\ overflows' = (IF counted' THEN overflows + 1 ELSE overflows)
  /\ ReadBegin(asked)
  /\ bpc' = "read"
  /\ UNCHANGED <<asked, underflows, stats>>

ReadOn == ReadSeq \/ ReadTail \/ ReadByte \/ ReadTail2 \/ ReadRetry

Reading == bpc = "read" /\ ReadOn /\ UNCHANGED <<callback, stats>>

(* Mutant: a window that is just filled counts as an underflow.              *)
ReturnOffByOne ==
  /\ bpc = "read"
  /\ ReadDone
  /\ underflows' = (IF want <= window THEN underflows + 1 ELSE underflows)
  /\ bpc' = "idle" /\ asked' = 0 /\ counted' = FALSE
  /\ UNCHANGED <<overflows, stats>>

(* read_quantum returns; a window it could not fill is an underflow.         *)
Return ==
  /\ bpc = "read"
  /\ ReadDone
  /\ underflows' = (IF want < window THEN underflows + 1 ELSE underflows)
  /\ bpc' = "idle" /\ asked' = 0 /\ counted' = FALSE
  /\ UNCHANGED <<overflows, stats>>

-----------------------------------------------------------------------------
(* THE STATISTICS THREAD                                                     *)

(* After a second it loads the one counter ...                               *)
LoadUnderflows ==
  /\ spc = "load"
  /\ current' = underflows
  /\ spc' = "report"
  /\ UNCHANGED <<ring, callback, lastOver, lastUnder>>

(* Mutant: it prints when both counts have changed.                          *)
ReportBoth ==
  /\ spc = "report"
  /\ IF current # lastUnder /\ overflows # lastOver
       THEN lastUnder' = current /\ lastOver' = overflows
       ELSE UNCHANGED <<lastUnder, lastOver>>
  /\ spc' = "load" /\ current' = 0
  /\ UNCHANGED <<ring, callback>>

(* Mutant: the counts are swapped.                                          *)
ReportSwapped ==
  /\ spc = "report"
  /\ IF current # lastUnder \/ overflows # lastOver
       THEN lastUnder' = overflows /\ lastOver' = current
       ELSE UNCHANGED <<lastUnder, lastOver>>
  /\ spc' = "load" /\ current' = 0
  /\ UNCHANGED <<ring, callback>>

(* ... and the other, and prints what either has grown by.                   *)
Report ==
  /\ spc = "report"
  /\ IF current # lastUnder \/ overflows # lastOver
       THEN lastUnder' = current /\ lastOver' = overflows
       ELSE UNCHANGED <<lastUnder, lastOver>>
  /\ spc' = "load" /\ current' = 0
  /\ UNCHANGED <<ring, callback>>

-----------------------------------------------------------------------------
Producer ==
  /\ (\E len \in PushSizes : PushBegin(len)) \/ PushStep \/ Crash
  /\ UNCHANGED <<callback, stats>>

Callback == Pointers \/ Reading \/ Return
Stats    == LoadUnderflows \/ Report

PlaybackNext == Producer \/ (\E len \in Slices : Process(len)) \/ Callback \/ Stats

(* The statistics thread only sleeps and loads, so it goes on.               *)
PlaybackSpec == PlaybackInit /\ [][PlaybackNext]_allvars /\ WF_allvars(Stats)

-----------------------------------------------------------------------------
PlaybackTypeOK ==
  /\ TypeOK
  /\ bpc \in {"idle", "pointers", "read"} /\ asked \in Windows \cup {0}
  /\ counted \in BOOLEAN /\ overflows \in Nat /\ underflows \in Nat
  /\ spc \in {"load", "report"} /\ current \in Nat
  /\ lastOver \in 0 .. overflows /\ lastUnder \in 0 .. underflows

(***************************************************************************)
(* "Overflows (Consumer/Host slow)": the callback counts an overflow from    *)
(* pointers it loads before the read, which loads them again, maybe several  *)
(* times.  Whatever is pushed in between, a counted overflow is a read that  *)
(* drops audio.                                                              *)
(***************************************************************************)
OverflowsAreSlips == [][Return /\ counted => from > head]_allvars

(***************************************************************************)
(* "Underflows (Producer/VM slow)": a read counted as one has taken all that *)
(* was published when it looked, and the same callback has not found the     *)
(* host slow.                                                                *)
(***************************************************************************)
UnderflowsAreDrains ==
  [][underflows' > underflows => head' = t0 /\ ~ counted]_allvars

(***************************************************************************)
(* "prints a once-per-second line whenever it slips" (README), one half: no  *)
(* count stays unprinted.                                                    *)
(***************************************************************************)
CountsPrinted ==
  \A k \in 1 .. MaxEvents :
    /\ underflows = k ~> lastUnder >= k
    /\ overflows = k ~> lastOver >= k

(***************************************************************************)
(* The other half: a read that drops audio has been counted, so that the     *)
(* line tells of every slip.                                                 *)
(***************************************************************************)
SlipsCounted == [][Return /\ from > head => counted]_allvars

=============================================================================
