------------------------------ MODULE VmProgram ------------------------------
(***************************************************************************)
(* The VM program (lalah-vm main.rs run): it maps the region (Ivshmem),      *)
(* attaches to what the host has put there (Session), and captures either    *)
(* through WASAPI (WasapiCapture), with the keep-alive around it             *)
(* (KeepAlive), or through DirectShow (DsCapture), sound and video in one    *)
(* graph.  A card may capture sound only while its video graph runs, which   *)
(* is what the keep-alive is for; a plain endpoint captures without it, so   *)
(* that the device delivers, or does not, in any state of the graph.         *)
(***************************************************************************)
EXTENDS Formats, Sequences

CONSTANTS
  RunFails, MaxHalts,                                        (* of KeepAlive *)
  Accepts, Buffers, MaxPackets,                          (* of WasapiCapture *)
  AudioTypes, VideoTypes, VideoBytes, MaxFaults, MaxBuffers  (* of DsCapture *)

ASSUME ChoicesAndBounds ==
  /\ RunFails \subseteq BOOLEAN /\ MaxHalts \in Nat
  /\ Accepts \subseteq SUBSET (1 .. 10) /\ Buffers \in Nat \ {0} /\ MaxPackets \in Nat
  /\ VideoBytes \in Nat /\ MaxFaults \in Nat /\ MaxBuffers \in Nat

ASSUME ConnectionsAreMedia == AudioTypes \subseteq AudioMedia /\ VideoTypes \subseteq VideoMedia

VARIABLES
  pc, dsaudio,                                       (* run, and --ds-audio  *)
  rpc, devices, handle,                              (* of Ivshmem           *)
  mpc, stop, channel, wpc, streaming, events, halts, (* of KeepAlive         *)
  accepted, aligned, alive, running, event, queue,   (* of WasapiCapture     *)
  captured, arrived, cpc, cand, result, pushed,
  passthrough, keepalive, faults, dpc, source,       (* of DsCapture         *)
  routed, picture, atype, vtype, acb, vcb, graph,
  geometry, sounds, frames,
  format                                             (* of both captures     *)

Region  == INSTANCE Ivshmem
Keep    == INSTANCE KeepAlive
Wasapi  == INSTANCE WasapiCapture
Ds      == INSTANCE DsCapture

region == <<rpc, devices, handle>>
keep   == <<mpc, stop, channel, wpc, streaming, events, halts>>
wasapi == <<accepted, aligned, alive, running, event, queue,
            captured, arrived, cpc, cand, result, pushed>>
ds     == <<passthrough, keepalive, faults, dpc, source, routed, picture, atype, vtype,
            acb, vcb, graph, geometry, sounds, frames>>
vars   == <<pc, dsaudio, region, keep, wasapi, ds, format>>

(* --video-passthrough implies --ds-audio; what only the other path looks at *)
(* is left at one value.                                                     *)
Init ==
  /\ pc = "map" /\ dsaudio \in BOOLEAN
  /\ Region!Init /\ Keep!Init /\ Wasapi!Init /\ Ds!Init
  /\ IF dsaudio THEN accepted = {} /\ aligned ELSE ~ passthrough /\ faults = {}

-----------------------------------------------------------------------------
MapRegion ==
  /\ pc = "map"
  /\ Region!Map
  /\ pc' = CASE rpc' = "mapped" -> "attach" [] rpc' = "failed" -> "exit" [] OTHER -> "map"
  /\ UNCHANGED <<dsaudio, keep, wasapi, ds, format>>

(* The loop around attach: its host is up (Session says when it is not).     *)
Attach ==
  /\ pc = "attach"
  /\ pc' = (IF dsaudio THEN "video" ELSE "wasapi")
  /\ UNCHANGED <<dsaudio, region, keep, wasapi, ds, format>>

(* The loop around the video's attach; a region with no room past the audio's*)
(* turns the passthrough off.                                                *)
AttachVideo ==
  /\ pc = "video"
  /\ pc' = "dshow"
  /\ \/ UNCHANGED passthrough
     \/ passthrough /\ passthrough' = FALSE
  /\ UNCHANGED <<dsaudio, region, keep, wasapi, format, keepalive, faults, dpc, source, routed,
                 picture, atype, vtype, acb, vcb, graph, geometry, sounds, frames>>

(* Without --video-keepalive the capture begins at once.                     *)
NoKeepAlive ==
  /\ mpc = "start" /\ ~ keepalive
  /\ mpc' = "capturealone"
  /\ UNCHANGED <<stop, channel, wpc, streaming, events, halts>>

(* The keep-alive is started, the capture runs to its end, and then the      *)
(* keep-alive is shut down.                                                  *)
RunWasapi ==
  /\ pc = "wasapi"
  /\ \/ (mpc = "start" => keepalive) /\ Keep!Main /\ UNCHANGED <<wasapi, format>>
     \/ NoKeepAlive /\ UNCHANGED <<wasapi, format>>
     \/ mpc \in {"capture", "capturealone"} /\ Wasapi!Client /\ UNCHANGED keep
     \/ cpc \in {"stopped", "failed"} /\ Keep!CaptureEnds /\ UNCHANGED <<wasapi, format>>
  /\ UNCHANGED <<pc, dsaudio, region, ds>>

RunDs == pc = "dshow" /\ Ds!Client /\ UNCHANGED <<pc, dsaudio, region, keep, wasapi>>

(* The capture has returned, and the region is dropped last.                 *)
Return ==
  /\ (pc = "wasapi" /\ mpc = "exit") \/ (pc = "dshow" /\ dpc = "failed")
  /\ pc' = "exit"
  /\ Region!Drop
  /\ UNCHANGED <<dsaudio, keep, wasapi, ds, format>>

Main == MapRegion \/ Attach \/ AttachVideo \/ RunWasapi \/ RunDs \/ Return

Worker == Keep!Worker /\ UNCHANGED <<pc, dsaudio, region, wasapi, ds, format>>

(* The card: its graphs, its sound, and its end.                             *)
Card ==
  /\ \/ Keep!Graph /\ UNCHANGED <<wasapi, ds, format>>
     \/ (\E silent \in BOOLEAN : Wasapi!Capture(silent)) /\ UNCHANGED <<keep, ds>>
     \/ pc = "wasapi" /\ Wasapi!Unplug /\ UNCHANGED <<keep, ds>>
     \/ Ds!Graph /\ UNCHANGED <<keep, wasapi>>
  /\ UNCHANGED <<pc, dsaudio, region>>

Next == Main \/ Worker \/ Card

(* Both threads run; nothing makes the card deliver.                         *)
Spec == Init /\ [][Next]_vars /\ WF_vars(Main) /\ WF_vars(Worker)

-----------------------------------------------------------------------------
TypeOK ==
  /\ pc \in {"map", "attach", "video", "wasapi", "dshow", "exit"} /\ dsaudio \in BOOLEAN
  /\ Region!TypeOK /\ Keep!TypeOK /\ Wasapi!TypeOK /\ Ds!TypeOK

(* Through WASAPI the sound is pushed once and in order, and none waits for  *)
(* another packet.                                                           *)
Continuous   == Wasapi!Continuous
NoneStranded == Wasapi!NoneStranded

(***************************************************************************)
(* Nothing is pushed, through WASAPI or DirectShow, that the headers do not  *)
(* describe as what the device was asked for or is connected with: the       *)
(* publication comes before Start and Run, and the parsers invert make_wfx.  *)
(***************************************************************************)
Described == Wasapi!FormatFirst /\ (dsaudio => Ds!Described)

(* With the card's video in the graph, sound and video run together.         *)
CardAwake == Ds!CardAwake

(***************************************************************************)
(* When run returns, by a stall or by any failure on the way, the worker has *)
(* ended, its graph is stopped and so is the capture (video.rs Drop, wasapi  *)
(* "so teardown always runs"), the device list is destroyed and the region   *)
(* unmapped; and nothing pushes but into a region that is mapped             *)
(* (ivshmem.rs "kept alive for the region's lifetime").                      *)
(***************************************************************************)
Pushing == cpc = "push" \/ (graph = "running" /\ (acb \/ vcb))

LeavesNothing ==
  /\ Keep!LeavesNoGraph /\ Wasapi!StopsDevice
  /\ Region!LeavesNoList /\ Region!HoldsHandle
  /\ pc = "exit" => rpc \in {"failed", "dropped"} /\ ~ running
  /\ Pushing => handle

(***************************************************************************)
(* "a dead/stalled device [is] a clean stop instead of hanging forever"      *)
(* (wasapi.rs): the program ends when the card delivers no more, whatever    *)
(* state the worker and its graph are in - also when the graph halted and    *)
(* its Run failed, a failure that keep_alive_loop does not try again.        *)
(***************************************************************************)
StallEnds == ~ dsaudio => <>(pc = "exit")

(* "Continuing audio-only": trouble that the code calls tolerable leaves the *)
(* DirectShow sound running.                                                 *)
SoundStarts == dsaudio /\ <>(pc = "dshow") => Ds!SoundStarts

=============================================================================
