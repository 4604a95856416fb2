------------------------------ MODULE DsCapture ------------------------------
(***************************************************************************)
(* The VM's DirectShow capture (lalah-vm/dshow.rs capture_dshow_audio): one  *)
(* graph with an audio grabber, and with the video of the card either        *)
(* grabbed into the shared video ring, or rendered to nothing to keep the    *)
(* card awake.  Callbacks on the graph's threads push what is grabbed.       *)
(*                                                                         *)
(* Which calls fail is chosen in advance, so that properties can say what    *)
(* follows from it.  The graph and its connections are the operating         *)
(* system's, as the calls see them; a ring is the number of buffers pushed.  *)
(***************************************************************************)
EXTENDS Formats, FiniteSets

CONSTANTS
  AudioTypes,   (* media types the audio grabber may be connected with       *)
  VideoTypes,   (* media types the video grabber may be connected with       *)
  VideoBytes,   (* bytes of the video region after its header                *)
  MaxFaults,    (* bound: calls that fail in one run                         *)
  MaxBuffers    (* bound: buffers of each kind that are delivered            *)

VARIABLES
  passthrough, keepalive,  (* is there a video ring? a renderer type?        *)
  faults,                  (* the calls that fail                            *)
  dpc,                     (* capture_dshow_audio: control state             *)
  source, routed,          (* has it a video source? is the sound routed?    *)
  picture,                 (* what the card's video is rendered to           *)
  atype, vtype,            (* the media types connected, as sets             *)
  acb, vcb,                (* are the callbacks set?                         *)
  graph,                   (* the graph: stopped, running, halted            *)
  format, geometry,        (* published in the headers, as sets              *)
  sounds, frames           (* buffers pushed into the rings                  *)

options == <<passthrough, keepalive, faults>>
wiring  == <<source, routed, picture, atype, vtype>>
headers == <<format, geometry>>
rings   == <<sounds, frames>>
dvars   == <<passthrough, keepalive, faults, dpc, source, routed, picture, atype, vtype,
             acb, vcb, graph, format, geometry, sounds, frames>>

(* The calls, by what they do; a failing one of Tolerated is passed over.    *)
Tolerated == {"find_video", "route_sound"}
Calls == Tolerated \cup
  {"open_graph", "add_video", "add_grabber", "find_audio", "render_audio",
   "add_video_grabber", "render_video", "video_type", "video_callback",
   "keep_alive", "audio_type", "audio_callback", "run"}

Init ==
  /\ passthrough \in BOOLEAN /\ keepalive \in BOOLEAN
  /\ faults \in {f \in SUBSET Calls : Cardinality(f) <= MaxFaults}
  /\ dpc = "open" /\ source = FALSE /\ routed = FALSE /\ picture = "none"
  /\ atype = {} /\ vtype = {} /\ acb = FALSE /\ vcb = FALSE /\ graph = "stopped"
  /\ format = {} /\ geometry = {} /\ sounds = 0 /\ frames = 0

-----------------------------------------------------------------------------
(* SETTING UP: the calls in their order, each on to `next` or out.           *)

Works(call) == call \notin faults
After(call, next) == dpc' = IF Works(call) THEN next ELSE "failed"

OpenGraph ==
  /\ dpc = "open"
  /\ After("open_graph", IF passthrough \/ keepalive THEN "video" ELSE "grabber")
  /\ UNCHANGED <<options, wiring, acb, vcb, graph, headers, rings>>

(* find_video_source; to go without is fine, but not to fail to add it.      *)
FindVideo ==
  /\ dpc = "video"
  /\ source' = Works("find_video")
  /\ IF source' THEN After("add_video", "grabber") ELSE dpc' = "grabber"
  /\ UNCHANGED <<options, routed, picture, atype, vtype, acb, vcb, graph, headers, rings>>

(* The audio grabber, asked for PCM, and the null renderer behind it.        *)
AddGrabber ==
  /\ dpc = "grabber"
  /\ After("add_grabber", IF source THEN "route" ELSE "fallback")
  /\ UNCHANGED <<options, wiring, acb, vcb, graph, headers, rings>>

(* The video source's own audio pin ...                                      *)
RouteSound ==
  /\ dpc = "route"
  /\ routed' = Works("route_sound")
  /\ IF routed' THEN dpc' = "branch" /\ atype' \in {{t} : t \in AudioTypes}
                ELSE dpc' = "fallback" /\ UNCHANGED atype
  /\ UNCHANGED <<options, source, picture, vtype, acb, vcb, graph, headers, rings>>

(* ... or a device of its own.                                               *)
Fallback ==
  /\ dpc = "fallback"
  /\ routed' = (Works("find_audio") /\ Works("render_audio"))
  /\ IF routed' THEN dpc' = "branch" /\ atype' \in {{t} : t \in AudioTypes}
                ELSE dpc' = "failed" /\ UNCHANGED atype
  /\ UNCHANGED <<options, source, picture, vtype, acb, vcb, graph, headers, rings>>

(* Mutant: a video source that is not to be grabbed is left alone.           *)
BranchGrabOnly ==
  /\ dpc = "branch"
  /\ dpc' = IF source /\ passthrough THEN "grab" ELSE "sound"
  /\ UNCHANGED <<options, wiring, acb, vcb, graph, headers, rings>>

(* Which of the branches the video takes.                                    *)
Branch ==
  /\ dpc = "branch"
  /\ dpc' = IF ~ source THEN "sound" ELSE IF passthrough THEN "grab" ELSE "render"
  /\ UNCHANGED <<options, wiring, acb, vcb, graph, headers, rings>>

(* The video through a grabber to a null renderer.                           *)
GrabVideo ==
  /\ dpc = "grab"
  /\ IF Works("add_video_grabber") /\ Works("render_video")
       THEN /\ picture' = "grabber" /\ vtype' \in {{t} : t \in VideoTypes}
            /\ dpc' = "geometry"
       ELSE dpc' = "failed" /\ UNCHANGED <<picture, vtype>>
  /\ UNCHANGED <<options, source, routed, atype, acb, vcb, graph, headers, rings>>

(* The video to a renderer, of whatever type.                                *)
RenderVideo ==
  /\ dpc = "render"
  /\ picture' = (IF Works("keep_alive") THEN "renderer" ELSE "none")
  /\ After("keep_alive", "sound")
  /\ UNCHANGED <<options, source, routed, atype, vtype, acb, vcb, graph, headers, rings>>

-----------------------------------------------------------------------------
(* THE TWO FORMATS                                                           *)

AudioFound == UNION {ParseWfx(t) : t \in atype}
VideoFound == UNION {ParseVideoFormat(t) : t \in vtype}

(* set_geometry takes a frame if the region has room for three.              *)
AlignUp64(b) == ((b + 63) \div 64) * 64
HasRoom(vf) == VideoBytes \div AlignUp64(vf.frame_size) >= 3

(* Mutant: a geometry that has no room ends the capture.                     *)
PublishGeometryOrFail ==
  /\ dpc = "geometry"
  /\ LET read == Works("video_type") /\ VideoFound # {}
         fits == \A vf \in VideoFound : HasRoom(vf)
     IN  /\ geometry' = (IF read /\ fits THEN VideoFound ELSE geometry)
         /\ dpc' = IF read /\ fits THEN "vcallback" ELSE "failed"
  /\ UNCHANGED <<options, wiring, acb, vcb, graph, format, rings>>

(* A connection that cannot be read ends the capture, a geometry that has    *)
(* no room only the video.                                                   *)
PublishGeometry ==
  /\ dpc = "geometry"
  /\ LET read == Works("video_type") /\ VideoFound # {}
         fits == \A vf \in VideoFound : HasRoom(vf)
     IN  /\ geometry' = (IF read /\ fits THEN VideoFound ELSE geometry)
         /\ dpc' = IF ~ read THEN "failed" ELSE IF fits THEN "vcallback" ELSE "sound"
  /\ UNCHANGED <<options, wiring, acb, vcb, graph, format, rings>>

SetVideoCallback ==
  /\ dpc = "vcallback"
  /\ vcb' = Works("video_callback")
  /\ After("video_callback", "sound")
  /\ UNCHANGED <<options, wiring, acb, graph, headers, rings>>

(* Mutant: the graph runs as soon as the callback is set, before the format. *)
CallbackFirst ==
  /\ dpc = "sound"
  /\ acb' = Works("audio_callback")
  /\ After("audio_callback", "run")
  /\ UNCHANGED <<options, wiring, vcb, graph, headers, rings>>

(* The connection's format is published ...                                  *)
PublishFormat ==
  /\ dpc = "sound"
  /\ LET read == Works("audio_type") /\ AudioFound # {} IN
         /\ format' = (IF read THEN AudioFound ELSE format)
         /\ dpc' = IF read THEN "acallback" ELSE "failed"
  /\ UNCHANGED <<options, wiring, acb, vcb, graph, geometry, rings>>

(* ... before the callback that pushes is set ...                            *)
SetCallback ==
  /\ dpc = "acallback"
  /\ acb' = Works("audio_callback")
  /\ After("audio_callback", "run")
  /\ UNCHANGED <<options, wiring, vcb, graph, headers, rings>>

(* ... and the graph runs; the thread sleeps from now on.                    *)
Run ==
  /\ dpc = "run"
  /\ graph' = (IF Works("run") THEN "running" ELSE "stopped")
  /\ After("run", "sleep")
  /\ UNCHANGED <<options, wiring, acb, vcb, headers, rings>>

-----------------------------------------------------------------------------
(* THE GRAPH                                                                 *)

(* BufferCB of the audio grabber, and of the video grabber.                  *)
Sound ==
  /\ graph = "running" /\ acb
  /\ sounds < MaxBuffers
  /\ sounds' = sounds + 1
  /\ UNCHANGED <<options, dpc, wiring, acb, vcb, graph, headers, frames>>

Frame ==
  /\ graph = "running" /\ vcb
  /\ frames < MaxBuffers
  /\ frames' = frames + 1
  /\ UNCHANGED <<options, dpc, wiring, acb, vcb, graph, headers, sounds>>

(* It halts by itself, as with a device unplugged: nobody polls its events.  *)
Halt ==
  /\ graph = "running"
  /\ graph' = "halted"
  /\ UNCHANGED <<options, dpc, wiring, acb, vcb, headers, rings>>

-----------------------------------------------------------------------------
Client ==
  \/ OpenGraph \/ FindVideo \/ AddGrabber \/ RouteSound \/ Fallback \/ Branch
  \/ GrabVideo \/ RenderVideo \/ PublishGeometry \/ SetVideoCallback
  \/ PublishFormat \/ SetCallback \/ Run

Graph == Sound \/ Frame \/ Halt

-----------------------------------------------------------------------------
TypeOK ==
  /\ passthrough \in BOOLEAN /\ keepalive \in BOOLEAN /\ faults \subseteq Calls
  /\ dpc \in {"open", "video", "grabber", "route", "fallback", "branch", "grab", "render",
              "geometry", "vcallback", "sound", "acallback", "run", "sleep", "failed"}
  /\ source \in BOOLEAN /\ routed \in BOOLEAN
  /\ picture \in {"none", "grabber", "renderer"}
  /\ atype \subseteq AudioTypes /\ vtype \subseteq VideoTypes
  /\ acb \in BOOLEAN /\ vcb \in BOOLEAN /\ graph \in {"stopped", "running", "halted"}
  /\ geometry \subseteq VideoFormats
  /\ sounds \in 0 .. MaxBuffers /\ frames \in 0 .. MaxBuffers

(***************************************************************************)
(* "Publish the format, then route buffers into the ring via the callback":  *)
(* what the callbacks push is described in the shared headers, by what the   *)
(* grabbers were connected with, and a frame has its three slots.            *)
(***************************************************************************)
Described ==
  /\ sounds > 0 => format = AudioFound /\ format # {}
  /\ frames > 0 => /\ geometry = VideoFound /\ geometry # {}
                   /\ \A vf \in geometry : HasRoom(vf)

(***************************************************************************)
(* Cards "only emit audio while video is streaming" (main.rs): a graph that  *)
(* runs with the card's video source in it renders its video, whether it is  *)
(* passed on, has no room, or is only there to keep the card awake.          *)
(***************************************************************************)
CardAwake == graph = "running" /\ source => picture # "none"

(***************************************************************************)
(* "Continuing audio-only": no video device, no sound pin on it and no room  *)
(* for its frames are no reason for the sound not to start.                  *)
(***************************************************************************)
Unreadable == AudioFound = {} \/ (vtype # {} /\ VideoFound = {})

SoundStarts ==
  faults \subseteq Tolerated => <>(graph = "running" \/ (dpc = "failed" /\ Unreadable))

=============================================================================
