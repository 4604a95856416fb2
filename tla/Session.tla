------------------------------- MODULE Session -------------------------------
(***************************************************************************)
(* How the two programs come together over one region (lalah-host/main.rs    *)
(* run, lalah-vm/main.rs run, and init, attach, set_format and format of     *)
(* ShmAudioBuffer): the host initializes the header store by store, the VM   *)
(* attaches by loads of it, publishes the capture's format store by store,   *)
(* and the host polls for that format before it plays.  Either program may   *)
(* be killed and started again.                                              *)
(*                                                                         *)
(* The counters head, tail and seq, which init also zeroes, are AudioRing's; *)
(* of the video header only the magic is kept (VideoRing has the rest).      *)
(***************************************************************************)
EXTENDS Integers, Sequences

CONSTANTS
  Totals,      (* bytes the region may have after the audio header           *)
  AudioBytes,  (* of these, what is the audio's when video is on             *)
  VideoHeader, (* bytes of the video header                                  *)
  Formats,     (* formats a capture may settle on: records of FormatFields   *)
  HostVideo,   (* does the host run with --video-fifo? the choices           *)
  VmVideo,     (* does the VM run with --video-passthrough? the choices      *)
  Leftover,    (* is the region left over from a session before? the choices *)
  MaxHostRuns, (* bound: times the host program is started                   *)
  MaxVmRuns    (* bound: times the VM program is started                     *)

ASSUME SizesAreNatural ==
  Totals \subseteq Nat /\ AudioBytes \in Nat \ {0} /\ VideoHeader \in Nat

ASSUME ChoicesAndBounds ==
  /\ HostVideo \subseteq BOOLEAN /\ VmVideo \subseteq BOOLEAN /\ Leftover \subseteq BOOLEAN
  /\ MaxHostRuns \in Nat /\ MaxVmRuns \in Nat

VARIABLES
  total,              (* the size of the region, which QEMU was given        *)
  hdr,                (* the audio header in the shared region               *)
  videoMagic,         (* is the magic of the video header there?             *)
  hpc, hstep, hcap,   (* host: control state, store or load it is at, cap    *)
  hvideo, hfmt,       (* its --video-fifo, the format it read                *)
  hruns,
  vpc, vstep, vcap,   (* VM: control state, load or store it is at, cap      *)
  vvideo, vfmt,       (* its --video-passthrough, the capture's format       *)
  vruns

host == <<hpc, hstep, hcap, hvideo, hfmt, hruns>>
vm   == <<vpc, vstep, vcap, vvideo, vfmt, vruns>>
vars == <<total, hdr, videoMagic, hpc, hstep, hcap, hvideo, hfmt, hruns,
          vpc, vstep, vcap, vvideo, vfmt, vruns>>

Magic      == 9   (* SHM_MAGIC                                               *)
Version    == 1   (* SHM_VERSION                                             *)
HeaderSize == 8   (* size_of ShmHeader                                       *)

FormatFields == {"sample_rate", "channels", "format", "frame_bytes"}
Fields == FormatFields \cup {"magic", "version", "header_size", "capacity"}

NoFormat == [f \in FormatFields |-> 0]

ASSUME FormatsArePublishable ==
  /\ Formats \subseteq [FormatFields -> Nat]
  /\ \A f \in Formats : f["frame_bytes"] # 0 /\ f["format"] \in 0 .. 2

-----------------------------------------------------------------------------
(* The orders in which the two sides store and load.                         *)

(* is_power_of_two, for sizes up to n: nothing odd but 1 divides them.       *)
PowersOfTwo(n) == {p \in 1 .. n : \A d \in 2 .. p : p % d = 0 => d % 2 = 0}

(* The largest power of two not above n: the ring the host makes.            *)
PrevPowerOfTwo(n) == CHOOSE p \in PowersOfTwo(n) : n < 2 * p

(* The ring of a host; as a mutant, not cut to a power of two.               *)
RingUnrounded(video) == IF video THEN AudioBytes ELSE total
RingOf(video) == PrevPowerOfTwo(IF video THEN AudioBytes ELSE total)

(* The region is no larger than the header or, with --video-fifo, than the   *)
(* audio's part.                                                             *)
TooSmall(video) == total = 0 \/ (video /\ total <= AudioBytes)

(* video_region: what is past the audio's part holds more than a header.     *)
RoomForVideo == total > AudioBytes + VideoHeader

(* Mutants of init: the magic first, the whole region for a ring, the format *)
(* unset after the magic.                                                    *)
MagicFirst(cap) ==
  << <<"magic", Magic>>, <<"version", Version>>, <<"header_size", HeaderSize>>,
     <<"capacity", cap>>, <<"sample_rate", 0>>, <<"channels", 0>>,
     <<"format", 0>>, <<"frame_bytes", 0>> >>

CapacityOfRegion(cap) ==
  << <<"header_size", HeaderSize>>, <<"capacity", PrevPowerOfTwo(total)>>,
     <<"sample_rate", 0>>, <<"channels", 0>>, <<"format", 0>>,
     <<"frame_bytes", 0>>, <<"version", Version>>, <<"magic", Magic>> >>

FormatUnsetLast(cap) ==
  << <<"header_size", HeaderSize>>, <<"capacity", cap>>, <<"version", Version>>,
     <<"magic", Magic>>, <<"sample_rate", 0>>, <<"channels", 0>>,
     <<"format", 0>>, <<"frame_bytes", 0>> >>

(* init: configuration first, the magic last.                                *)
InitStores(cap) ==
  << <<"header_size", HeaderSize>>, <<"capacity", cap>>,
     <<"sample_rate", 0>>, <<"channels", 0>>, <<"format", 0>>,
     <<"frame_bytes", 0>>, <<"version", Version>>, <<"magic", Magic>> >>

(* Mutant: the gate first.                                                   *)
GateFirst(f) ==
  << <<"frame_bytes", f.frame_bytes>>, <<"sample_rate", f.sample_rate>>,
     <<"channels", f.channels>>, <<"format", f.format>> >>

(* set_format: the gate frame_bytes last.                                    *)
FormatStores(f) ==
  << <<"sample_rate", f.sample_rate>>, <<"channels", f.channels>>,
     <<"format", f.format>>, <<"frame_bytes", f.frame_bytes>> >>

(* attach: the magic first.                                                  *)
AttachLoads == <<"magic", "version", "header_size", "capacity">>

Valid(field, v) ==
  \/ field = "magic" /\ v = Magic
  \/ field = "version" /\ v = Version
  \/ field = "header_size" /\ v = HeaderSize
  \/ field = "capacity" /\ v \in PowersOfTwo(total)

(* format: the gate first.                                                   *)
FormatLoads == <<"frame_bytes", "format", "sample_rate", "channels">>

Usable(field, v) ==
  /\ field = "frame_bytes" => v # 0
  /\ field = "format" => v \in 0 .. 2

Put(store) == hdr' = [hdr EXCEPT ![store[1]] = store[2]]

-----------------------------------------------------------------------------
(* A region QEMU has just made is zero; one that was used before holds a     *)
(* header in which everything is valid, of any ring and any format.          *)
FreshHeader == [f \in Fields |-> 0]

LeftHeader(cap, fmt) ==
  [f \in Fields |->
     CASE f = "magic" -> Magic
       [] f = "version" -> Version
       [] f = "header_size" -> HeaderSize
       [] f = "capacity" -> cap
       [] OTHER -> fmt[f]]

Init ==
  /\ total \in Totals
  /\ \E left \in Leftover :
       IF left
         THEN \E video \in HostVideo, fmt \in Formats :
                /\ ~ TooSmall(video)
                /\ hdr = LeftHeader(RingOf(video), fmt)
                /\ videoMagic = (video /\ RoomForVideo)
         ELSE hdr = FreshHeader /\ videoMagic = FALSE
  /\ hpc = "off" /\ hstep = 0 /\ hcap = 0 /\ hvideo = FALSE /\ hfmt = NoFormat /\ hruns = 0
  /\ vpc = "off" /\ vstep = 0 /\ vcap = 0 /\ vvideo = FALSE /\ vfmt = NoFormat /\ vruns = 0

-----------------------------------------------------------------------------
(* HOST                                                                      *)

(* The program is started, after it was killed if it was running; on a       *)
(* region too small for what it is asked to do it ends at once.              *)
HostStart(video) ==
  /\ hruns < MaxHostRuns
  /\ hruns' = hruns + 1
  /\ hvideo' = video /\ hfmt' = NoFormat
  /\ \/ TooSmall(video) /\ hpc' = "ended" /\ hstep' = 0 /\ hcap' = 0
     \/ ~ TooSmall(video) /\ hpc' = "init" /\ hstep' = 1 /\ hcap' = RingOf(video)
  /\ UNCHANGED <<hdr, videoMagic, vm, total>>

(* One store of init; after the last the video region, if any, is next.      *)
HostInit ==
  /\ hpc = "init"
  /\ Put(InitStores(hcap)[hstep])
  /\ IF hstep < Len(InitStores(hcap))
       THEN hstep' = hstep + 1 /\ UNCHANGED hpc
       ELSE hstep' = 1 /\ hpc' = (IF hvideo THEN "video" ELSE "poll")
  /\ UNCHANGED <<videoMagic, hcap, hvideo, hfmt, hruns, vm, total>>

(* Mutant: the video region is initialized only once the format is there.    *)
HostVideoLate ==
  /\ hpc = "video"
  /\ hdr["frame_bytes"] # 0
  /\ \/ RoomForVideo /\ videoMagic' = TRUE /\ hpc' \in {"poll", "ended"}
     \/ ~ RoomForVideo /\ hpc' = "ended" /\ UNCHANGED videoMagic
  /\ UNCHANGED <<hdr, hstep, hcap, hvideo, hfmt, hruns, vm, total>>

(* Initialize the video region and start the forwarding thread; with no room *)
(* for the region, or without a thread, the program ends, what it has        *)
(* initialized in place.                                                     *)
HostVideoInit ==
  /\ hpc = "video"
  /\ \/ RoomForVideo /\ videoMagic' = TRUE /\ hpc' \in {"poll", "ended"}
     \/ ~ RoomForVideo /\ hpc' = "ended" /\ UNCHANGED videoMagic
  /\ UNCHANGED <<hdr, hstep, hcap, hvideo, hfmt, hruns, vm, total>>

(* One load of format: an unset gate ends the attempt, to be made again.     *)
HostPoll ==
  /\ hpc = "poll"
  /\ LET field == FormatLoads[hstep]  v == hdr[field] IN
       IF Usable(field, v)
         THEN /\ hfmt' = [hfmt EXCEPT ![field] = v]
              /\ IF hstep < Len(FormatLoads)
                   THEN hstep' = hstep + 1 /\ UNCHANGED hpc
                   ELSE hstep' = 1 /\ hpc' = "play"
         ELSE hstep' = 1 /\ hfmt' = NoFormat /\ UNCHANGED hpc
  /\ UNCHANGED <<hdr, videoMagic, hcap, hvideo, hruns, vm, total>>

-----------------------------------------------------------------------------
(* VM                                                                        *)

(* The program is started, after it ended or was killed.                     *)
VmStart(video) ==
  /\ vruns < MaxVmRuns
  /\ vruns' = vruns + 1
  /\ vvideo' = video
  /\ vpc' = "attach" /\ vstep' = 1 /\ vcap' = 0 /\ vfmt' = NoFormat
  /\ UNCHANGED <<hdr, videoMagic, host, total>>

(* One load of attach: an invalid value ends the attempt, to be made again.  *)
VmAttach ==
  /\ vpc = "attach"
  /\ LET field == AttachLoads[vstep]  v == hdr[field] IN
       IF Valid(field, v)
         THEN /\ vcap' = (IF field = "capacity" THEN v ELSE vcap)
              /\ IF vstep < Len(AttachLoads)
                   THEN vstep' = vstep + 1 /\ UNCHANGED vpc
                   ELSE vstep' = 1 /\ vpc' = (IF vvideo THEN "video" ELSE "open")
         ELSE vstep' = 1 /\ UNCHANGED <<vcap, vpc>>
  /\ UNCHANGED <<hdr, videoMagic, vvideo, vfmt, vruns, host, total>>

(* The attach loop of the video region; with no room for one, video is off.  *)
VmVideoAttach ==
  /\ vpc = "video"
  /\ RoomForVideo => videoMagic
  /\ vpc' = "open"
  /\ UNCHANGED <<hdr, videoMagic, vstep, vcap, vvideo, vfmt, vruns, host, total>>

(* The capture device has settled on a format.                               *)
VmNegotiate(fmt) ==
  /\ vpc = "open"
  /\ vfmt' = fmt
  /\ vpc' = "format" /\ vstep' = 1
  /\ UNCHANGED <<hdr, videoMagic, vcap, vvideo, vruns, host, total>>

(* One store of set_format; then the capture is started.                     *)
VmFormat ==
  /\ vpc = "format"
  /\ Put(FormatStores(vfmt)[vstep])
  /\ IF vstep < Len(FormatStores(vfmt))
       THEN vstep' = vstep + 1 /\ UNCHANGED vpc
       ELSE vstep' = 1 /\ vpc' = "stream"
  /\ UNCHANGED <<videoMagic, vcap, vvideo, vfmt, vruns, host, total>>

(* The device cannot be opened or started, stalls or fails: the program ends.*)
VmEnd ==
  /\ vpc \in {"open", "stream"}
  /\ vpc' = "ended"
  /\ UNCHANGED <<hdr, videoMagic, vstep, vcap, vvideo, vfmt, vruns, host, total>>

-----------------------------------------------------------------------------
HostStep == HostInit \/ HostVideoInit \/ HostPoll
VmStep   == VmAttach \/ VmVideoAttach \/ (\E fmt \in Formats : VmNegotiate(fmt)) \/ VmFormat

Next ==
  \/ \E video \in HostVideo : HostStart(video)
  \/ \E video \in VmVideo : VmStart(video)
  \/ HostStep \/ VmStep \/ VmEnd

(***************************************************************************)
(* A program that runs goes on: both poll for ever, and opening the device   *)
(* gives a format or an error.  Nothing makes anyone start a program.        *)
(***************************************************************************)
Spec == Init /\ [][Next]_vars /\ WF_vars(HostStep) /\ WF_vars(VmStep)

-----------------------------------------------------------------------------
Attached == vpc \in {"video", "open", "format", "stream"}
HostUp   == hpc \notin {"off", "ended"}

TypeOK ==
  /\ total \in Totals /\ hdr \in [Fields -> Nat] /\ videoMagic \in BOOLEAN
  /\ hpc \in {"off", "init", "video", "poll", "play", "ended"}
  /\ hstep \in 0 .. 8 /\ hcap \in {0} \cup PowersOfTwo(total)
  /\ hvideo \in BOOLEAN /\ hfmt \in [FormatFields -> Nat] /\ hruns \in 0 .. MaxHostRuns
  /\ vpc \in {"off", "attach", "video", "open", "format", "stream", "ended"}
  /\ vstep \in 0 .. 4 /\ vcap \in {0} \cup PowersOfTwo(total)
  /\ vvideo \in BOOLEAN /\ vfmt \in [FormatFields -> Nat] /\ vruns \in 0 .. MaxVmRuns

(***************************************************************************)
(* "no other process may be attached yet" (the contract of init): no VM is   *)
(* past attach while the host writes the header.                             *)
(***************************************************************************)
InitAlone == hpc = "init" => ~ Attached

(***************************************************************************)
(* "the mask arithmetic is identical on both sides" (lib.rs): an attached VM *)
(* has the ring size of the host that is running.                            *)
(***************************************************************************)
RingsAgree == HostUp /\ Attached => vcap = hcap

(***************************************************************************)
(* The host plays what the capture delivers: the format it configured is the *)
(* one of the VM that is streaming, every field of it from one publication.  *)
(***************************************************************************)
FormatsAgree == hpc = "play" /\ vpc = "stream" => hfmt = vfmt

(***************************************************************************)
(* "lalah-vm attach-retries until the host has initialized the region,       *)
(* publishes the negotiated format, then streams.  lalah-host waits for that *)
(* format, then plays" (README): a VM that keeps streaming gets played.      *)
(***************************************************************************)
StreamPlayed == <>[](vpc = "stream" /\ HostUp) => <>(hpc = "play")

(***************************************************************************)
(* A VM whose host is up gets past its two attach loops each time it is      *)
(* started; with the video passthrough, and room for it, that takes a host   *)
(* that forwards video.                                                      *)
(***************************************************************************)
AttachEnds ==
  <>[](HostUp /\ vpc # "off" /\ (vvideo /\ RoomForVideo => hvideo))
    => []<>((Attached /\ vpc # "video") \/ vpc = "ended")

=============================================================================
