---------------------------- MODULE WasapiCapture ----------------------------
(***************************************************************************)
(* The VM's WASAPI capture (lalah-vm/wasapi.rs): probe a format, initialize  *)
(* the client, publish the format, start, and then drain the device's        *)
(* packets into the audio ring each time its event is signalled, until the   *)
(* device stalls or fails.  The device - its packets, its auto-reset event   *)
(* and its failures - is the operating system's, as the calls see it.        *)
(*                                                                         *)
(* A packet is [n, silent]; the ring is the sequence of what was pushed into *)
(* it, since a push is atomic for the thread that makes it (see AudioRing).  *)
(***************************************************************************)
EXTENDS Formats, SequencesExt

CONSTANTS
  Accepts,      (* sets of candidates that the device may accept             *)
  Buffers,      (* packets the device can hold                               *)
  MaxPackets    (* bound: packets the device captures before it stalls       *)

VARIABLES
  accepted, aligned, alive,  (* device: formats it takes, whether its period  *)
                             (* fits its buffer, whether it is still there   *)
  running, event, queue,     (* device: started, its event, packets held     *)
  captured,                  (* device: packets captured so far              *)
  arrived,                   (* device: those it had room for, in order      *)
  cpc, cand, result,         (* capture_exclusive: control state, candidate  *)
  format,                    (* the format in the header, as a set           *)
  pushed                     (* what was pushed into the ring                *)

device == <<accepted, aligned, alive, running, event, queue, captured, arrived>>
client == <<cpc, cand, result>>
vars   == <<accepted, aligned, alive, running, event, queue, captured, arrived,
            cpc, cand, result, format, pushed>>

(* Each base format is tried plain and then extensible.                      *)
Candidates  == 2 * Len(BaseFormats)
BaseOf(c)   == BaseFormats[(c + 1) \div 2]
Wfx(c)      == MakeWfx(BaseOf(c), c % 2 = 0)
FormatOf(c) == ParseAudioFormat(Wfx(c))

Init ==
  /\ accepted \in Accepts /\ aligned \in BOOLEAN /\ alive = TRUE
  /\ running = FALSE /\ event = FALSE /\ queue = <<>>
  /\ captured = 0 /\ arrived = <<>>
  /\ cpc = "open" /\ cand = 1 /\ result = "none"
  /\ format = {} /\ pushed = <<>>

-----------------------------------------------------------------------------
(* THE DEVICE                                                                *)

(* A packet is captured; one the device has no room for is gone.             *)
Capture(silent) ==
  /\ running /\ alive
  /\ captured < MaxPackets
  /\ captured' = captured + 1
  /\ LET packet == [n |-> captured', silent |-> silent] IN
       IF Len(queue) < Buffers
         THEN queue' = Append(queue, packet) /\ arrived' = Append(arrived, packet)
         ELSE UNCHANGED <<queue, arrived>>
  /\ event' = TRUE
  /\ UNCHANGED <<accepted, aligned, alive, running, client, format, pushed>>

(* It is unplugged: calls on it fail from now on.                            *)
Unplug ==
  /\ alive
  /\ alive' = FALSE
  /\ UNCHANGED <<accepted, aligned, running, event, queue, captured, arrived,
                 client, format, pushed>>

-----------------------------------------------------------------------------
(* capture_exclusive                                                         *)

Fail == cpc' = "failed" /\ result' = "error"

(* The endpoint is resolved and activated.                                   *)
OpenDevice ==
  /\ cpc = "open"
  /\ \/ alive /\ cpc' = "probe" /\ UNCHANGED result
     \/ Fail
  /\ UNCHANGED <<device, cand, format, pushed>>

(* Mutant: one candidate too many.                                           *)
ProbeBeyond ==
  /\ cpc = "probe"
  /\ \/ cand \in accepted /\ alive /\ cpc' = "init" /\ UNCHANGED <<cand, result>>
     \/ /\ cand \notin accepted \/ ~ alive
        /\ IF cand <= Candidates
             THEN cand' = cand + 1 /\ UNCHANGED <<cpc, result>>
             ELSE Fail /\ UNCHANGED cand
  /\ UNCHANGED <<device, format, pushed>>

(* One candidate is put to the device; the first it takes must be carried,   *)
(* which every candidate is (FormatsProofs).                                 *)
Probe ==
  /\ cpc = "probe"
  /\ \/ /\ cand \in accepted /\ alive
        /\ IF FormatOf(cand) # {} THEN cpc' = "init" /\ UNCHANGED result ELSE Fail
        /\ UNCHANGED cand
     \/ /\ cand \notin accepted \/ ~ alive
        /\ IF cand < Candidates
             THEN cand' = cand + 1 /\ UNCHANGED <<cpc, result>>
             ELSE Fail /\ UNCHANGED cand
  /\ UNCHANGED <<device, format, pushed>>

(* Initialize; after "buffer size not aligned" a fresh client tries once more.*)
Initialize ==
  /\ cpc \in {"init", "retry"}
  /\ \/ alive /\ (aligned \/ cpc = "retry") /\ cpc' = "setup" /\ UNCHANGED result
     \/ alive /\ ~ aligned /\ cpc = "init" /\ cpc' = "retry" /\ UNCHANGED result
     \/ Fail
  /\ UNCHANGED <<device, cand, format, pushed>>

(* The event and the capture service.                                        *)
Setup ==
  /\ cpc = "setup"
  /\ \/ alive /\ cpc' = "publish" /\ UNCHANGED result
     \/ Fail
  /\ UNCHANGED <<device, cand, format, pushed>>

(* set_format, before Start.                                                 *)
Publish ==
  /\ cpc = "publish"
  /\ format' = FormatOf(cand)
  /\ cpc' = "start"
  /\ UNCHANGED <<device, cand, result, pushed>>

(* A Start that fails leaves the format published.                           *)
Start ==
  /\ cpc = "start"
  /\ \/ alive /\ running' = TRUE /\ cpc' = "wait" /\ UNCHANGED result
     \/ Fail /\ UNCHANGED running
  /\ UNCHANGED <<accepted, aligned, alive, event, queue, captured, arrived, cand, format, pushed>>

-----------------------------------------------------------------------------
(* capture_loop                                                              *)

(* The wait ends with the event, which resets itself.                        *)
WaitSignalled ==
  /\ cpc = "wait"
  /\ event
  /\ event' = FALSE
  /\ cpc' = "get"
  /\ UNCHANGED <<accepted, aligned, alive, running, queue, captured, arrived,
                 cand, result, format, pushed>>

(* Two seconds without an event, a stalled device, or a wait that fails,     *)
(* which the loop does not tell apart: a clean stop.                         *)
WaitTimeout ==
  /\ cpc = "wait"
  /\ cpc' = "teardown" /\ result' = "ok"
  /\ UNCHANGED <<device, cand, format, pushed>>

(* GetBuffer: a packet, none, or an error.                                   *)
GetBuffer ==
  /\ cpc = "get"
  /\ \/ alive /\ queue # <<>> /\ cpc' = "push" /\ UNCHANGED result
     \/ alive /\ queue = <<>> /\ cpc' = "wait" /\ UNCHANGED result
     \/ ~ alive /\ cpc' = "teardown" /\ result' = "error"
  /\ UNCHANGED <<device, cand, format, pushed>>

(* Mutant: silent packets are left out.                                      *)
SkipSilent ==
  /\ cpc = "push"
  /\ pushed' = (IF Head(queue).silent THEN pushed ELSE Append(pushed, Head(queue)))
  /\ cpc' = "release"
  /\ UNCHANGED <<device, cand, result, format>>

(* push_overwrite of the packet, or of as many zeros when it is silent.      *)
Push ==
  /\ cpc = "push"
  /\ pushed' = Append(pushed, Head(queue))
  /\ cpc' = "release"
  /\ UNCHANGED <<device, cand, result, format>>

(* Mutant: one packet for each event.                                        *)
ReleaseAndWait ==
  /\ cpc = "release"
  /\ alive
  /\ queue' = Tail(queue)
  /\ cpc' = "wait"
  /\ UNCHANGED <<accepted, aligned, alive, running, event, captured, arrived,
                 cand, result, format, pushed>>

(* ReleaseBuffer, and on to the next packet.                                 *)
Release ==
  /\ cpc = "release"
  /\ \/ alive /\ queue' = Tail(queue) /\ cpc' = "get" /\ UNCHANGED result
     \/ ~ alive /\ cpc' = "teardown" /\ result' = "error" /\ UNCHANGED queue
  /\ UNCHANGED <<accepted, aligned, alive, running, event, captured, arrived,
                 cand, format, pushed>>

(* Stop and close the event, whichever way the loop ended.                   *)
Teardown ==
  /\ cpc = "teardown"
  /\ running' = FALSE
  /\ cpc' = "stopped"
  /\ UNCHANGED <<accepted, aligned, alive, event, queue, captured, arrived,
                 cand, result, format, pushed>>

-----------------------------------------------------------------------------
Client == \/ OpenDevice \/ Probe \/ Initialize \/ Setup \/ Publish \/ Start
          \/ WaitSignalled \/ WaitTimeout \/ GetBuffer \/ Push \/ Release \/ Teardown

-----------------------------------------------------------------------------
Packets == [n : 1 .. MaxPackets, silent : BOOLEAN]

TypeOK ==
  /\ accepted \in Accepts /\ aligned \in BOOLEAN /\ alive \in BOOLEAN
  /\ running \in BOOLEAN /\ event \in BOOLEAN
  /\ queue \in Seq(Packets) /\ Len(queue) <= Buffers
  /\ captured \in 0 .. MaxPackets /\ arrived \in Seq(Packets)
  /\ cpc \in {"open", "probe", "init", "retry", "setup", "publish", "start", "wait", "get",
              "push", "release", "teardown", "stopped", "failed"}
  /\ cand \in 1 .. Candidates /\ result \in {"none", "ok", "error"}
  /\ format \subseteq AudioFormats /\ pushed \in Seq(Packets)

(***************************************************************************)
(* "the timeline stays continuous" (wasapi.rs): every packet the device had  *)
(* room for is in the ring or still held by the device, once and in order;   *)
(* the packet being pushed is in both.                                       *)
(***************************************************************************)
Continuous ==
  /\ IsPrefix(pushed, arrived)
  /\ Len(arrived) <= Len(pushed) + Len(queue)

(***************************************************************************)
(* "Drain every queued packet before going back to wait": the event tells of *)
(* any number of packets, so none may be held by the device while the thread *)
(* waits with the event unset, or it would be late for good.                 *)
(***************************************************************************)
NoneStranded == cpc = "wait" /\ queue # <<>> => event

(***************************************************************************)
(* "Publish the negotiated format BEFORE Start": no sample is captured, and  *)
(* none is in the ring, whose format the header does not tell the host.      *)
(***************************************************************************)
FormatFirst == captured > 0 \/ pushed # <<>> => format = {Delivers(BaseOf(cand))}

(* Whatever ended a capture that was started, the device is stopped with it. *)
StopsDevice == cpc \in {"stopped", "failed"} => ~ running

=============================================================================
