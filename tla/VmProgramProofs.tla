---------------------------- MODULE VmProgramProofs ----------------------------
(***************************************************************************)
(* Proofs about VmProgram: each part has an invariant of its own, kept by    *)
(* that part's steps; Linked relates the parts to where run is, and is what  *)
(* makes the steps of one part harmless to the others.                       *)
(***************************************************************************)
EXTENDS VmProgram, FormatsProofs, SequenceTheorems

(* The region: a handle from Open to the drop, a list until then.            *)
RegionInv ==
  /\ Region!TypeOK
  /\ devices => rpc \in {"enum", "detail", "open"}
  /\ rpc \in {"size", "mmap", "mapped"} => handle
  /\ rpc = "dropped" => ~ handle

(* The keep-alive: a graph runs only for a worker in its loop, and the main  *)
(* thread captures alone, or is past the keep-alive, only without a worker.  *)
KeepInv ==
  /\ Keep!TypeOK
  /\ wpc \in {"off", "open", "ended"} => ~ streaming
  /\ mpc = "start" => wpc = "off"
  /\ mpc \in {"capturealone", "exit"} => wpc \in {"off", "ended"}

-----------------------------------------------------------------------------
(* THE REGION                                                                *)

LEMMA RegionInit == Region!Init => RegionInv
  BY DEF Region!Init, RegionInv, Region!TypeOK

LEMMA RegionStep ==
  ASSUME RegionInv, Region!Map \/ Region!Drop
  PROVE  RegionInv'
<1> USE DEF RegionInv, Region!TypeOK
<1>1. CASE Region!GetClassDevs
  <2>1. CASE rpc' = "failed"
    BY <1>1, <2>1 DEF Region!GetClassDevs
  <2>2. CASE rpc' # "failed"
    BY <1>1, <2>2 DEF Region!GetClassDevs
  <2> QED
    BY <2>1, <2>2
<1>2. CASE Region!Find
  <2>1. CASE rpc' = "failed"
    BY <1>2, <2>1 DEF Region!Find
  <2>2. CASE rpc' # "failed"
    BY <1>2, <2>2 DEF Region!Find
  <2> QED
    BY <2>1, <2>2
<1>3. CASE Region!Open
  BY <1>3 DEF Region!Open
<1>4. CASE Region!Request
  <2>1. /\ rpc \in {"size", "mmap"} /\ rpc' \in {"mmap", "mapped", "failed"}
        /\ devices' = devices /\ handle' = handle
    BY <1>4 DEF Region!Request
  <2> QED
    BY <2>1
<1>5. CASE Region!Drop
  BY <1>5 DEF Region!Drop
<1> QED
  BY <1>1, <1>2, <1>3, <1>4, <1>5 DEF Region!Map

-----------------------------------------------------------------------------
(* THE KEEP-ALIVE                                                            *)

LEMMA KeepInit == Keep!Init => KeepInv
<1> SUFFICES ASSUME Keep!Init PROVE KeepInv
  OBVIOUS
<1>1. Keep!TypeOK
  <2>1. channel \in Seq({"ok", "error"}) /\ Len(channel) <= 1
    BY DEF Keep!Init
  <2>2. events \in Seq(Keep!Fatal \cup Keep!Other) /\ halts \in 0 .. MaxHalts
    BY ChoicesAndBounds DEF Keep!Init
  <2> QED
    BY <2>1, <2>2 DEF Keep!Init, Keep!TypeOK
<1> QED
  BY <1>1 DEF Keep!Init, KeepInv

LEMMA KeepStep ==
  ASSUME KeepInv, Keep!Main \/ Keep!CaptureEnds \/ NoKeepAlive \/ Keep!Worker \/ Keep!Graph
  PROVE  KeepInv'
<1> USE DEF KeepInv, Keep!TypeOK
<1>1. CASE Keep!Spawn
  BY <1>1 DEF Keep!Spawn
<1>2. CASE Keep!Recv
  BY <1>2 DEF Keep!Recv
<1>3. CASE Keep!JoinFailed
  BY <1>3 DEF Keep!JoinFailed
<1>4. CASE Keep!Join
  BY <1>4 DEF Keep!Join
<1>5. CASE Keep!CaptureEnds
  BY <1>5 DEF Keep!CaptureEnds
<1>6. CASE NoKeepAlive
  BY <1>6 DEF NoKeepAlive
<1>7. CASE Keep!OpenGraph
  <2>1. channel' \in Seq({"ok", "error"}) /\ Len(channel') <= 1
    <3>1. ASSUME NEW r \in {"ok", "error"}, channel' = <<r>>
          PROVE  channel' \in Seq({"ok", "error"}) /\ Len(channel') <= 1
      BY ONLY <3>1
    <3>2. channel' = <<"ok">> \/ channel' = <<"error">> \/ channel' = channel
      BY <1>7 DEF Keep!OpenGraph
    <3> QED
      BY <3>1, <3>2
  <2>2. wpc' \in {"loop", "ended"} /\ streaming' = (wpc' = "loop")
    BY <1>7 DEF Keep!OpenGraph
  <2> QED
    BY <1>7, <2>1, <2>2 DEF Keep!OpenGraph
<1>8. CASE Keep!ReadFlag
  BY <1>8 DEF Keep!ReadFlag
<1>9. CASE Keep!Poll
  <2>1. events' \in Seq(Keep!Fatal \cup Keep!Other)
    BY <1>9 DEF Keep!Poll
  <2>2. wpc' \in {"loop", "restart"}
    BY <1>9 DEF Keep!Poll
  <2> QED
    BY <1>9, <2>1, <2>2 DEF Keep!Poll
<1>10. CASE Keep!Restart
  BY <1>10, ChoicesAndBounds DEF Keep!Restart
<1>11. CASE Keep!StopGraph
  BY <1>11 DEF Keep!StopGraph
<1>12. CASE Keep!Halt
  <2>1. halts' \in 0 .. MaxHalts
    BY <1>12, ChoicesAndBounds DEF Keep!Halt
  <2>2. events' \in Seq(Keep!Fatal \cup Keep!Other)
    BY <1>12 DEF Keep!Halt
  <2> QED
    BY <1>12, <2>1, <2>2 DEF Keep!Halt
<1>13. CASE Keep!Notify
  BY <1>13 DEF Keep!Notify
<1> QED
  BY <1>1, <1>2, <1>3, <1>4, <1>5, <1>6, <1>7, <1>8, <1>9, <1>10, <1>11, <1>12, <1>13
  DEF Keep!Main, Keep!Worker, Keep!Graph

-----------------------------------------------------------------------------
(* THE CAPTURE THROUGH WASAPI                                                *)

Loop    == {"wait", "get", "push", "release", "teardown"}
Started == Loop \cup {"stopped"}

(* The packets pushed, p, then those held by the device, q, are those that   *)
(* arrived, a, where the first d held ones are pushed already.               *)
Stream(d, q, a, p) ==
  /\ d <= Len(q) /\ d <= Len(p) /\ Len(a) + d = Len(p) + Len(q)
  /\ \A i \in 1 .. Len(p) : p[i] = a[i]
  /\ \A i \in 1 .. Len(q) : q[i] = a[Len(p) - d + i]

WasapiInv ==
  /\ Wasapi!TypeOK
  /\ running <=> cpc \in Loop
  /\ cpc \in Started \cup {"start"} => format = {Wasapi!Delivers(Wasapi!BaseOf(cand))}
  /\ cpc \notin Started => captured = 0 /\ queue = <<>> /\ arrived = <<>> /\ pushed = <<>>
  /\ cpc = "push" => queue # <<>>
  /\ Wasapi!NoneStranded
  /\ \E d \in 0 .. 1 : /\ cpc = "release" => d = 1
                       /\ cpc \in {"wait", "get", "push"} => d = 0
                       /\ Stream(d, queue, arrived, pushed)

LEMMA Arrives ==
  ASSUME NEW S, NEW q \in Seq(S), NEW a \in Seq(S), NEW p \in Seq(S), NEW x \in S,
         NEW d \in 0 .. 1, Stream(d, q, a, p)
  PROVE  Stream(d, Append(q, x), Append(a, x), p)
<1> DEFINE r == Append(q, x)
           b == Append(a, x)
<1>1. /\ Len(r) = Len(q) + 1 /\ \A i \in 1 .. Len(q) : r[i] = q[i]
      /\ r[Len(q) + 1] = x
  OBVIOUS
<1>2. /\ Len(b) = Len(a) + 1 /\ \A i \in 1 .. Len(a) : b[i] = a[i]
      /\ b[Len(a) + 1] = x
  OBVIOUS
<1>3. Len(q) \in Nat /\ Len(a) \in Nat /\ Len(p) \in Nat
  OBVIOUS
<1> HIDE DEF r, b
<1>4. \A i \in 1 .. Len(p) : p[i] = b[i]
  <2> SUFFICES ASSUME NEW i \in 1 .. Len(p) PROVE p[i] = b[i]
    OBVIOUS
  <2>1. d <= Len(q) /\ Len(a) + d = Len(p) + Len(q) /\ p[i] = a[i]
    BY DEF Stream
  <2>2. i \in 1 .. Len(a)
    BY <1>3, <2>1
  <2> QED
    BY <1>2, <2>1, <2>2
<1>5. \A i \in 1 .. Len(r) : r[i] = b[Len(p) - d + i]
  <2> SUFFICES ASSUME NEW i \in 1 .. Len(r) PROVE r[i] = b[Len(p) - d + i]
    OBVIOUS
  <2>1. CASE i = Len(q) + 1
    <3>1. Len(p) - d + i = Len(a) + 1
      BY <1>3, <2>1 DEF Stream
    <3> QED
      BY <1>1, <1>2, <2>1, <3>1
  <2>2. CASE i # Len(q) + 1
    <3>1. i \in 1 .. Len(q) /\ Len(p) - d + i \in 1 .. Len(a)
      BY <1>1, <1>3, <2>2 DEF Stream
    <3> QED
      BY <1>1, <1>2, <3>1 DEF Stream
  <2> QED
    BY <2>1, <2>2
<1>6. d <= Len(r) /\ d <= Len(p) /\ Len(b) + d = Len(p) + Len(r)
  BY <1>1, <1>2, <1>3 DEF Stream
<1>7. Stream(d, r, b, p)
  BY <1>4, <1>5, <1>6 DEF Stream
<1> QED
  BY <1>7 DEF r, b

LEMMA Pushes ==
  ASSUME NEW S, NEW q \in Seq(S), NEW a \in Seq(S), NEW p \in Seq(S),
         q # <<>>, Stream(0, q, a, p)
  PROVE  Append(p, Head(q)) \in Seq(S) /\ Stream(1, q, a, Append(p, Head(q)))
<1> DEFINE x == q[1]
           r == Append(p, x)
<1>1. Head(q) = x /\ x \in S /\ Len(q) >= 1
  OBVIOUS
<1>2. /\ r \in Seq(S) /\ Len(r) = Len(p) + 1 /\ \A i \in 1 .. Len(p) : r[i] = p[i]
      /\ r[Len(p) + 1] = x
  BY <1>1
<1>3. Len(q) \in Nat /\ Len(a) \in Nat /\ Len(p) \in Nat
  OBVIOUS
<1>4. x = a[Len(p) + 1]
  BY <1>1, <1>3 DEF Stream
<1> HIDE DEF r, x
<1>5. \A i \in 1 .. Len(r) : r[i] = a[i]
  <2> SUFFICES ASSUME NEW i \in 1 .. Len(r) PROVE r[i] = a[i]
    OBVIOUS
  <2>1. CASE i = Len(p) + 1
    BY <1>2, <1>4, <2>1
  <2>2. CASE i # Len(p) + 1
    BY <1>2, <1>3, <2>2 DEF Stream
  <2> QED
    BY <2>1, <2>2
<1>6. \A i \in 1 .. Len(q) : q[i] = a[Len(r) - 1 + i]
  BY <1>2, <1>3 DEF Stream
<1>7. 1 <= Len(q) /\ 1 <= Len(r) /\ Len(a) + 1 = Len(r) + Len(q)
  BY <1>1, <1>2, <1>3 DEF Stream
<1>8. Stream(1, q, a, r)
  BY <1>5, <1>6, <1>7 DEF Stream
<1> QED
  BY <1>1, <1>2, <1>8 DEF r

LEMMA Releases ==
  ASSUME NEW S, NEW q \in Seq(S), NEW a \in Seq(S), NEW p \in Seq(S), Stream(1, q, a, p)
  PROVE  Tail(q) \in Seq(S) /\ Len(Tail(q)) = Len(q) - 1 /\ Stream(0, Tail(q), a, p)
<1> DEFINE r == Tail(q)
<1>1. Len(q) \in Nat /\ Len(a) \in Nat /\ Len(p) \in Nat /\ Len(q) >= 1
  BY DEF Stream
<1>2. /\ r \in Seq(S) /\ Len(r) = Len(q) - 1
      /\ \A i \in 1 .. Len(r) : r[i] = q[i + 1]
  BY <1>1
<1> HIDE DEF r
<1>3. \A i \in 1 .. Len(r) : r[i] = a[Len(p) - 0 + i]
  <2> SUFFICES ASSUME NEW i \in 1 .. Len(r) PROVE r[i] = a[Len(p) - 0 + i]
    OBVIOUS
  <2>1. i + 1 \in 1 .. Len(q) /\ Len(p) - 1 + (i + 1) = Len(p) - 0 + i
    BY <1>1, <1>2
  <2> QED
    BY <1>2, <2>1 DEF Stream
<1>4. Stream(0, r, a, p)
  BY <1>1, <1>2, <1>3 DEF Stream
<1> QED
  BY <1>2, <1>4 DEF r

(* Five base formats, each plain and extensible.                             *)
LEMMA TenCandidates ==
  Wasapi!Candidates = 10
  BY DEF Wasapi!Candidates, Wasapi!BaseFormats

(* Each candidate is read back as what it delivers.                          *)
LEMMA ReadBack ==
  ASSUME NEW c \in 1 .. Wasapi!Candidates
  PROVE  /\ Wasapi!FormatOf(c) = {Wasapi!Delivers(Wasapi!BaseOf(c))}
         /\ Wasapi!FormatOf(c) \subseteq Wasapi!AudioFormats
<1> DEFINE e == c % 2 = 0
           x == Wasapi!BaseOf(c)
<1>1. c \in 1 .. 10
  BY TenCandidates
<1> DEFINE c1 == Candidate(48000, 2, 16, FALSE)
           c2 == Candidate(44100, 2, 16, FALSE)
           c3 == Candidate(48000, 1, 16, FALSE)
           c4 == Candidate(48000, 2, 32, FALSE)
           c5 == Candidate(48000, 2, 32, TRUE)
<1>2. x \in {c1, c2, c3, c4, c5}
  <2>1. (c + 1) \div 2 \in 1 .. 5
    BY <1>1
  <2>2. Wasapi!BaseFormats = <<c1, c2, c3, c4, c5>>
    BY DEF Wasapi!BaseFormats, Wasapi!Candidate, Candidate
  <2> HIDE DEF c1, c2, c3, c4, c5
  <2> QED
    BY <2>1, <2>2, OneOfFive DEF Wasapi!BaseOf
<1>3. e \in BOOLEAN
  OBVIOUS
<1> HIDE DEF e, x
<1>4. x \in Sampled
  <2>1. {c1, c2, c3, c4, c5} \subseteq Sampled
    BY DEF Candidate, Sampled
  <2> HIDE DEF c1, c2, c3, c4, c5
  <2> QED
    BY <1>2, <2>1
<1>5. Wasapi!MakeWfx(x, e) = MakeWfx(x, e)
  BY DEF Wasapi!MakeWfx, MakeWfx, Wasapi!Pcm, Pcm, Wasapi!Float, Float,
         Wasapi!Extensible, Extensible
<1>6. Wasapi!Delivers(x) = Delivers(x)
  BY DEF Wasapi!Delivers, Delivers, Wasapi!BytesPerSample, BytesPerSample,
         Wasapi!S16Le, S16Le, Wasapi!S32Le, S32Le, Wasapi!F32Le, F32Le
<1>7. \A w : Wasapi!ParseAudioFormat(w) = ParseAudioFormat(w)
  BY DEF Wasapi!ParseAudioFormat, ParseAudioFormat, Wasapi!SampleFormats, SampleFormats,
         Wasapi!IsFloat, IsFloat, Wasapi!BytesPerSample, BytesPerSample,
         Wasapi!Tags, Tags, Wasapi!Pcm, Pcm, Wasapi!Float, Float,
         Wasapi!Extensible, Extensible,
         Wasapi!S16Le, S16Le, Wasapi!S32Le, S32Le, Wasapi!F32Le, F32Le
<1>8. Wasapi!AudioFormats = AudioFormats
  BY DEF Wasapi!AudioFormats, AudioFormats, Wasapi!SampleFormats, SampleFormats,
         Wasapi!S16Le, S16Le, Wasapi!S32Le, S32Le, Wasapi!F32Le, F32Le
<1>9. Wasapi!FormatOf(c) = ParseAudioFormat(MakeWfx(x, e))
  BY <1>5, <1>7 DEF Wasapi!FormatOf, Wasapi!Wfx, x, e
<1>10. Delivers(x) \in AudioFormats
  BY <1>4 DEF Sampled, Delivers, AudioFormats, SampleFormats, BytesPerSample, S16Le, S32Le, F32Le
<1> QED
  BY <1>3, <1>4, <1>6, <1>8, <1>9, <1>10, ParseInvertsMake DEF x

(* Nothing has come and nothing is pushed.                                   *)
LEMMA StreamOfNothing ==
  Stream(0, <<>>, <<>>, <<>>)
  BY DEF Stream

LEMMA WasapiInit ==
  ASSUME Wasapi!Init, accepted \in Accepts
  PROVE  WasapiInv
<1>1. Wasapi!TypeOK
  <2>1. cand \in 1 .. Wasapi!Candidates
    BY TenCandidates DEF Wasapi!Init
  <2>2. Len(queue) <= Buffers /\ captured \in 0 .. MaxPackets
    BY ChoicesAndBounds DEF Wasapi!Init
  <2>3. /\ queue \in Seq(Wasapi!Packets) /\ arrived \in Seq(Wasapi!Packets)
        /\ pushed \in Seq(Wasapi!Packets) /\ format \subseteq Wasapi!AudioFormats
    BY DEF Wasapi!Init
  <2> QED
    BY <2>1, <2>2, <2>3 DEF Wasapi!Init, Wasapi!TypeOK
<1>2. Stream(0, queue, arrived, pushed)
  BY StreamOfNothing DEF Wasapi!Init
<1> QED
  BY <1>1, <1>2 DEF Wasapi!Init, WasapiInv, Wasapi!NoneStranded, Loop, Started

(* The steps before the device is started.                                   *)
LEMMA WasapiSetsUp ==
  ASSUME WasapiInv,
         \/ Wasapi!OpenDevice \/ Wasapi!Probe \/ Wasapi!Initialize
         \/ Wasapi!Setup \/ Wasapi!Publish \/ Wasapi!Start
  PROVE  WasapiInv'
<1> USE DEF WasapiInv, Wasapi!TypeOK, Wasapi!NoneStranded, Loop, Started,
            Wasapi!device, Wasapi!client, Wasapi!Fail
<1>1. cpc \notin Started
  BY DEF Wasapi!OpenDevice, Wasapi!Probe, Wasapi!Initialize, Wasapi!Setup,
         Wasapi!Publish, Wasapi!Start
<1>2. UNCHANGED <<accepted, aligned, alive, event, queue, captured, arrived, pushed>>
  BY DEF Wasapi!OpenDevice, Wasapi!Probe, Wasapi!Initialize, Wasapi!Setup,
         Wasapi!Publish, Wasapi!Start
<1>3. Stream(0, queue, arrived, pushed)'
  BY <1>1, <1>2, StreamOfNothing
<1>4. CASE Wasapi!OpenDevice
  BY <1>3, <1>4 DEF Wasapi!OpenDevice
<1>5. CASE Wasapi!Probe
  <2>1. cand' \in 1 .. Wasapi!Candidates
    BY <1>5, TenCandidates DEF Wasapi!Probe
  <2>2. cpc' \in {"probe", "init", "failed"} /\ result' \in {"none", "ok", "error"}
    BY <1>5 DEF Wasapi!Probe
  <2> QED
    BY <1>3, <1>5, <2>1, <2>2 DEF Wasapi!Probe
<1>6. CASE Wasapi!Initialize
  BY <1>3, <1>6 DEF Wasapi!Initialize
<1>7. CASE Wasapi!Setup
  BY <1>3, <1>7 DEF Wasapi!Setup
<1>8. CASE Wasapi!Publish
  BY <1>3, <1>8, ReadBack DEF Wasapi!Publish
<1>9. CASE Wasapi!Start
  <2>1. CASE cpc' = "wait"
    BY <1>3, <1>9, <2>1 DEF Wasapi!Start
  <2>2. CASE cpc' # "wait"
    BY <1>3, <1>9, <2>2 DEF Wasapi!Start
  <2> QED
    BY <2>1, <2>2
<1> QED
  BY <1>4, <1>5, <1>6, <1>7, <1>8, <1>9

(* The steps of capture_loop and of its end.                                 *)
LEMMA WasapiCaptures ==
  ASSUME WasapiInv,
         \/ Wasapi!WaitSignalled \/ Wasapi!WaitTimeout \/ Wasapi!GetBuffer
         \/ Wasapi!Push \/ Wasapi!Release \/ Wasapi!Teardown
  PROVE  WasapiInv'
<1> USE DEF WasapiInv, Wasapi!TypeOK, Wasapi!NoneStranded, Loop, Started,
            Wasapi!device, Wasapi!client
<1>1. CASE Wasapi!WaitSignalled
  BY <1>1 DEF Wasapi!WaitSignalled
<1>2. CASE Wasapi!WaitTimeout
  BY <1>2 DEF Wasapi!WaitTimeout
<1>3. CASE Wasapi!GetBuffer
  BY <1>3 DEF Wasapi!GetBuffer
<1>4. CASE Wasapi!Push
  <2>1. Stream(0, queue, arrived, pushed)
    BY <1>4 DEF Wasapi!Push
  <2>2. pushed' \in Seq(Wasapi!Packets) /\ Stream(1, queue, arrived, pushed)'
    BY <1>4, <2>1, Pushes DEF Wasapi!Push
  <2> QED
    BY <1>4, <2>2 DEF Wasapi!Push
<1>5. CASE Wasapi!Release
  <2>1. Stream(1, queue, arrived, pushed)
    BY <1>5 DEF Wasapi!Release
  <2>2. CASE cpc' = "get"
    <3>1. queue' = Tail(queue) /\ UNCHANGED <<arrived, pushed>>
      BY <1>5, <2>2 DEF Wasapi!Release
    <3>2. /\ Tail(queue) \in Seq(Wasapi!Packets) /\ Len(Tail(queue)) = Len(queue) - 1
          /\ Stream(0, Tail(queue), arrived, pushed)
      BY <2>1, Releases
    <3>3. Len(queue') <= Buffers /\ queue' \in Seq(Wasapi!Packets)
      BY <3>1, <3>2, ChoicesAndBounds
    <3>4. Stream(0, queue, arrived, pushed)'
      BY <3>1, <3>2
    <3> QED
      BY <1>5, <2>2, <3>3, <3>4 DEF Wasapi!Release
  <2>3. CASE cpc' # "get"
    BY <1>5, <2>1, <2>3 DEF Wasapi!Release
  <2> QED
    BY <2>2, <2>3
<1>6. CASE Wasapi!Teardown
  BY <1>6 DEF Wasapi!Teardown
<1> QED
  BY <1>1, <1>2, <1>3, <1>4, <1>5, <1>6

(* The device: it captures only while it is started, and sets its event.     *)
LEMMA DeviceStep ==
  ASSUME WasapiInv, (\E silent \in BOOLEAN : Wasapi!Capture(silent)) \/ Wasapi!Unplug
  PROVE  WasapiInv'
<1> USE DEF WasapiInv, Wasapi!TypeOK, Wasapi!NoneStranded, Loop, Started, Wasapi!client
<1>1. ASSUME NEW silent \in BOOLEAN, Wasapi!Capture(silent)
      PROVE  WasapiInv'
  <2>1. captured' \in 1 .. MaxPackets
    BY <1>1, ChoicesAndBounds DEF Wasapi!Capture
  <2> DEFINE packet == [n |-> captured', silent |-> silent]
  <2>2. packet \in Wasapi!Packets
    BY <2>1 DEF Wasapi!Packets
  <2>6. /\ queue \in Seq(Wasapi!Packets) /\ arrived \in Seq(Wasapi!Packets)
        /\ pushed \in Seq(Wasapi!Packets)
    OBVIOUS
  <2>3. PICK d \in 0 .. 1 : /\ cpc = "release" => d = 1
                            /\ cpc \in {"wait", "get", "push"} => d = 0
                            /\ Stream(d, queue, arrived, pushed)
    OBVIOUS
  <2>4. CASE Len(queue) < Buffers
    <3>1. queue' = Append(queue, packet) /\ arrived' = Append(arrived, packet)
      BY <1>1, <2>4 DEF Wasapi!Capture
    <3> HIDE DEF packet
    <3>2. queue' \in Seq(Wasapi!Packets) /\ arrived' \in Seq(Wasapi!Packets)
      BY <2>2, <3>1
    <3>3. Len(queue') = Len(queue) + 1 /\ queue' # <<>>
      BY <2>2, <3>1
    <3>4. Stream(d, queue', arrived', pushed)
      BY ONLY <2>2, <2>3, <2>6, <3>1, Arrives
    <3>5. Len(queue') <= Buffers
      BY <2>4, <3>3, ChoicesAndBounds
    <3> QED
      BY <1>1, <2>1, <2>3, <3>2, <3>3, <3>4, <3>5 DEF Wasapi!Capture
  <2>5. CASE ~ (Len(queue) < Buffers)
    BY <1>1, <2>1, <2>3, <2>5 DEF Wasapi!Capture
  <2> QED
    BY <2>4, <2>5
<1>2. CASE Wasapi!Unplug
  <2>1. /\ alive' = FALSE
        /\ UNCHANGED <<accepted, aligned, running, event, queue, captured, arrived,
                       Wasapi!client, format, pushed>>
    BY <1>2 DEF Wasapi!Unplug
  <2>2. Wasapi!TypeOK' /\ Wasapi!NoneStranded'
    BY <2>1
  <2>3. /\ running' <=> cpc' \in Loop
        /\ cpc' = "push" => queue' # <<>>
        /\ cpc' \in Started \cup {"start"} => format' = {Wasapi!Delivers(Wasapi!BaseOf(cand'))}
        /\ cpc' \notin Started => /\ captured' = 0 /\ queue' = <<>>
                                 /\ arrived' = <<>> /\ pushed' = <<>>
    BY <2>1
  <2> QED
    BY <2>1, <2>2, <2>3
<1> QED
  BY <1>1, <1>2

LEMMA WasapiStep ==
  ASSUME WasapiInv, Wasapi!Client
  PROVE  WasapiInv'
  BY WasapiSetsUp, WasapiCaptures DEF Wasapi!Client

-----------------------------------------------------------------------------
(* THE CAPTURE THROUGH DIRECTSHOW                                            *)

SoundFound   == format = Ds!AudioFound /\ format # {}
PictureFound == /\ geometry = Ds!VideoFound /\ geometry # {}
                /\ \A vf \in geometry : Ds!HasRoom(vf)

(* The callbacks are set only after what they push is described, which stays *)
(* so; the graph runs only at the end, with the card's video rendered.       *)
DsInv ==
  /\ Ds!TypeOK
  /\ graph # "stopped" => dpc = "sleep"
  /\ acb => dpc \in {"run", "sleep", "failed"} /\ SoundFound
  /\ dpc = "acallback" => SoundFound
  /\ vcb => dpc \in {"sound", "acallback", "run", "sleep", "failed"} /\ PictureFound
  /\ dpc = "vcallback" => PictureFound
  /\ sounds > 0 => acb
  /\ frames > 0 => vcb
  /\ dpc \in {"geometry", "vcallback"} => picture = "grabber"
  /\ dpc \in {"sound", "acallback", "run", "sleep"} /\ source => picture # "none"

(* What is read out of a video connection is a geometry.                     *)
LEMMA GeometryRead ==
  ASSUME NEW t \in VideoMedia
  PROVE  Ds!ParseVideoFormat(t) \subseteq Ds!VideoFormats
<1> DEFINE bih == t.block
<1>1. /\ bih.width \in Int /\ bih.height \in Int /\ bih.bit_count \in Nat
      /\ bih.fourcc \in Nat /\ bih.size_image \in Nat
  BY DEF VideoMedia
<1> DEFINE size == Ds!FrameSize(bih)
           w    == Ds!Abs(bih.width)
           h    == Ds!Abs(bih.height)
<1>2. w \in Nat /\ h \in Nat /\ (bih.height # 0 => h > 0)
  BY <1>1 DEF Ds!Abs
<1>3. \A a, b \in Nat : Ds!SatMul(a, b) \in Nat
  BY MaxU32IsNatural DEF Ds!SatMul
<1>4. size \in Nat
  <2>1. Ds!SatMul(Ds!SatMul(w, h), bih.bit_count) \in Nat
    BY <1>1, <1>2, <1>3
  <2>2. Ds!SatMul(Ds!SatMul(w, h), bih.bit_count) \div 8 \in Nat
    BY <2>1
  <2> QED
    BY <1>1, <2>2 DEF Ds!FrameSize
<1>5. h > 0 => size \div h \in Nat
  BY <1>2, <1>4
<1> HIDE DEF size, w, h
<1>6. CASE bih.height # 0 /\ size # 0
  <2>1. [width |-> w, height |-> h, stride |-> size \div h, fourcc |-> bih.fourcc,
         frame_size |-> size] \in Ds!VideoFormats
    BY <1>1, <1>2, <1>4, <1>5, <1>6 DEF Ds!VideoFormats
  <2> QED
    BY <2>1 DEF Ds!ParseVideoFormat, size, w, h
<1>7. CASE ~ (bih.height # 0 /\ size # 0)
  BY <1>7 DEF Ds!ParseVideoFormat, size
<1> QED
  BY <1>6, <1>7

(* What is read out of an audio connection is an audio format.               *)
LEMMA FormatRead ==
  ASSUME NEW t \in AudioMedia
  PROVE  Ds!ParseWfx(t) \subseteq Wasapi!AudioFormats
<1>1. t.block.rate \in Nat /\ t.block.channels \in Nat /\ t.block.block \in Nat
  BY DEF AudioMedia, WaveFormats
<1>2. Ds!SampleFormats = Wasapi!SampleFormats
  BY DEF Ds!SampleFormats, Wasapi!SampleFormats, Ds!S16Le, Ds!S32Le, Ds!F32Le,
         Wasapi!S16Le, Wasapi!S32Le, Wasapi!F32Le
<1>3. Ds!ParseAudioFormat(t.block) \subseteq Wasapi!AudioFormats
  BY <1>1, <1>2 DEF Ds!ParseAudioFormat, Wasapi!AudioFormats
<1> QED
  BY <1>3 DEF Ds!ParseWfx

LEMMA Found ==
  ASSUME DsInv
  PROVE  Ds!AudioFound \subseteq Wasapi!AudioFormats /\ Ds!VideoFound \subseteq Ds!VideoFormats
<1>1. atype \subseteq AudioMedia /\ vtype \subseteq VideoMedia
  BY ConnectionsAreMedia DEF DsInv, Ds!TypeOK
<1> QED
  BY <1>1, FormatRead, GeometryRead DEF Ds!AudioFound, Ds!VideoFound

LEMMA DsInit == Ds!Init => DsInv
<1> SUFFICES ASSUME Ds!Init PROVE DsInv
  OBVIOUS
<1>1. 0 \in 0 .. MaxBuffers
  BY ChoicesAndBounds
<1>2. faults \subseteq Ds!Calls
  BY DEF Ds!Init
<1>3. Ds!TypeOK
  BY <1>1, <1>2 DEF Ds!Init, Ds!TypeOK
<1> QED
  BY <1>3 DEF Ds!Init, DsInv

(* Up to the branch: no callback is set and no format is read.               *)
LEMMA DsWires ==
  ASSUME DsInv,
         \/ Ds!OpenGraph \/ Ds!FindVideo \/ Ds!AddGrabber \/ Ds!RouteSound \/ Ds!Fallback
         \/ Ds!Branch \/ Ds!GrabVideo \/ Ds!RenderVideo
  PROVE  DsInv' /\ UNCHANGED format
<1> USE DEF DsInv, Ds!TypeOK, Ds!After, Ds!options, Ds!wiring, Ds!headers, Ds!rings
<1>1. CASE Ds!OpenGraph
  BY <1>1 DEF Ds!OpenGraph
<1>2. CASE Ds!FindVideo
  BY <1>2 DEF Ds!FindVideo, Ds!Works
<1>3. CASE Ds!AddGrabber
  BY <1>3 DEF Ds!AddGrabber
<1>4. CASE Ds!RouteSound
  BY <1>4 DEF Ds!RouteSound, Ds!Works
<1>5. CASE Ds!Fallback
  BY <1>5 DEF Ds!Fallback, Ds!Works
<1>6. CASE Ds!Branch
  BY <1>6 DEF Ds!Branch
<1>7. CASE Ds!GrabVideo
  BY <1>7 DEF Ds!GrabVideo
<1>8. CASE Ds!RenderVideo
  BY <1>8 DEF Ds!RenderVideo
<1> QED
  BY <1>1, <1>2, <1>3, <1>4, <1>5, <1>6, <1>7, <1>8

(* The formats are read and published, the callbacks set, the graph started. *)
LEMMA DsPublishes ==
  ASSUME DsInv,
         \/ Ds!PublishGeometry \/ Ds!SetVideoCallback \/ Ds!PublishFormat
         \/ Ds!SetCallback \/ Ds!Run
  PROVE  DsInv'
<1> USE DEF DsInv, Ds!TypeOK, Ds!After, Ds!options, Ds!wiring, Ds!headers, Ds!rings
<1>0. UNCHANGED <<atype, vtype>>
  BY DEF Ds!PublishGeometry, Ds!SetVideoCallback, Ds!PublishFormat, Ds!SetCallback, Ds!Run
<1>1. Ds!AudioFound' = Ds!AudioFound /\ Ds!VideoFound' = Ds!VideoFound
  BY <1>0 DEF Ds!AudioFound, Ds!VideoFound
<1>2. CASE Ds!PublishGeometry
  <2> DEFINE fits == \A vf \in Ds!VideoFound : Ds!HasRoom(vf)
  <2>1. CASE dpc' = "vcallback"
    <3>1. geometry' = Ds!VideoFound /\ Ds!VideoFound # {} /\ fits
      BY <1>2, <2>1 DEF Ds!PublishGeometry
    <3>2. PictureFound'
      BY <1>1, <3>1 DEF PictureFound
    <3>3. geometry' \subseteq Ds!VideoFormats
      BY <3>1, Found
    <3> QED
      BY <1>2, <2>1, <3>2, <3>3 DEF Ds!PublishGeometry
  <2>2. CASE dpc' # "vcallback"
    <3>1. dpc' \in {"sound", "failed"} /\ geometry' = geometry
      BY <1>2, <2>2 DEF Ds!PublishGeometry
    <3>2. PictureFound' <=> PictureFound
      BY <1>1, <3>1 DEF PictureFound
    <3>3. ~ acb /\ ~ vcb
      BY <1>2 DEF Ds!PublishGeometry
    <3> QED
      BY <1>2, <3>1, <3>2, <3>3 DEF Ds!PublishGeometry
  <2> QED
    BY <2>1, <2>2
<1>3. CASE Ds!SetVideoCallback
  <2>1. PictureFound' <=> PictureFound
    BY <1>1, <1>3 DEF PictureFound, Ds!SetVideoCallback
  <2>2. vcb' \in BOOLEAN /\ (vcb' => dpc' = "sound") /\ dpc' \in {"sound", "failed"}
    BY <1>3 DEF Ds!SetVideoCallback, Ds!Works
  <2> QED
    BY <1>3, <2>1, <2>2 DEF Ds!SetVideoCallback
<1>4. CASE Ds!PublishFormat
  <2>1. PictureFound' <=> PictureFound
    BY <1>1, <1>4 DEF PictureFound, Ds!PublishFormat
  <2>2. ~ acb
    BY <1>4 DEF Ds!PublishFormat
  <2>3. CASE dpc' = "acallback"
    <3>1. format' = Ds!AudioFound /\ Ds!AudioFound # {}
      BY <1>4, <2>3 DEF Ds!PublishFormat
    <3>2. SoundFound'
      BY <1>1, <3>1 DEF SoundFound
    <3> QED
      BY <1>4, <2>1, <2>2, <2>3, <3>2 DEF Ds!PublishFormat
  <2>4. CASE dpc' # "acallback"
    <3>1. dpc' = "failed"
      BY <1>4, <2>4 DEF Ds!PublishFormat
    <3> QED
      BY <1>4, <2>1, <2>2, <3>1 DEF Ds!PublishFormat
  <2> QED
    BY <2>3, <2>4
<1>5. CASE Ds!SetCallback
  <2>1. (PictureFound' <=> PictureFound) /\ (SoundFound' <=> SoundFound)
    BY <1>1, <1>5 DEF PictureFound, SoundFound, Ds!SetCallback
  <2>2. acb' \in BOOLEAN /\ (acb' => dpc' = "run") /\ dpc' \in {"run", "failed"}
    BY <1>5 DEF Ds!SetCallback, Ds!Works
  <2> QED
    BY <1>5, <2>1, <2>2 DEF Ds!SetCallback
<1>6. CASE Ds!Run
  <2>1. (PictureFound' <=> PictureFound) /\ (SoundFound' <=> SoundFound)
    BY <1>1, <1>6 DEF PictureFound, SoundFound, Ds!Run
  <2>2. /\ graph' \in {"stopped", "running"} /\ dpc' \in {"sleep", "failed"}
        /\ graph' # "stopped" => dpc' = "sleep"
    BY <1>6 DEF Ds!Run, Ds!Works
  <2> QED
    BY <1>6, <2>1, <2>2 DEF Ds!Run
<1> QED
  BY <1>2, <1>3, <1>4, <1>5, <1>6

LEMMA DsStep ==
  ASSUME DsInv, Ds!Client
  PROVE  DsInv' /\ (format' = format \/ format' = Ds!AudioFound)
<1>1. DsInv'
  BY DsWires, DsPublishes DEF Ds!Client
<1>2. format' = format \/ format' = Ds!AudioFound
  BY DsWires
  DEF Ds!Client, Ds!PublishGeometry, Ds!SetVideoCallback, Ds!PublishFormat, Ds!SetCallback,
      Ds!Run, Ds!headers
<1> QED
  BY <1>1, <1>2

LEMMA GraphStep ==
  ASSUME DsInv, Ds!Graph
  PROVE  DsInv' /\ UNCHANGED <<dpc, passthrough, keepalive, faults, format>>
<1> USE DEF DsInv, Ds!TypeOK, Ds!options, Ds!wiring, Ds!headers, Ds!rings
<1>0. UNCHANGED <<atype, vtype, format, geometry, dpc, passthrough, keepalive, faults>>
  BY DEF Ds!Graph, Ds!Sound, Ds!Frame, Ds!Halt
<1>1. Ds!AudioFound' = Ds!AudioFound /\ Ds!VideoFound' = Ds!VideoFound
  BY <1>0 DEF Ds!AudioFound, Ds!VideoFound
<1>2. (PictureFound' <=> PictureFound) /\ (SoundFound' <=> SoundFound)
  BY <1>0, <1>1 DEF PictureFound, SoundFound
<1>3. CASE Ds!Sound
  <2>1. sounds' \in 0 .. MaxBuffers
    BY <1>3, ChoicesAndBounds DEF Ds!Sound
  <2> QED
    BY <1>2, <1>3, <2>1 DEF Ds!Sound
<1>4. CASE Ds!Frame
  <2>1. frames' \in 0 .. MaxBuffers
    BY <1>4, ChoicesAndBounds DEF Ds!Frame
  <2> QED
    BY <1>2, <1>4, <2>1 DEF Ds!Frame
<1>5. CASE Ds!Halt
  BY <1>2, <1>5 DEF Ds!Halt
<1> QED
  BY <1>0, <1>3, <1>4, <1>5 DEF Ds!Graph

-----------------------------------------------------------------------------
(* THE PROGRAM                                                               *)

(* Where run is, and where the parts are then: only one of the captures is   *)
(* ever begun, the region is mapped while one goes on, and the keep-alive is *)
(* shut down only after the capture has ended.                               *)
Linked ==
  /\ pc \in {"map", "attach", "video", "wasapi", "dshow", "exit"} /\ dsaudio \in BOOLEAN
  /\ pc = "map" <=> rpc \notin {"mapped", "dropped", "failed"}
  /\ pc \in {"attach", "video", "wasapi", "dshow"} <=> rpc = "mapped"
  /\ mpc # "start" => pc \in {"wasapi", "exit"}
  /\ mpc \in {"join", "exit"} => cpc \in {"stopped", "failed"}
  /\ cpc # "open" => pc \in {"wasapi", "exit"}
  /\ cpc \in Loop => pc = "wasapi"
  /\ dpc \notin {"open", "failed"} => pc = "dshow"
  /\ dpc # "open" => pc \in {"dshow", "exit"}
  /\ dsaudio => cpc = "open" /\ pc # "wasapi"
  /\ ~ dsaudio => dpc = "open" /\ pc \notin {"video", "dshow"}

IInv == RegionInv /\ KeepInv /\ WasapiInv /\ DsInv /\ Linked

(* What a part's invariant needs of the steps of the others.                 *)
LEMMA RegionStays == RegionInv /\ UNCHANGED region => RegionInv'
  BY DEF RegionInv, Region!TypeOK, region

LEMMA KeepStays == KeepInv /\ UNCHANGED keep => KeepInv'
  BY DEF KeepInv, Keep!TypeOK, keep

LEMMA WasapiStays ==
  ASSUME WasapiInv, UNCHANGED wasapi,
         format' = format \/ (cpc = "open" /\ format' \subseteq Wasapi!AudioFormats)
  PROVE  WasapiInv'
<1>1. CASE format' = format
  BY <1>1 DEF WasapiInv, Wasapi!TypeOK, Wasapi!NoneStranded, wasapi
<1>2. CASE cpc = "open" /\ format' \subseteq Wasapi!AudioFormats
  <2>1. cpc \notin Started \cup {"start"}
    BY <1>2 DEF Started, Loop
  <2> QED
    BY <1>2, <2>1 DEF WasapiInv, Wasapi!TypeOK, Wasapi!NoneStranded, wasapi
<1> QED
  BY <1>1, <1>2

LEMMA DsStays ==
  ASSUME DsInv, UNCHANGED ds, format' = format \/ dpc = "open"
  PROVE  DsInv'
<1>1. Ds!AudioFound' = Ds!AudioFound /\ PictureFound' = PictureFound
  BY DEF Ds!AudioFound, Ds!VideoFound, PictureFound, ds
<1>2. CASE format' = format
  BY <1>1, <1>2 DEF DsInv, Ds!TypeOK, SoundFound, ds
<1>3. CASE dpc = "open"
  BY <1>1, <1>3 DEF DsInv, Ds!TypeOK, ds
<1> QED
  BY <1>2, <1>3

LEMMA InitIInv == Init => IInv
<1> SUFFICES ASSUME Init PROVE IInv
  OBVIOUS
<1>1. RegionInv /\ KeepInv /\ DsInv
  BY RegionInit, KeepInit, DsInit DEF Init
<1>2. WasapiInv
  BY WasapiInit DEF Init, Wasapi!Init
<1>3. Linked
  BY DEF Init, Region!Init, Keep!Init, Wasapi!Init, Ds!Init, Linked, Loop
<1> QED
  BY <1>1, <1>2, <1>3 DEF IInv

(* run's own steps.                                                          *)
LEMMA MapRegionStep == IInv /\ MapRegion => IInv'
<1> SUFFICES ASSUME IInv, MapRegion PROVE IInv'
  OBVIOUS
<1>1. RegionInv'
  BY RegionStep DEF IInv, MapRegion
<1>2. KeepInv' /\ WasapiInv' /\ DsInv'
  BY KeepStays, WasapiStays, DsStays DEF IInv, MapRegion
<1>3. Linked'
  <2>1. rpc' # "dropped"
    BY DEF MapRegion, Region!Map, Region!GetClassDevs, Region!Find, Region!Open, Region!Request
  <2>2. pc' = CASE rpc' = "mapped" -> "attach" [] rpc' = "failed" -> "exit" [] OTHER -> "map"
    BY DEF MapRegion
  <2>3. /\ rpc' = "mapped" => pc' = "attach"
        /\ rpc' = "failed" => pc' = "exit"
        /\ rpc' \notin {"mapped", "failed"} => pc' = "map"
    BY <2>2
  <2> QED
    BY <2>1, <2>3 DEF IInv, MapRegion, Linked, keep, wasapi, ds
<1> QED
  BY <1>1, <1>2, <1>3 DEF IInv

LEMMA AttachStep == IInv /\ (Attach \/ AttachVideo) => IInv'
<1> SUFFICES ASSUME IInv, Attach \/ AttachVideo PROVE IInv'
  OBVIOUS
<1>1. RegionInv' /\ KeepInv' /\ WasapiInv'
  BY RegionStays, KeepStays, WasapiStays DEF IInv, Attach, AttachVideo
<1>2. CASE Attach
  <2>1. DsInv'
    BY <1>2, DsStays DEF IInv, Attach
  <2>2. Linked'
    BY <1>2 DEF IInv, Attach, Linked, region, keep, wasapi, ds
  <2> QED
    BY <1>1, <2>1, <2>2 DEF IInv
<1>3. CASE AttachVideo
  <2>1. passthrough' \in BOOLEAN
    BY <1>3 DEF IInv, AttachVideo, DsInv, Ds!TypeOK
  <2>2. Ds!AudioFound' = Ds!AudioFound /\ Ds!VideoFound' = Ds!VideoFound
    BY <1>3 DEF AttachVideo, Ds!AudioFound, Ds!VideoFound
  <2>3. DsInv'
    BY <1>3, <2>1, <2>2 DEF IInv, AttachVideo, DsInv, Ds!TypeOK, SoundFound, PictureFound
  <2>4. Linked'
    BY <1>3 DEF IInv, AttachVideo, Linked, region, keep, wasapi
  <2> QED
    BY <1>1, <2>3, <2>4 DEF IInv
<1> QED
  BY <1>2, <1>3

LEMMA RunWasapiStep == IInv /\ RunWasapi => IInv'
<1> SUFFICES ASSUME IInv, RunWasapi PROVE IInv'
  OBVIOUS
<1>1. RegionInv' /\ DsInv'
  BY RegionStays, DsStays DEF IInv, RunWasapi, Linked
<1>2. CASE (Keep!Main \/ NoKeepAlive \/ (cpc \in {"stopped", "failed"} /\ Keep!CaptureEnds))
           /\ UNCHANGED <<wasapi, format>>
  <2>1. KeepInv' /\ WasapiInv'
    BY <1>2, KeepStep, WasapiStays DEF IInv
  <2>2. mpc' \in {"join", "exit"} => cpc \in {"stopped", "failed"}
    BY <1>2 DEF IInv, Linked, NoKeepAlive, Keep!Main, Keep!Spawn, Keep!Recv, Keep!JoinFailed,
                Keep!Join, Keep!CaptureEnds
  <2>3. Linked'
    BY <1>2, <2>2 DEF IInv, RunWasapi, Linked, region, wasapi, ds
  <2> QED
    BY <1>1, <2>1, <2>3 DEF IInv
<1>3. CASE mpc \in {"capture", "capturealone"} /\ Wasapi!Client /\ UNCHANGED keep
  <2>1. KeepInv' /\ WasapiInv'
    BY <1>3, KeepStays, WasapiStep DEF IInv
  <2>2. Linked'
    BY <1>3 DEF IInv, RunWasapi, Linked, region, keep, ds
  <2> QED
    BY <1>1, <2>1, <2>2 DEF IInv
<1> QED
  BY <1>2, <1>3 DEF RunWasapi

LEMMA RunDsStep == IInv /\ RunDs => IInv'
<1> SUFFICES ASSUME IInv, RunDs PROVE IInv'
  OBVIOUS
<1>1. DsInv' /\ (format' = format \/ format' = Ds!AudioFound)
  BY DsStep DEF IInv, RunDs
<1>2. dsaudio /\ cpc = "open"
  BY DEF IInv, RunDs, Linked
<1>3. Ds!AudioFound \subseteq Wasapi!AudioFormats
  BY Found DEF IInv
<1>4. WasapiInv'
  BY <1>1, <1>2, <1>3, WasapiStays DEF IInv, RunDs
<1>5. RegionInv' /\ KeepInv'
  BY RegionStays, KeepStays DEF IInv, RunDs
<1>6. Linked'
  BY <1>2 DEF IInv, RunDs, Linked, region, keep, wasapi
<1> QED
  BY <1>1, <1>4, <1>5, <1>6 DEF IInv

LEMMA ReturnStep == IInv /\ Return => IInv'
<1> SUFFICES ASSUME IInv, Return PROVE IInv'
  OBVIOUS
<1>1. RegionInv' /\ KeepInv' /\ WasapiInv' /\ DsInv'
  BY RegionStep, KeepStays, WasapiStays, DsStays DEF IInv, Return
<1>2. Linked'
  BY DEF IInv, Return, Linked, Region!Drop, keep, wasapi, ds, Loop
<1> QED
  BY <1>1, <1>2 DEF IInv

(* The worker and the card.                                                  *)
LEMMA WorkerStep == IInv /\ Worker => IInv'
<1> SUFFICES ASSUME IInv, Worker PROVE IInv'
  OBVIOUS
<1>1. RegionInv' /\ KeepInv' /\ WasapiInv' /\ DsInv'
  BY RegionStays, KeepStep, WasapiStays, DsStays DEF IInv, Worker
<1>2. mpc' = mpc
  BY DEF Worker, Keep!Worker, Keep!OpenGraph, Keep!ReadFlag, Keep!Poll, Keep!Restart,
         Keep!StopGraph
<1>3. Linked'
  BY <1>2 DEF IInv, Worker, Linked, region, wasapi, ds
<1> QED
  BY <1>1, <1>3 DEF IInv

LEMMA CardStep == IInv /\ Card => IInv'
<1> SUFFICES ASSUME IInv, Card PROVE IInv'
  OBVIOUS
<1>1. RegionInv'
  BY RegionStays DEF IInv, Card
<1>2. CASE Keep!Graph /\ UNCHANGED <<wasapi, ds, format>>
  <2>1. KeepInv' /\ WasapiInv' /\ DsInv'
    BY <1>2, KeepStep, WasapiStays, DsStays DEF IInv
  <2>2. mpc' = mpc
    BY <1>2 DEF Keep!Graph, Keep!Halt, Keep!Notify
  <2>3. Linked'
    BY <1>2, <2>2 DEF IInv, Card, Linked, region, wasapi, ds
  <2> QED
    BY <1>1, <2>1, <2>3 DEF IInv
<1>3. CASE ((\E silent \in BOOLEAN : Wasapi!Capture(silent)) \/ Wasapi!Unplug)
           /\ UNCHANGED <<keep, ds>>
  <2>1. cpc' = cpc /\ format' = format
    BY <1>3 DEF Wasapi!Capture, Wasapi!Unplug, Wasapi!client
  <2>2. KeepInv' /\ WasapiInv' /\ DsInv'
    BY <1>3, <2>1, KeepStays, DeviceStep, DsStays DEF IInv
  <2>3. Linked'
    BY <1>3, <2>1 DEF IInv, Card, Linked, region, keep, ds
  <2> QED
    BY <1>1, <2>2, <2>3 DEF IInv
<1>4. CASE Ds!Graph /\ UNCHANGED <<keep, wasapi>>
  <2>1. DsInv' /\ dpc' = dpc /\ format' = format
    BY <1>4, GraphStep DEF IInv
  <2>2. KeepInv' /\ WasapiInv'
    BY <1>4, <2>1, KeepStays, WasapiStays DEF IInv
  <2>3. Linked'
    BY <1>4, <2>1 DEF IInv, Card, Linked, region, keep, wasapi
  <2> QED
    BY <1>1, <2>1, <2>2, <2>3 DEF IInv
<1> QED
  BY <1>2, <1>3, <1>4 DEF Card

LEMMA Inductive == IInv /\ [Next]_vars => IInv'
<1> SUFFICES ASSUME IInv, [Next]_vars PROVE IInv'
  OBVIOUS
<1>1. CASE UNCHANGED vars
  <2>1. RegionInv' /\ KeepInv' /\ WasapiInv' /\ DsInv'
    BY <1>1, RegionStays, KeepStays, WasapiStays, DsStays DEF IInv, vars
  <2>2. Linked'
    BY <1>1 DEF IInv, Linked, vars, region, keep, wasapi, ds
  <2> QED
    BY <2>1, <2>2 DEF IInv
<1> QED
  BY <1>1, MapRegionStep, AttachStep, RunWasapiStep, RunDsStep, ReturnStep, WorkerStep, CardStep
  DEF Next, Main

LEMMA Always == Spec => []IInv
  BY InitIInv, Inductive, PTL DEF Spec

-----------------------------------------------------------------------------
(* The types of run and of all that it calls.                                *)
THEOREM ProgramTypeCorrect == Spec => []TypeOK
<1>1. IInv => TypeOK
  BY DEF IInv, RegionInv, KeepInv, WasapiInv, DsInv, Linked, TypeOK
<1> QED
  BY <1>1, Always, PTL

(***************************************************************************)
(* The timeline stays continuous: what capture_loop has pushed is the        *)
(* beginning of what the device had room for, and the rest is still held by  *)
(* the device - for any number of packets, of buffers and of failures.       *)
(***************************************************************************)
THEOREM SoundInOrder == Spec => []Continuous
<1>1. ASSUME WasapiInv PROVE Continuous
  <2> DEFINE S == Wasapi!Packets
  <2>1. PICK d \in 0 .. 1 : Stream(d, queue, arrived, pushed)
    BY <1>1 DEF WasapiInv
  <2>2. queue \in Seq(S) /\ arrived \in Seq(S) /\ pushed \in Seq(S)
    BY <1>1 DEF WasapiInv, Wasapi!TypeOK
  <2>3. Len(queue) \in Nat /\ Len(arrived) \in Nat /\ Len(pushed) \in Nat
    BY <2>2
  <2>4. Len(pushed) <= Len(arrived) /\ Len(arrived) <= Len(pushed) + Len(queue)
    BY <2>1, <2>3 DEF Stream
  <2>5. SubSeq(pushed, 1, Len(pushed)) = SubSeq(arrived, 1, Len(pushed))
    <3> DEFINE l == Len(pushed)
               s == SubSeq(pushed, 1, l)
               t == SubSeq(arrived, 1, l)
    <3>1. /\ \A i \in 1 .. l : pushed[i] = arrived[i]
          /\ \A i \in 1 .. l : pushed[i] \in S /\ arrived[i] \in S
      BY <2>1, <2>2, <2>4 DEF Stream
    <3> HIDE DEF l, S
    <3>2. l \in Nat
      BY <2>3 DEF l
    <3>3. s \in Seq(S) /\ Len(s) = l /\ \A i \in 1 .. l : s[i] = pushed[i]
      BY <3>1, <3>2, SubSeqProperties
    <3>4. t \in Seq(S) /\ Len(t) = l /\ \A i \in 1 .. l : t[i] = arrived[i]
      BY <3>1, <3>2, SubSeqProperties
    <3> HIDE DEF s, t
    <3>5. s = t
      BY <3>1, <3>3, <3>4, SeqEqual
    <3> QED
      BY <3>5 DEF s, t, l
  <2> QED
    BY <2>4, <2>5 DEF Continuous, Wasapi!Continuous, Wasapi!IsPrefix
<1>2. IInv => Continuous
  BY <1>1 DEF IInv
<1> QED
  BY <1>2, Always, PTL

(* "Drain every queued packet before going back to wait".                    *)
THEOREM DrainsEverything == Spec => []NoneStranded
<1>1. IInv => NoneStranded
  BY DEF IInv, WasapiInv, NoneStranded
<1> QED
  BY <1>1, Always, PTL

(***************************************************************************)
(* Whatever the device accepts or the grabbers are connected with, nothing   *)
(* is pushed before the headers describe it.                                 *)
(***************************************************************************)
THEOREM DescribedFirst == Spec => []Described
<1>1. ASSUME IInv PROVE Described
  <2>1. Wasapi!FormatFirst
    BY <1>1 DEF IInv, WasapiInv, Wasapi!FormatFirst
  <2>2. Ds!Described
    BY <1>1 DEF IInv, DsInv, Ds!Described, SoundFound, PictureFound
  <2> QED
    BY <2>1, <2>2 DEF Described
<1> QED
  BY <1>1, Always, PTL

(* A card whose video is in the graph streams it while the graph runs.       *)
THEOREM CardStaysAwake == Spec => []CardAwake
<1>1. IInv => CardAwake
  BY DEF IInv, DsInv, CardAwake, Ds!CardAwake
<1> QED
  BY <1>1, Always, PTL

(***************************************************************************)
(* However run ends, nothing is left behind; and until then what is pushed   *)
(* goes into a region that is mapped.                                        *)
(***************************************************************************)
THEOREM NothingLeftBehind == Spec => []LeavesNothing
<1>1. ASSUME IInv PROVE LeavesNothing
  <2>1. Keep!LeavesNoGraph
    BY <1>1 DEF IInv, KeepInv, Keep!LeavesNoGraph
  <2>2. Wasapi!StopsDevice
    BY <1>1 DEF IInv, WasapiInv, Loop, Wasapi!StopsDevice
  <2>3. Region!LeavesNoList /\ Region!HoldsHandle
    BY <1>1 DEF IInv, RegionInv, Region!LeavesNoList, Region!HoldsHandle
  <2>4. pc = "exit" => rpc \in {"failed", "dropped"} /\ ~ running
    BY <1>1 DEF IInv, Linked, RegionInv, Region!TypeOK, WasapiInv, Loop
  <2>5. Pushing => handle
    BY <1>1 DEF IInv, Linked, RegionInv, DsInv, Pushing, Loop
  <2> QED
    BY <2>1, <2>2, <2>3, <2>4, <2>5 DEF LeavesNothing
<1> QED
  BY <1>1, Always, PTL

=============================================================================
