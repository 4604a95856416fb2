# Specifications of lalah

lalah carries a capture card's sound, and optionally its picture, out of a Windows
VM into its Linux host through one block of shared memory (IVSHMEM). This directory
holds TLA+ specifications of its concurrent parts, the TLC configurations that check
them on small instances, and proofs that TLAPS checks for every value of the
constants. Paths below are relative to the repository.

## The system

| Part | Source | State | Operations |
|---|---|---|---|
| audio ring | `packages/shared/src/lib.rs` `ShmAudioBuffer` | header (`magic`, `version`, `header_size`, `capacity`, format, `tail`, `seq`, `head`), payload; each side's cached `cap` | `init`, `attach`, `set_format`, `format`, `push_overwrite`, `read_quantum`, `pointers` |
| video ring | same, `ShmVideoBuffer` | header (geometry, `slot_count`, `frame_seq`, gate `frame_size`), slots; each side's cached geometry | `init`, `attach`, `set_geometry`, `refresh_geometry`, `push_frame`, `read_frame`, `frame_count` |
| host program | `lalah-host/src/main.rs` | mapping, ring handle | `run`: map, init, start the video thread, poll for the format, play |
| playback | `lalah-host/src/playback.rs` | `PlaybackState`, statistics counters | the PipeWire process callback, the statistics thread |
| video forwarding | `lalah-host/src/video.rs` | fifo, `last_count`, frame buffer | `run_video`, `write_frame` |
| VM program | `lalah-vm/src/main.rs` | mapping, ring handles | `run`: map, attach (retrying), keep-alive, capture |
| WASAPI capture | `lalah-vm/src/wasapi.rs` | audio client, event, format | `capture_exclusive`, `capture_loop` |
| keep-alive | `lalah-vm/src/video.rs` | stop flag, worker, channel, graph | `start`, `worker`, `keep_alive_loop`, `shutdown` |
| DirectShow capture | `lalah-vm/src/dshow.rs` | graph, callbacks with their ring | `capture_dshow_audio`, two `BufferCB`s |
| IVSHMEM mapping | `lalah-vm/src/ivshmem.rs` | device list, handle | `map_ivshmem`, `drop` |
| formats | `make_wfx`, `parse_audio_format`, `parse_wfx`, `parse_video_format` | none | pure functions |
| command lines | both `main.rs` | none that lasts | parsing, printing |

The two programs share nothing but the memory: no locks, no messages. The VM is the
only writer of `tail`, `seq`, the format and the geometry, the host of `head` and of
everything `init` stores. Inside the VM the keep-alive is a thread, joined at the end;
with DirectShow the audio and video callbacks run on threads of the graph. Inside the
host the PipeWire callback runs on a realtime thread and the video forwarding on a
thread of its own, with a named pipe to a player. What makes the system hard is
the shared memory (stores seen one by one by a reader that can be lapped), the order in
which two programs and a memory that outlives both come up, programs killed at any
point (Ctrl-C ends the DirectShow path), and the operating system's events and pipes.

What makes each part correct: reads are never torn, replayed, misaligned or late
(audio ring); frames are whole and of the agreed geometry (video ring); both sides agree
on ring and format and nobody waits for ever (start-up); frames reach the player whole, in
order, once, and the thread never sticks (forwarding); every packet is pushed once, in
order, after the format, and the program ends cleanly (capture and keep-alive).

## Modules

| Module | Models | Composes / implements |
|---|---|---|
| `AudioStream` | what the audio ring promises: atomic pushes and reads on a byte stream | |
| `AudioRing` | `push_overwrite` and `read_quantum`, store by store and load by load, with a VM that may be killed | implements `AudioStream` |
| `VideoSource` | what the video ring promises: whole frames, none older than `slots - 1` | |
| `VideoRing`, `MCVideoRing` | geometry and frames, word by word, with restarts of the VM | implements `VideoSource` |
| `Session`, `MCSession` | `init`, `attach`, `set_format`, `format` and the polling loops around them | |
| `VideoForward` | `run_video` and `write_frame` with the kernel's pipe and the players | uses the ring of `VideoSource`, implements its reader |
| `Playback` | PipeWire's process callback, its two counters, the thread that prints them | extends `AudioRing`, with kills |
| `Formats` | the wave and media types of Windows, the wire's formats, and the functions between them | |
| `Ivshmem`, `KeepAlive`, `WasapiCapture`, `DsCapture` | one component each, without a specification of their own | composed by `VmProgram` |
| `VmProgram`, `MCVmProgram` | `run` of the VM: mapping, attaching, keep-alive and both captures, with the worker thread and the card | extends `Formats` |
| `ModularArithmetic` | facts about `\div`, `%`, multiples and pieces, and induction along a set of numbers, for the proofs | |
| `AudioRingProofs`, `PlaybackProofs`, `VideoRingProofs`, `VideoForwardProofs`, `SessionProofs`, `FormatsProofs`, `VmProgramProofs` | theorems | |

How state corresponds to code:

- A byte of audio is named by its position in the stream, a word of video by
  `<<frame, index>>`. A cell of the shared memory therefore says whose data it holds, and
  "torn" is a statement about names. `Cap`, `Frame` etc. are bytes; in `VideoRing` memory is
  counted in words of the copy.
- Local variables of a function are variables of the module only between the first and
  the last step of the call; after it they are reset, so that states merge.
- Each action is what one side does between two accesses the other side can see.
  `PushBegin` is the trimming, the two relaxed loads of the producer's own fields and the store
  that makes `seq` odd; `ReadTail` the load of `tail` with the arithmetic that
  follows; `ReadRetry`/`ReadDone` the last load of `seq` with its branch.
- Both sides are x86_64, the VM running on the cores of the host:
  stores become visible in program order and loads are not reordered. Store buffers change
  nothing, because in each ring neither side loads, on the way that matters, what the other
  stores after a store of its own. The fences of the source are thus no steps. On a
  weaker memory model these specifications would have to be redone.
- In `VideoRing`, `width`, `height`, `stride` and `fourcc` are stored and loaded as one `shape`;
  nothing can come between them that the gate does not order.
- `Session` abstracts the counters, which `init` also zeroes (they are `AudioRing`'s), and keeps of the
  video header only its magic.
- In `VideoForward` a `read_frame` is two looks at the count, `Copy` and `Take`/`Torn`: that the copy
  between them is whole is `VideoRing`'s theorem. `run_video`'s next look at the count is `Handled`.
- The pipe of `VideoForward` is a queue of pages (`PageSize`), as Linux keeps it: a write puts the odd
  end of its length into the last page if it fits and fills new pages with the rest,
  until none is left. `FIONREAD` (`Queued`) counts bytes, which is what `write_frame` compares.
- `Playback` is the control of the callback around `AudioRing`'s read: `Pointers` is `pointers`, the
  comparison with the budget and the call; `Return` is `ReadDone` and the comparison with the window.
- In `Formats` an `Option` is a set of at most one element, and of a wave or media type only the fields that the code reads
  are there. The header a capture has published is such a set as well.
- The WASAPI device has a buffer of `Buffers` packets and an auto-reset event; `Unplug` makes
  every later call fail. Any set-up call, and any call of `map_ivshmem`, may fail at any time.
- In `DsCapture` the calls that fail are chosen in advance (`faults`), so that `SoundStarts` can say what
  follows from them; `atype` and `vtype` are what the grabbers turn out to be connected with. A ring is the
  number of buffers pushed: its contents are `AudioRing`'s and `VideoRing`'s.
- In `Session` sizes are bytes after the audio header; a size of 0 stands for a region that has no more than the header.
  `total` never changes, and is a variable so that one run has regions of all kinds.
- The attach loops of `VmProgram` are a step each; `Session` says when they end. Whether there is room for video is
  a choice there, and follows from the size in `Session`.
- A keep-alive that cannot be started (no thread, no device, a worker that panics before it reports, which only a debug build survives)
  leaves the capture to go on alone. The device may deliver in any state of the keep-alive's graph, as a plain endpoint
  does, and need not deliver in any, as a card without its video. A wait of the capture may fail at any time; to the loop that is the timeout.
- `SoundStarts` starts where the DirectShow capture does, after the attach loops.

Constants named as bounds (`MaxTail`, `MaxFrames`, `MaxCrashes`, `MaxRuns`, `MaxHostRuns`, `MaxVmRuns`,
`MaxPlayers`,
`MaxPackets`, `MaxHalts`, `MaxEvents`, `MaxFaults`, `MaxBuffers`) end the model, not the program.

## Runs

Passing runs:

| Run | Instance | Why it is large enough |
|---|---|---|
| `audio_ring` | ring 8, frame 2, pushes 2, 6, 10, windows 2, 4, latency 3, 12 bytes | pushes that wrap, that lap a reader inside its copy and that exceed the ring; windows that wrap; a latency that is not whole frames; a backlog below, at and above the budget |
| `playback` | ring 4, frame 2, pushes 2 and 6, slices of 3 and 4 bytes, latency 1, 6 bytes, one kill, two slips | a slice that is not whole frames; a kill in every control state of a push, with each parity of `seq` after it; both counters, in either order |
| `video_ring` | three formats: one fills its slot, one is padded, one does not fit; short samples; three slots | the writer laps the slot being copied; the recheck's boundary is met exactly |
| `video_ring_restart` | two starts of the VM, one format | a kill between any two stores, a read across the reset |
| `session` | fresh region, empty, no larger than the audio's part, with no room for a video header, or with room; one host, three VM starts, every combination of the video flags | each side first; a VM killed at every store; a host that ends before and after it has initialized the ring |
| `video_forward` | frames of two pages, a pipe of four pages, 3 or 4 slots, two players | the pipe has room for half a frame, a player quits inside a frame, and reads any number of bytes |
| `vm_program` | devices that accept nothing, the first format, a later one plain and extensible, and the last; a buffer of two packets, three packets; one halt; up to two calls that fail; four audio and four video media types | an overrun, several packets on one event, an unplug at every call, a halt at every point of the worker, a `Run` that works or fails, every pair of failures, a picture without room |

What they check, in words:

- **audio ring.** `NoTornRead`: a completed read filled the beginning of its caller's buffer with the bytes that end just
  before `head`, in whole frames and no more than the buffer holds, and the rest with silence. `NeverReplays`, `BoundedLatency`, `FrameAligned` as named.
  `ImplementsStream`: the ring is `AudioStream`; a push takes effect when it stores `tail`, a read when it
  last loads `seq`. `ReadReturns`: once pushes pause for good, a read ends. `Inv` is the invariant
  of the proof.
- **playback.** When the VM may be killed, alignment and order survive (`FrameAligned`, `NeverReplays`); freedom from tearing does
  not. `OverflowsAreSlips`: an overflow that the callback counts, from pointers it loads before the read does, is
  audio the read drops. `UnderflowsAreDrains`: a read that is counted as an underflow took all there was, and no
  callback counts both. `CountsPrinted`: every count reaches a printed line.
- **video ring.** `WholeFrames`, `GeometryAgrees`, `ImplementsSource`; with restarts `WholeInOneStream`:
  only a read that spans the reset of `frame_seq` can be torn.
- **start-up.** `InitAlone`: nobody is attached while `init` writes. `RingsAgree`, `FormatsAgree`: the two sides'
  cached values are equal. `StreamPlayed`: a stream that goes on with a host up gets played. `AttachEnds`:
  a VM whose host has what it asks for gets past its attach loops, each time it is started. Its premise leaves out a VM with
  `--video-passthrough` whose host has no `--video-fifo`: the code lets that one wait for ever, without sound.
- **forwarding.** `LooksInOrder` (the thread's looks at the count), `NeverTwice`, `WholeForTheFirst` (frames of
  whole pages reach the first player whole), `RoomIsShown` (a frame that comes to the check while the first player plays and that the pipe has room
  for, to the last byte, ends on its screen), `ComesToRest` (nothing is retried
  for ever), `ReadsSource` (the thread's reads are those the ring allows).
- **VM program.** `Continuous`: the packets that the device had room for reach the ring once and in order. `NoneStranded`: the loop never
  waits with a packet held and no event. `Described`: on either path nothing is pushed before the headers
  describe what the device was asked for, or the grabbers are connected with. `CardAwake`: a DirectShow graph with the card's video source
  in it renders its video. `LeavesNothing`: however `run` ends, worker, graph, device, device list and mapping are
  gone, and nothing is pushed into a region that is not mapped. `StallEnds`: the WASAPI path ends when the card delivers
  no more; a graph that halts and cannot be run again ends in the capture's timeout. `SoundStarts`: without other
  failures than the tolerated ones, DirectShow's sound starts, unless what the grabbers got cannot be read.

`CHECK_DEADLOCK` is off where the system stops: bounds reached, the program ended, a reader that spins for
a writer that was killed (its step is disabled while `seq` is odd).

### Fairness

- `AudioRing!FairSpec`: a push and a read that have begun go on (`WF` on the rest of each). The
  capture thread runs nothing else meanwhile, and PipeWire waits for its callback. Nothing makes the device
  deliver or PipeWire ask.
- `Session!Spec`: a program that is up takes its next step; both loops sleep and try again without end, and
  opening the device gives a format or an error. No one is made to start a program.
- `VideoForward!Spec`: the thread goes on; a player that plays goes on reading. The camera need not.
- `Playback!PlaybackSpec`: the statistics thread goes on; it only sleeps, loads and prints. Nothing else need move.
- `VmProgram!Spec`: the main thread and the worker go on. The card need not. A capture that waits is ended by its event or its timeout.

### Where the program differs from its documentation

Five runs end in a violation:

1. `audio_ring_inverted`. A VM killed inside `push_overwrite` leaves `seq` odd. The next program's first
   push makes it even while it writes, and odd when it is done: reads during that push look
   stable. They are torn, against README line 45 and `lib.rs` 22-23.
2. `audio_ring_budget`. A `--latency-ms` beyond what the ring holds makes the budget exceed the ring. A backlog
   beyond the ring then fails the recheck on every attempt, and the realtime callback loops for ever
   with no writer active, against `playback.rs` 30 ("wait-free").
3. `session_stalled`. A region used before is valid until `init` is done. A VM that is started before the host
   attaches to it, publishes, streams; then `init` wipes the format, and the host waits for ever. The same happens
   when only the host is restarted. README lines 119-120 promise the opposite.
4. `video_forward_split`. `write_frame` compares free bytes, but the pipe has pages. For frames that are not whole pages
   (1280x720 NV12 is 337.5 pages) a write may be cut although the bytes are free; the cut frame counts as a drop, its
   first part stays, and the player is out of step from then on, against `video.rs` 154 and README 234-236.
5. `playback_uncounted`. The callback compares the budget with a backlog it computes before the read, and the read loads `tail`
   again. What is pushed in between can make the read drop audio although no overflow is counted; `playback.rs` 122 against
   README line 161 ("prints a once-per-second line whenever it slips"). The other direction, `OverflowsAreSlips`, holds.

TLC finds these too; they have no run of their own, being consequences or neighbours of the five:

| Change of a run's cfg | Property violated | What it shows |
|---|---|---|
| `AudioRing`, `FairCrashSpec`, ring 4, one kill | `WaitFree` | the reader spins while the killed VM is not restarted |
| `AudioRing`, `Spec`, ring 4, frame 3, a push of 6 | `FrameAligned` | a push longer than the ring is cut inside a frame when frames do not divide it |
| `Session`, `Leftover = {TRUE}` | `InitAlone` | a VM is attached to the old header while `init` runs |
| `Session`, two host runs, `HostVideo` both | `RingsAgree` | the VM keeps the old capacity |
| `Session`, `TwoFormats`, two VM runs | `FormatsAgree` | the host never looks at the format again, or reads a mix |
| `MCVideoRing`, `RestartSpec` | `WholeFrames` | `frame_seq` is reset and counts up to where it was during one copy |
| `MCVideoRing`, `RestartSpec`, `TwoFormats`, region 12 | `GeometryAgrees` | the host keeps the old stride |
| `VideoForward`, two players | `NeverPartial` | the second player starts inside a frame of the first |

## Proofs

For every value of the constants that satisfies the modules' `ASSUME`s:

- `AudioRingProofs`. `SeqlockInvariant` proves `Inv`, the argument of the seqlock: `seq` is odd exactly during a
  push (`PushInv`); the newest `Cap` bytes stored are in their cells (`RingInv`); a reader whose `s0` is still `seq` has
  seen one tail, and those of its copied bytes that the ring still holds are the stream's (`ReadInv`, `CopyInv`). `NoTornRead`
  alone is not inductive: it says nothing of a read under way. `AcceptedRead` draws from `Inv` what the
  recheck buys; `NoTornReads`, `HeadNeverMovesBack`, `LatencyBounded` and `RingImplementsStream` follow. So does
  `RetriesAreDisturbed`, what a proof of `ReadReturns` would rest on: while the budgets fit the ring, an attempt is only thrown away if a push
  began or ended during it (without that condition `audio_ring_budget` goes round for ever). Alignment needs one
  thing the code does not check: that a push longer than the ring is not cut inside a frame
  (`CutsAreFrames`, an assumption of `FramesNeverSplit`, `LatencyBounded` and `RingImplementsStream`). It holds when
  frames divide the ring (1, 2, 4, 8 channels) or packets are no longer than the ring (any real device);
  `CandidatesCutWhole` of `FormatsProofs` shows the former for all that the WASAPI path can settle on.
- `VideoRingProofs`. `SlotInvariant` proves `Inv`: behind the gate producer, header and reader have one
  geometry (`PublishInv`, `CacheInv`), frame `f` stays in its slot until frame `f + pcount` begins (`SlotInv`), and
  a copy is right while the count is within `pcount - 2` of `s0` (`CopyInv`). `FramesAreWhole`, `GeometriesAgree` and
  `RingImplementsSource` follow. These are for one run of the VM (`Spec`).
  With restarts (`RestartSpec`) a frame's number no longer says what its slot holds: a run that is killed leaves its frames behind, the
  next one sets the count back, and a slot may hold a frame of either. `RestartInv` says what is left: once there is a gate the header keeps one geometry,
  also while the next run stores it again (`KeptHeader`, `KeptCache`); a slot that is not the next to be written holds
  one frame that some run pushed (`KeptSlots`); and a copy whose read no reset of `frame_seq` fell into is, within its
  distance, what is in the slot (`KeptCopy`). TLC checked it on the instance of `video_ring_restart`, and on a larger one of three runs, before it was proved.
  `OneStreamIsWhole` and `GeometriesSurvive` follow. All three assume a camera that settles on
  one format in all its runs (`OneFormatOnly`); for one that does not, the table above shows `GeometryAgrees` violated.
- `VideoForwardProofs`. The looks at the count stay in order, no frame is forwarded twice, and the thread is a reader as
  `VideoSource` expects; this joins it to `RingImplementsSource`. `ForwardTypeCorrect` has the pipe never hold more pages than it
  has, which takes the sizes of what `write` splits a frame into. `FirstPlayerSeesWholeFrames` is what `FIONREAD` is for: bytes
  free in the pipe are pages free in the pipe, and so room for a whole frame, as long as frames are whole pages
  (`Size % PageSize = 0`: YUY2 at 640x480 and 1280x720 is, NV12 at 1280x720 is not; without it the property is false, as `video_forward_split` shows). Its invariant is `WholeInv` (all pages are full, a
  write that is due has room, before the first player nothing is queued) with `StreamInv` (each page is a run of one frame's bytes, each
  goes on where the one before it ended, and the player's part where the first of them does). That
  the recursive sum of the pipe's pages is `PageSize` for each is proved by induction along a set of numbers
  (`SetInduction` of `ModularArithmetic`, from the well-foundedness of `Nat`).

- `PlaybackProofs`. With kills the seqlock's invariant is gone, because `seq` is left odd. `KillInv` is what survives: `head` is not
  beyond `tail`, and a copy lies between the `head` it began with and the `tail` it loaded, although the bytes may be another
  stream's. `CallbackInv` adds that `tail` only grows between the callback's look and the
  read's, so a counted overflow stays one. `NeverReplaysKilled` and `OverflowsSlip` follow; `FramesNeverSplitKilled`, `UnderflowsDrain` and
  `LatencyBoundedKilled` need `WholeInv` and with it `CutsAreFrames`, as above. `CallbackIsAReader` shows that seen at the ring the playback is nothing but
  `AudioRing` with kills (the callback's windows are windows, it completes a read before it begins the next). That carries the ring's theorems over:
  `TornOnlyAfterKill`, so that the inverted counter of `audio_ring_inverted` is the only way to a torn read, and, where no
  push is ever killed (`MaxCrashes = 0`), `PlaybackImplementsStream`.
- `SessionProofs`. `SessionTypeCorrect` holds for any use of the programs. The rest is about the first host of a fresh region
  (`FirstHost`), however often the VM is started: `magic` is stored last by `init` and loaded first by `attach`, so who
  is attached has seen all of the header (`RingInv`: `FirstInitAlone`, `FirstRingsAgree`); the format's fields are unset until `init`
  has run (`Unset`), `frame_bytes` is stored last by `set_format` and loaded first by `format`, and publishing the
  format again changes none of the fields (`FormatInv`: `FirstFormatsAgree`). The last assumes that the captures of one session settle on one format (`SameFormat`). Without
  these assumptions the statements are false, as the table above shows.
  That a region has a ring at all (`PowersReach`: some power of two lies between half its size and its size) is proved, and no assumption on the region.
  A host that ends at its start (`hcap` is 0) leaves the header unset; one that ends for want of room for video leaves a header that is complete.
- `FormatsProofs`. `ParseInvertsMake`: what `make_wfx` builds of any of the candidates, plain or extensible,
  `parse_audio_format` reads back as what the device then delivers. `CandidatesArePublishable` and `CandidatesCutWhole`
  show of the candidates what `Session` and `AudioRing` assume of formats: `frame_bytes` is a gate that opens, the code is one of three, and
  frames divide the ring. `VideoFormatsAreWhole` does so for a video connection of either orientation, with or without a size of its own,
  products that saturate included: its frame size is not 0 (`FormatsHaveSize` of `VideoRing`), and its rows are the frame but for less than a byte each.
  What an audio connection says of its block size DirectShow's `parse_wfx` takes as it is; there, that it is not 0 remains an assumption.
- `VmProgramProofs`. The invariant is one for each component (`RegionInv`, `KeepInv`, `WasapiInv`, `DsInv`), each proved for the steps of its own
  component, and `Linked`, which says in which state of `run` each of them may be. `WasapiInv` holds the argument
  of the loop: what is pushed and what the device holds together are what arrived, and they overlap in the
  one packet that is pushed but not released. `SoundInOrder`, `DrainsEverything`, `DescribedFirst` (which uses `ParseInvertsMake`), `CardStaysAwake` and `NothingLeftBehind` follow,
  for any media types, device buffers, failures and halts.

Only model-checked are: everything under fairness (`ReadReturns`, `CountsPrinted`, `StreamPlayed`, `AttachEnds`, `ComesToRest`, `RoomIsShown`,
`StallEnds`, `SoundStarts`), which the prover does not cover. Every invariant and every action property that a passing run checks is stated by a theorem.

## Not modelled

- The wrap of the 64-bit counters: at 384 000 bytes a second it takes more than a million years.
- A window larger than the ring (`WindowsAreFrames`): the quantum is some KiB, the ring 8 MiB with `--video-fifo` and 1 MiB
  for the 2 MiB region that the repository's README recommends. The host checks no minimum: on a region of a few KiB the copy would
  leave the payload before the recheck.
- A shared mapping that goes away under a program; the byte layout of the driver's structures in `ivshmem.rs`.
- The set-up of the PipeWire stream and its main loop: calls of a library in one order, none of which the program goes on without.
- The host's command line, and the match of a device's name with a part of it: pure text. A device is found or it is not.
- A connection that `RenderStream` makes only in part before it fails: the graph is then dropped.
- Ctrl-C elsewhere than inside a push, where it leaves nothing that the other side reads: the restarts of `Session` and `VideoRing` cover it.
- Printed text, among it the mpv command and the name of a FourCC. The comment at `lib.rs` 435 calls `stride` the bytes of a
  row; `parse_video_format` computes the frame's bytes by its rows, which for a planar format such as NV12 is half as much again. Only the
  printed line and the readers of the header see it, and `VideoRing` carries whatever number is published.

## What is left

The safety properties are proved. Liveness stays with TLC; what can still be done for it is to prove more of the
safety facts it rests on, as `RetriesAreDisturbed` does for `ReadReturns`. Of the hypotheses, three are ones that
a device of the DirectShow path could break, and the code checks none of them: `PushesAreFrames` (its sample buffers are whole frames),
`CutsAreFrames` (one longer than the ring is not cut inside a frame) and a block size that is not 0.
