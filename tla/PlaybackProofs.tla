----------------------------- MODULE PlaybackProofs -----------------------------
(***************************************************************************)
(* Proofs about Playback, whose producer may be killed inside a push.  The   *)
(* seqlock's argument (Inv of AudioRing) does not survive a kill, since seq  *)
(* is left odd; KillInv is what does.                                        *)
(***************************************************************************)
EXTENDS Playback, AudioRingProofs

(* What holds of the ring although a push may have been cut short.           *)
KillInv ==
  /\ TypeOK /\ head <= tail
  /\ ppc # "copy" => n = 0
  /\ tail + n <= MaxTail
  /\ cpc \in {"copy", "recheck"} =>
       head <= from /\ from + want <= t0 /\ t0 <= tail

(* A freshly initialized ring.                                               *)
LEMMA InitKill == Init => KillInv
<1> SUFFICES ASSUME Init PROVE KillInv
  OBVIOUS
<1>1. TypeOK
  BY InitInv DEF Inv
<1> QED
  BY <1>1, ParametersOK DEF Init, KillInv, Parameters

(* The steps of a push, and its end by a kill.                               *)
LEMMA PushKill ==
  ASSUME KillInv, (\E len \in PushSizes : PushBegin(len)) \/ PushStep \/ Crash
  PROVE  KillInv'
<1> USE DEF KillInv
<1>0. /\ tail \in Nat /\ head \in Nat /\ n \in 0 .. Cap /\ wrote \in 0 .. n /\ t0 \in Nat
      /\ from \in Nat /\ want \in Nat /\ seq \in Nat /\ Cap \in Nat \ {0} /\ MaxTail \in Nat
      /\ crashes \in 0 .. MaxCrashes /\ MaxCrashes \in Nat
  BY ParametersOK DEF TypeOK, Positions, Parameters
<1>1. ASSUME NEW len \in PushSizes, PushBegin(len)
      PROVE  KillInv'
  <2>1. KeepNewest(len) \in 0 .. Cap /\ KeepNewest(len) <= len /\ len \in Nat
    BY KeepNewestFacts
  <2>2. n' \in 0 .. Cap /\ wrote' \in 0 .. n' /\ lost' \in Nat /\ seq' \in Nat
    <3>1. n' = KeepNewest(len) /\ lost' = lost + len - n' /\ wrote' = 0 /\ seq' = seq + 1
      BY <1>1 DEF PushBegin
    <3>2. lost \in Nat /\ seq \in Nat
      BY DEF TypeOK
    <3>3. lost' \in Nat
      BY <1>0, <2>1, <3>1, <3>2
    <3> QED
      BY <1>0, <2>1, <3>1, <3>2, <3>3
  <2>3. TypeOK'
    BY <1>1, <2>2 DEF PushBegin, TypeOK, reads
  <2> QED
    BY <1>1, <2>3 DEF PushBegin, reads
<1>2. CASE PushByte
  <2>1. tail + wrote \in Positions /\ wrote + 1 \in 0 .. n
    BY <1>0, <1>2 DEF PushByte, Positions
  <2>2. payload' \in [0 .. Cap - 1 -> Positions \cup {Stale}]
    BY <1>2, <2>1 DEF PushByte, TypeOK
  <2>3. TypeOK'
    BY <1>2, <2>1, <2>2 DEF PushByte, TypeOK, header, reads
  <2> QED
    BY <1>2, <2>3 DEF PushByte, header, reads
<1>3. CASE PushTail
  <2>1. TypeOK'
    BY <1>0, <1>3 DEF PushTail, TypeOK, Positions, reads
  <2> QED
    BY <1>0, <1>3, <2>1 DEF PushTail, reads
<1>4. CASE PushClose
  <2>1. TypeOK'
    BY <1>0, <1>4 DEF PushClose, TypeOK, reads
  <2> QED
    BY <1>4, <2>1 DEF PushClose, reads
<1>5. CASE Crash
  <2>1. TypeOK'
    BY <1>0, <1>5 DEF Crash, TypeOK, header, reads
  <2> QED
    BY <1>0, <1>5, <2>1 DEF Crash, header, reads
<1> QED
  BY <1>1, <1>2, <1>3, <1>4, <1>5 DEF PushStep

(* The bytes a read chooses lie between head and the tail it loaded.         *)
LEMMA ReadTailKill ==
  ASSUME KillInv, ReadTail
  PROVE  /\ KillInv'
         /\ from' = StartAt(head, tail, window) /\ want' = WantAt(from', tail, window)
         /\ from' \in head .. tail
<1> USE DEF KillInv
<1>1. /\ head \in Nat /\ tail \in Nat /\ head <= tail /\ tail \in Positions
      /\ MaxTail \in Nat /\ window \in Nat /\ window % Frame = 0
  BY ParametersOK DEF ReadTail, TypeOK, Positions, Parameters
<1>2. from' \in head .. tail
  BY <1>1, StartAtFacts DEF ReadTail
<1>3. want' \in 0 .. window /\ from' + want' <= tail
  BY <1>1, <1>2, WantAtFacts DEF ReadTail
<1>4. TypeOK'
  BY <1>1, <1>2, <1>3 DEF ReadTail, TypeOK, Positions, header, pvars
<1> QED
  BY <1>1, <1>2, <1>3, <1>4 DEF ReadTail, header, pvars

(* The steps of a read.                                                      *)
LEMMA ReadKill ==
  ASSUME KillInv, (\E w \in Windows : ReadBegin(w)) \/ ReadStep
  PROVE  KillInv'
<1> USE DEF KillInv
<1>0. /\ head \in Nat /\ tail \in Nat /\ from \in Nat /\ want \in Nat /\ t0 \in Nat
      /\ got \in 0 .. want /\ want \in 0 .. window /\ window \in 0 .. Cap /\ Cap \in Nat \ {0} /\ MaxTail \in Nat
      /\ 0 \in Positions
  BY ParametersOK DEF TypeOK, Positions, Parameters
<1>1. ASSUME NEW w \in Windows, ReadBegin(w)
      PROVE  KillInv'
  <2>1. w \in 0 .. Cap /\ want = 0
    BY <1>1, ParametersOK DEF ReadBegin, TypeOK, Parameters
  <2>2. TypeOK'
    BY <1>1, <2>1 DEF ReadBegin, TypeOK, header, pvars
  <2> QED
    BY <1>1, <2>2 DEF ReadBegin, header, pvars
<1>2. CASE ReadSeq
  <2>1. TypeOK'
    BY <1>2 DEF ReadSeq, TypeOK, header, pvars
  <2> QED
    BY <1>2, <2>1 DEF ReadSeq, header, pvars
<1>3. CASE ReadTail
  BY <1>3, ReadTailKill
<1>4. CASE ReadByte
  <2>1. got \in 0 .. window - 1 /\ got + 1 \in 0 .. want
    BY <1>0, <1>4 DEF ReadByte
  <2>2. Mask(from + got) \in 0 .. Cap - 1
    BY <1>0, MaskFacts
  <2>3. out' \in [0 .. window - 1 -> Positions \cup {Stale}]
    BY <1>4, <2>1, <2>2 DEF ReadByte, TypeOK
  <2>4. TypeOK'
    BY <1>4, <2>1, <2>3 DEF ReadByte, TypeOK, header, pvars
  <2> QED
    BY <1>4, <2>4 DEF ReadByte, header, pvars
<1>5. CASE ReadTail2
  <2>1. TypeOK'
    BY <1>5 DEF ReadTail2, TypeOK, header, pvars
  <2> QED
    BY <1>5, <2>1 DEF ReadTail2, header, pvars
<1>6. CASE ReadRetry
  <2>1. TypeOK'
    BY <1>0, <1>6 DEF ReadRetry, Forget, TypeOK, header, pvars
  <2> QED
    BY <1>6, <2>1 DEF ReadRetry, header, pvars
<1>7. CASE ReadDone
  <2>1. from + want \in Positions
    BY <1>0, <1>7 DEF ReadDone, TypeOK, Positions
  <2>2. TypeOK'
    BY <1>0, <1>7, <2>1 DEF ReadDone, Forget, TypeOK, pvars
  <2> QED
    BY <1>0, <1>7, <2>2 DEF ReadDone, pvars
<1> QED
  BY <1>1, <1>2, <1>3, <1>4, <1>5, <1>6, <1>7 DEF ReadStep

-----------------------------------------------------------------------------
(***************************************************************************)
(* The callback: what it knows while its read runs.  A backlog it counted as *)
(* an overflow is only larger when the read looks again.                     *)
(***************************************************************************)
CallbackInv ==
  /\ bpc \in {"idle", "pointers", "read"} /\ asked \in Windows \cup {0}
  /\ counted \in BOOLEAN /\ overflows \in Nat /\ underflows \in Nat
  /\ bpc = "pointers" => asked \in Windows
  /\ bpc = "read" <=> cpc # "idle"
  /\ counted => bpc = "read" /\ tail - head > window + MaxLatency
  /\ counted /\ cpc \in {"copy", "recheck"} =>
       from = t0 - Budget(window) /\ from > head

(* The statistics thread never runs ahead of the counters.                   *)
StatsInv ==
  /\ spc \in {"load", "report"} /\ current \in 0 .. underflows
  /\ lastOver \in 0 .. overflows /\ lastUnder \in 0 .. underflows

PlaybackInv == KillInv /\ CallbackInv /\ StatsInv

(* The steps of the playback, as steps of the ring with kills.               *)
LEMMA RingSteps ==
  ASSUME PlaybackInv, [PlaybackNext]_allvars
  PROVE  \/ ((\E len \in PushSizes : PushBegin(len)) \/ PushStep \/ Crash)
            /\ UNCHANGED <<callback, stats>>
         \/ Pointers /\ ReadBegin(asked) /\ asked \in Windows
         \/ Reading /\ ReadOn
         \/ Return /\ ReadDone
         \/ UNCHANGED ring
  BY DEF PlaybackInv, CallbackInv, PlaybackNext, Producer, Callback, Stats, Pointers, Reading,
         Return, Process, LoadUnderflows, Report, allvars

(* KillInv is kept by every step of the playback.                            *)
LEMMA StepKill ==
  ASSUME PlaybackInv, [PlaybackNext]_allvars
  PROVE  KillInv'
<1>1. CASE (\E len \in PushSizes : PushBegin(len)) \/ PushStep \/ Crash
  BY <1>1, PushKill DEF PlaybackInv
<1>2. CASE (\E w \in Windows : ReadBegin(w)) \/ ReadStep
  BY <1>2, ReadKill DEF PlaybackInv
<1>3. CASE UNCHANGED ring
  BY <1>3 DEF PlaybackInv, KillInv, ring, TypeOK
<1> QED
  BY <1>1, <1>2, <1>3, RingSteps DEF ReadOn, ReadStep

(* A push only adds to a backlog.                                            *)
LEMMA LargerBacklog ==
  ASSUME NEW t \in Nat, NEW u \in Nat, u >= t, NEW h \in Nat, NEW w \in Nat,
         t - h > w + MaxLatency
  PROVE  u - h > w + MaxLatency
  BY ParametersOK DEF Parameters

(* What the callback knows is kept.                                          *)
LEMMA StepCallback ==
  ASSUME PlaybackInv, [PlaybackNext]_allvars
  PROVE  CallbackInv'
<1> USE DEF PlaybackInv, CallbackInv
<1>0. /\ tail \in Nat /\ head \in Nat /\ n \in Nat /\ t0 \in Nat /\ from \in Nat
      /\ window \in Nat /\ MaxLatency \in Nat /\ head <= tail
  BY ParametersOK DEF KillInv, TypeOK, Positions, Parameters
<1>1. CASE /\ (\E len \in PushSizes : PushBegin(len)) \/ PushStep \/ Crash
           /\ UNCHANGED <<callback, stats>>
  <2>1. tail' \in Nat /\ tail' >= tail
    BY <1>0, <1>1 DEF PushBegin, PushStep, PushByte, PushTail, PushClose, Crash, header
  <2>2. UNCHANGED <<head, cpc, window, t0, from>>
    BY <1>1 DEF PushBegin, PushStep, PushByte, PushTail, PushClose, Crash, header, reads
  <2>3. Budget(window)' = Budget(window)
    BY <2>2 DEF Budget
  <2>4. ASSUME counted PROVE tail' - head' > window' + MaxLatency
    <3>1. tail - head > window + MaxLatency
      BY <2>4
    <3>2. head' = head /\ window' = window
      BY <2>2
    <3> QED
      BY <1>0, <2>1, <3>1, <3>2, LargerBacklog
  <2>5. UNCHANGED <<bpc, asked, counted, overflows, underflows>>
    BY <1>1 DEF callback
  <2> QED
    BY <2>2, <2>3, <2>4, <2>5
<1>2. CASE Pointers
  <2>1. ReadBegin(asked) /\ asked \in Windows /\ cpc' = "seq" /\ window' = asked
        /\ UNCHANGED <<head, tail>>
    BY <1>2 DEF Pointers, ReadBegin, header
  <2>2. counted' => tail' - head' > window' + MaxLatency
    BY <1>0, <1>2, <2>1 DEF Pointers, Backlog
  <2>3. counted' \in BOOLEAN /\ overflows' \in Nat /\ bpc' = "read"
        /\ UNCHANGED <<asked, underflows>>
    BY <1>2 DEF Pointers
  <2> QED
    BY <2>1, <2>2, <2>3
<1>3. CASE Reading
  <2>1. UNCHANGED <<head, tail, window>> /\ UNCHANGED callback /\ bpc = "read"
    BY <1>3 DEF Reading, ReadOn, ReadSeq, ReadTail, ReadByte, ReadTail2, ReadRetry, header
  <2>2. cpc' # "idle"
    BY <1>3 DEF Reading, ReadOn, ReadSeq, ReadTail, ReadByte, ReadTail2, ReadRetry
  <2>3. CASE ReadTail
    <3>1. Budget(window) \in Nat /\ Budget(window) <= window + MaxLatency
      BY <1>0, StartAtFacts
    <3>2. counted => from' = tail - Budget(window) /\ from' > head
      BY <1>0, <2>3, <3>1 DEF ReadTail, StartAt, MinOf
    <3>3. t0' = tail
      BY <2>3 DEF ReadTail
    <3>4. Budget(window)' = Budget(window)
      BY <2>1 DEF Budget
    <3> QED
      BY <2>1, <2>2, <3>2, <3>3, <3>4 DEF callback
  <2>4. CASE ReadSeq \/ ReadRetry
    <3>1. cpc' \notin {"copy", "recheck"}
      BY <2>4 DEF ReadSeq, ReadRetry
    <3> QED
      BY <2>1, <2>2, <3>1 DEF callback
  <2>5. CASE ReadByte \/ ReadTail2
    <3>1. UNCHANGED <<from, t0>> /\ cpc \in {"copy", "recheck"}
      BY <2>5 DEF ReadByte, ReadTail2
    <3>2. Budget(window)' = Budget(window)
      BY <2>1 DEF Budget
    <3> QED
      BY <2>1, <2>2, <3>1, <3>2 DEF callback
  <2> QED
    BY <1>3, <2>3, <2>4, <2>5 DEF Reading, ReadOn
<1>4. CASE Return
  <2>1. underflows' \in Nat
    BY <1>4 DEF Return
  <2>2. cpc' = "idle" /\ bpc' = "idle" /\ asked' = 0 /\ counted' = FALSE /\ overflows' = overflows
    BY <1>4 DEF Return, ReadDone
  <2> QED
    BY <2>1, <2>2
<1>5. CASE \E len \in Slices : Process(len)
  <2>1. UNCHANGED <<tail, head, cpc, window, t0, from, counted, overflows, underflows>>
    BY <1>5 DEF Process, ring
  <2>2. bpc = "idle" /\ bpc' = "pointers" /\ asked' \in Windows /\ ~ counted
    BY <1>5, SlicesGiveWindows DEF Process
  <2> QED
    BY <2>1, <2>2
<1>6. CASE Stats \/ UNCHANGED allvars
  <2>1. UNCHANGED ring /\ UNCHANGED callback
    BY <1>6 DEF Stats, LoadUnderflows, Report, allvars
  <2> QED
    BY <2>1 DEF ring, callback, Budget
<1> QED
  BY <1>1, <1>2, <1>3, <1>4, <1>5, <1>6 DEF PlaybackNext, Producer, Callback

(* The counters only grow, and what is printed stays behind them.            *)
LEMMA StepStats ==
  ASSUME PlaybackInv, [PlaybackNext]_allvars
  PROVE  StatsInv'
<1> USE DEF PlaybackInv, StatsInv
<1>1. CASE Stats
  BY <1>1 DEF Stats, LoadUnderflows, Report, CallbackInv, callback
<1>2. CASE Pointers \/ Return
  <2>1. /\ overflows' \in Nat /\ overflows' >= overflows
        /\ underflows' \in Nat /\ underflows' >= underflows /\ UNCHANGED stats
    BY <1>2 DEF Pointers, Return, CallbackInv
  <2> QED
    BY <2>1 DEF stats, CallbackInv
<1>3. CASE Producer \/ Reading \/ (\E len \in Slices : Process(len)) \/ UNCHANGED allvars
  BY <1>3 DEF Producer, Reading, Process, callback, stats, allvars
<1> QED
  BY <1>1, <1>2, <1>3 DEF PlaybackNext, Callback

(* The invariant of the playback.                                            *)
LEMMA PlaybackInvariant == PlaybackSpec => []PlaybackInv
<1>1. PlaybackInit => PlaybackInv
  <2> SUFFICES ASSUME PlaybackInit PROVE PlaybackInv
    OBVIOUS
  <2>1. KillInv
    BY InitKill DEF PlaybackInit
  <2>2. cpc = "idle"
    BY DEF PlaybackInit, Init
  <2>3. CallbackInv
    BY <2>2 DEF PlaybackInit, CallbackInv
  <2>4. StatsInv
    BY DEF PlaybackInit, StatsInv
  <2> QED
    BY <2>1, <2>3, <2>4 DEF PlaybackInv
<1>2. PlaybackInv /\ [PlaybackNext]_allvars => PlaybackInv'
  BY StepKill, StepCallback, StepStats DEF PlaybackInv
<1> QED
  BY <1>1, <1>2, PTL DEF PlaybackSpec

-----------------------------------------------------------------------------
(* WHAT THE LISTENER IS PROMISED, KILLS INCLUDED                             *)

(* Types: of the ring, the callback and the statistics thread.               *)
THEOREM PlaybackTypeCorrect == PlaybackSpec => []PlaybackTypeOK
<1>1. PlaybackInv => PlaybackTypeOK
  BY DEF PlaybackInv, KillInv, CallbackInv, StatsInv, PlaybackTypeOK
<1> QED
  BY <1>1, PlaybackInvariant, PTL

(* No byte is played twice, although pushes may be cut short by a kill.      *)
THEOREM NeverReplaysKilled == PlaybackSpec => NeverReplays
<1>1. PlaybackInv /\ [PlaybackNext]_allvars
        => [head' >= head /\ (ReadDone => from >= head)]_vars
  <2> SUFFICES ASSUME PlaybackInv, [PlaybackNext]_allvars
               PROVE  (head' >= head /\ (ReadDone => from >= head)) \/ UNCHANGED vars
    OBVIOUS
  <2>0. /\ head \in Nat /\ from \in Nat /\ want \in Nat /\ window \in Nat
        /\ cpc \in {"copy", "recheck"} => head <= from
    BY ParametersOK DEF PlaybackInv, KillInv, TypeOK, Positions, Parameters
  <2>1. CASE ReadDone
    BY <2>0, <2>1 DEF ReadDone
  <2>2. CASE ~ ReadDone
    <3>1. UNCHANGED head
      BY <2>2, RingSteps DEF PushBegin, PushStep, PushByte, PushTail, PushClose, Crash, ReadBegin,
         ReadOn, ReadSeq, ReadTail, ReadByte, ReadTail2, ReadRetry, header, ring
    <3> QED
      BY <2>0, <2>2, <3>1
  <2> QED
    BY <2>1, <2>2
<1> QED
  BY <1>1, PlaybackInvariant, PTL DEF PlaybackSpec, NeverReplays

(* A read that the callback counted as an overflow drops audio.              *)
THEOREM OverflowsSlip == PlaybackSpec => OverflowsAreSlips
<1>1. PlaybackInv => [Return /\ counted => from > head]_allvars
  BY DEF PlaybackInv, CallbackInv, Return, ReadDone
<1> QED
  BY <1>1, PlaybackInvariant, PTL DEF PlaybackSpec, OverflowsAreSlips

-----------------------------------------------------------------------------
(***************************************************************************)
(* Frames, as in AudioRingProofs: no push is cut inside one.  Then a kill,   *)
(* which takes back a push that was not published, keeps every position at   *)
(* a frame boundary, and a read takes its window or all there is.            *)
(***************************************************************************)
DrainInv ==
  cpc \in {"copy", "recheck"} =>
    /\ want % Frame = 0
    /\ want = window \/ want = t0 - from
    /\ counted => want = window

WholeInv == AlignInv /\ DrainInv

(* A budget has room for its window.                                         *)
LEMMA BudgetCoversWindow ==
  ASSUME NEW w \in Nat, w % Frame = 0
  PROVE  Budget(w) \in Nat /\ Budget(w) >= w
<1> DEFINE b == Budget(w)
<1>1. /\ b \in Nat /\ b % Frame = 0 /\ w + MaxLatency < b + Frame
      /\ Frame \in Nat \ {0} /\ MaxLatency \in Nat
  <2>1. 0 \in Nat /\ 0 <= 0
    OBVIOUS
  <2> QED
    BY <2>1, StartAtFacts, ParametersOK DEF Parameters
<1> HIDE DEF b
<1>2. ASSUME b < w PROVE FALSE
  <2>1. w \in Int /\ b \in Int /\ w - b < Frame /\ b - w < Frame
    BY <1>1, <1>2
  <2>2. w = b
    BY <1>1, <2>1, AlignedApart
  <2> QED
    BY <1>2, <2>2
<1> QED
  BY <1>1, <1>2 DEF b

(* What a read chooses.                                                      *)
LEMMA ReadTailDrains ==
  ASSUME PlaybackInv, WholeInv, ReadTail, UNCHANGED callback
  PROVE  WholeInv'
<1>1. /\ Frame \in Nat \ {0} /\ tail \in Nat /\ head \in Nat /\ head <= tail
      /\ window \in Nat /\ window % Frame = 0 /\ MaxLatency \in Nat
  BY ParametersOK DEF PlaybackInv, KillInv, TypeOK, Positions, Parameters, ReadTail
<1>2. /\ UNCHANGED <<tail, head, lost, n, window, counted>>
      /\ from' = StartAt(head, tail, window) /\ want' = WantAt(from', tail, window) /\ t0' = tail
      /\ from' \in head .. tail
  BY ReadTailKill DEF PlaybackInv, ReadTail, header, pvars, callback
<1>3. tail % Frame = 0 /\ head % Frame = 0
  BY DEF WholeInv, AlignInv, FrameAligned
<1>4. Budget(window) \in Nat /\ Budget(window) % Frame = 0 /\ Budget(window) <= window + MaxLatency
      /\ (from' = head \/ from' = tail - Budget(window))
  BY <1>1, <1>2, StartAtFacts
<1>5. from' % Frame = 0
  <2>1. (tail - Budget(window)) % Frame = 0
    <3>1. tail \in Int /\ Budget(window) \in Int
      BY <1>1, <1>4
    <3> QED
      BY ONLY <1>1, <1>3, <1>4, <3>1, AlignedSum
  <2> QED
    BY <1>3, <1>4, <2>1
<1>6. want' % Frame = 0 /\ (want' = window \/ want' = tail - from')
  <2>1. tail - from' \in Nat /\ from' \in 0 .. tail
    BY <1>1, <1>2
  <2>2. (tail - from') % Frame = 0
    <3>1. from' \in Int /\ tail \in Int
      BY <1>1, <2>1
    <3> QED
      BY ONLY <1>1, <1>3, <1>5, <3>1, AlignedSum
  <2>3. AlignDown(tail - from') = tail - from'
    BY <2>1, <2>2, AlignDownFacts
  <2> QED
    BY <1>1, <1>2, <2>1, <2>3, WantAtFacts
<1>7. ASSUME counted PROVE want' = window
  <2>1. from' = tail - Budget(window)
    <3>1. tail - head > window + MaxLatency
      BY <1>7 DEF PlaybackInv, CallbackInv
    <3> QED
      BY <1>1, <1>2, <1>4, <3>1 DEF StartAt, MinOf
  <2>2. Budget(window) >= window /\ AlignDown(window) = window
    BY <1>1, BudgetCoversWindow, AlignDownFacts
  <2>3. tail - from' = Budget(window)
    BY <1>1, <1>4, <2>1
  <2> QED
    BY <1>1, <1>2, <1>4, <2>2, <2>3 DEF WantAt, MinOf
<1> QED
  BY <1>2, <1>3, <1>5, <1>6, <1>7 DEF WholeInv, AlignInv, FrameAligned, DrainInv

(* Every step keeps the frames whole.                                        *)
LEMMA StepWhole ==
  ASSUME CutsAreFrames, PlaybackInv, WholeInv, [PlaybackNext]_allvars
  PROVE  WholeInv'
<1>0. /\ Frame \in Nat \ {0} /\ tail \in Int /\ head \in Int /\ n \in Int /\ lost \in Int
      /\ from \in Int /\ want \in Int /\ 0 % Frame = 0
  BY ParametersOK DEF PlaybackInv, KillInv, TypeOK, Positions, Parameters
<1> USE DEF WholeInv, AlignInv, FrameAligned, DrainInv
<1>1. ASSUME NEW len \in PushSizes, PushBegin(len), UNCHANGED callback
      PROVE  WholeInv'
  <2>1. len \in Int /\ len % Frame = 0 /\ n' \in Int /\ n' % Frame = 0
    BY <1>1, KeepNewestFacts, ParametersOK DEF CutsAreFrames, PushBegin, Parameters
  <2> DEFINE cut == len - n'
  <2>2. cut % Frame = 0
    BY ONLY <1>0, <2>1, AlignedSum
  <2>3. (lost + cut) % Frame = 0
    <3>1. cut \in Int /\ lost % Frame = 0
      BY <2>1
    <3> HIDE DEF cut
    <3> QED
      BY ONLY <1>0, <2>2, <3>1, AlignedSum
  <2>4. UNCHANGED <<cpc, window, t0, from, want, counted, tail, head>>
    BY <1>1 DEF PushBegin, reads, callback
  <2>5. lost' % Frame = 0
    BY <1>1, <2>3 DEF PushBegin
  <2> QED
    BY <2>1, <2>4, <2>5
<1>2. CASE PushTail /\ UNCHANGED callback
  <2>1. tail % Frame = 0 /\ n % Frame = 0
    OBVIOUS
  <2>2. (tail + n) % Frame = 0
    BY ONLY <1>0, <2>1, AlignedSum
  <2> QED
    BY <1>0, <1>2, <2>2 DEF PushTail, reads, callback
<1>3. CASE (PushByte \/ PushClose \/ Crash) /\ UNCHANGED callback
  BY <1>0, <1>3 DEF PushByte, PushClose, Crash, header, reads, callback
<1>4. CASE ReadTail /\ UNCHANGED callback
  BY <1>4, ReadTailDrains
<1>5. CASE Pointers
  <2>1. cpc' = "seq" /\ UNCHANGED <<tail, head, lost, n>>
    BY <1>5 DEF Pointers, ReadBegin, header, pvars
  <2> QED
    BY <2>1
<1>6. CASE (ReadSeq \/ ReadByte \/ ReadTail2 \/ ReadRetry) /\ UNCHANGED callback
  BY <1>6 DEF ReadSeq, ReadByte, ReadTail2, ReadRetry, header, pvars, callback
<1>7. CASE Return
  <2>1. from % Frame = 0 /\ want % Frame = 0
    BY <1>7 DEF Return, ReadDone
  <2>2. (from + want) % Frame = 0
    BY ONLY <1>0, <2>1, AlignedSum
  <2>3. head' = from + want /\ cpc' = "idle" /\ UNCHANGED <<tail, lost, n>>
    BY <1>7 DEF Return, ReadDone, pvars
  <2> QED
    BY <2>2, <2>3
<1>8. CASE (\E len \in Slices : Process(len)) \/ Stats \/ UNCHANGED allvars
  <2>1. UNCHANGED ring /\ UNCHANGED counted
    BY <1>8 DEF Process, Stats, LoadUnderflows, Report, callback, allvars
  <2> QED
    BY <2>1 DEF ring
<1> QED
  BY <1>1, <1>2, <1>3, <1>4, <1>5, <1>6, <1>7, <1>8
  DEF PlaybackNext, Producer, PushStep, Callback, Reading, ReadOn

(* So they stay whole.                                                       *)
LEMMA WholeAlways ==
  ASSUME CutsAreFrames
  PROVE  PlaybackSpec => []WholeInv
<1>1. PlaybackInit => WholeInv
  BY InitAligned DEF PlaybackInit, WholeInv, DrainInv, Init
<1>2. PlaybackInv /\ WholeInv /\ [PlaybackNext]_allvars => WholeInv'
  BY StepWhole
<1> QED
  BY <1>1, <1>2, PlaybackInvariant, PTL DEF PlaybackSpec

(* Every position stays at a frame boundary, kills included.                 *)
THEOREM FramesNeverSplitKilled ==
  ASSUME CutsAreFrames
  PROVE  PlaybackSpec => []FrameAligned
<1>1. WholeInv => FrameAligned
  BY DEF WholeInv, AlignInv
<1> QED
  BY <1>1, WholeAlways, PTL

(* A read counted as an underflow has drained the ring, and its callback did *)
(* not count an overflow as well.                                            *)
THEOREM UnderflowsDrain ==
  ASSUME CutsAreFrames
  PROVE  PlaybackSpec => UnderflowsAreDrains
<1>1. PlaybackInv /\ WholeInv /\ [PlaybackNext]_allvars
        => [underflows' > underflows => head' = t0 /\ ~ counted]_allvars
  <2> SUFFICES ASSUME PlaybackInv, WholeInv, PlaybackNext, underflows' > underflows
               PROVE  head' = t0 /\ ~ counted
    OBVIOUS
  <2>1. underflows \in Nat /\ from \in Nat /\ want \in Nat /\ t0 \in Nat /\ window \in Nat
    BY ParametersOK DEF PlaybackInv, CallbackInv, KillInv, TypeOK, Positions, Parameters
  <2>2. underflows' # underflows
    BY <2>1
  <2>3. Return
    BY <2>2 DEF PlaybackNext, Producer, Callback, Stats, Process, Pointers, Reading,
                LoadUnderflows, Report, callback
  <2>4. want < window /\ head' = from + want /\ cpc = "recheck"
    BY <2>2, <2>3 DEF Return, ReadDone
  <2>5. want = t0 - from /\ ~ counted
    BY <2>1, <2>4 DEF WholeInv, DrainInv
  <2> QED
    BY <2>1, <2>4, <2>5
<1> QED
  BY <1>1, PlaybackInvariant, WholeAlways, PTL DEF PlaybackSpec, UnderflowsAreDrains

(***************************************************************************)
(* A read leaves at most MaxLatency behind the tail it saw, kills included.  *)
(* The budget of a read is a bound from the moment its start is chosen ...   *)
(***************************************************************************)
BudgetInv == cpc \in {"copy", "recheck"} => t0 - from <= Budget(window)

(* ... and no step of the producer or of the read disturbs it.               *)
LEMMA StepBudget ==
  ASSUME PlaybackInv, BudgetInv, [PlaybackNext]_allvars
  PROVE  BudgetInv'
<1>1. CASE ReadTail
  <2>1. /\ head \in Nat /\ tail \in Nat /\ head <= tail /\ window \in Nat
        /\ from' = StartAt(head, tail, window) /\ t0' = tail /\ window' = window
    BY <1>1, ParametersOK DEF PlaybackInv, KillInv, TypeOK, Positions, Parameters, ReadTail
  <2>2. t0' - from' <= Budget(window)
    BY <2>1, StartAtFacts
  <2> QED
    BY <2>1, <2>2 DEF BudgetInv, Budget
<1>2. CASE UNCHANGED <<cpc, window, t0, from>>
  BY <1>2 DEF BudgetInv, Budget
<1>3. CASE ReadByte \/ ReadTail2
  <2>1. cpc \in {"copy", "recheck"} /\ UNCHANGED <<window, t0, from>>
    BY <1>3 DEF ReadByte, ReadTail2
  <2> QED
    BY <2>1 DEF BudgetInv, Budget
<1>4. CASE cpc' \notin {"copy", "recheck"}
  BY <1>4 DEF BudgetInv
<1>5. \/ ReadTail \/ ReadByte \/ ReadTail2
      \/ UNCHANGED <<cpc, window, t0, from>> \/ cpc' \notin {"copy", "recheck"}
  BY RingSteps DEF PushBegin, PushStep, PushByte, PushTail, PushClose, Crash, ReadBegin,
     ReadOn, ReadSeq, ReadRetry, ReadDone, header, reads, ring
<1> QED
  BY <1>1, <1>2, <1>3, <1>4, <1>5

(* Bounded latency, whatever pushes a kill cut short.                        *)
THEOREM LatencyBoundedKilled ==
  ASSUME CutsAreFrames
  PROVE  PlaybackSpec => BoundedLatency
<1>1. PlaybackInit => BudgetInv
  BY DEF PlaybackInit, Init, BudgetInv
<1>2. PlaybackInv /\ BudgetInv /\ [PlaybackNext]_allvars => BudgetInv'
  BY StepBudget
<1>3. PlaybackInv /\ WholeInv /\ BudgetInv => [ReadDone => t0 - head' <= MaxLatency]_vars
  <2> SUFFICES ASSUME PlaybackInv, WholeInv, BudgetInv, ReadDone
               PROVE  t0 - head' <= MaxLatency
    OBVIOUS
  <2>1. /\ from \in Nat /\ want \in Nat /\ t0 \in Nat /\ window \in Nat
        /\ from + want <= t0 /\ MaxLatency \in Nat
    BY ParametersOK DEF PlaybackInv, KillInv, TypeOK, Positions, Parameters, ReadDone
  <2>2. want = window \/ want = t0 - from
    BY DEF WholeInv, DrainInv, ReadDone
  <2>3. t0 - from <= Budget(window) /\ Budget(window) \in Nat
        /\ Budget(window) <= window + MaxLatency
    <3>1. 0 \in Nat /\ 0 <= 0
      OBVIOUS
    <3> QED
      BY <2>1, <3>1, StartAtFacts DEF BudgetInv, ReadDone
  <2> QED
    BY <2>1, <2>2, <2>3 DEF ReadDone
<1> QED
  BY <1>1, <1>2, <1>3, PlaybackInvariant, WholeAlways, PTL DEF PlaybackSpec, BoundedLatency

-----------------------------------------------------------------------------
(***************************************************************************)
(* The playback on top of the ring: its callback is one of the readers that  *)
(* AudioRing describes, so what is proved there carries over.                *)
(***************************************************************************)

(* The callback's windows are windows of the ring, and it starts, continues  *)
(* and completes one read at a time: seen at the ring alone, the playback is *)
(* the ring with kills.                                                      *)
THEOREM CallbackIsAReader == PlaybackSpec => CrashSpec
<1>1. PlaybackInit => Init
  BY DEF PlaybackInit
<1>2. PlaybackInv /\ [PlaybackNext]_allvars => [CrashNext]_vars
  <2> SUFFICES ASSUME PlaybackInv, [PlaybackNext]_allvars PROVE [CrashNext]_vars
    OBVIOUS
  <2>1. CASE (\E len \in PushSizes : PushBegin(len)) \/ PushStep \/ Crash
    BY <2>1 DEF CrashNext, Next
  <2>2. CASE Pointers /\ ReadBegin(asked) /\ asked \in Windows
    BY <2>2 DEF CrashNext, Next
  <2>3. CASE ReadOn \/ ReadDone
    BY <2>3 DEF CrashNext, Next, ReadOn, ReadStep
  <2>4. CASE UNCHANGED ring
    BY <2>4 DEF ring, vars
  <2> QED
    BY <2>1, <2>2, <2>3, <2>4, RingSteps
<1> QED
  BY <1>1, <1>2, PlaybackInvariant, PTL DEF PlaybackSpec, CrashSpec

(* Until the first kill the seqlock's argument holds.                        *)
UntilKilled == crashes \in Nat /\ (crashes = 0 => Inv /\ NoTornRead)

(* A step is a kill, or a step of the ring that never is killed.             *)
LEMMA CrashSteps ==
  ASSUME crashes \in Nat, [CrashNext]_vars
  PROVE  /\ crashes' \in Nat
         /\ crashes' = 0 => crashes = 0 /\ [Next]_vars
<1>1. CASE Crash
  BY <1>1 DEF Crash
<1>2. CASE [Next]_vars
  <2>1. UNCHANGED crashes
    BY <1>2 DEF Next, PushStep, ReadStep, PushBegin, PushByte, PushTail, PushClose, ReadBegin,
           ReadSeq, ReadTail, ReadByte, ReadTail2, ReadRetry, ReadDone, vars
  <2> QED
    BY <1>2, <2>1
<1> QED
  BY <1>1, <1>2 DEF CrashNext

(* No read is torn before the VM has been killed inside a push: the inverted *)
(* counter that a kill leaves behind is the only way to hear one.            *)
THEOREM TornOnlyAfterKill == PlaybackSpec => [](crashes = 0 => NoTornRead)
<1>1. Init => UntilKilled
  BY InitInv, InitNoTorn DEF Init, UntilKilled
<1>2. UntilKilled /\ [CrashNext]_vars => UntilKilled'
  <2> SUFFICES ASSUME UntilKilled, [CrashNext]_vars PROVE UntilKilled'
    OBVIOUS
  <2>1. crashes' \in Nat /\ (crashes' = 0 => crashes = 0 /\ [Next]_vars)
    BY CrashSteps DEF UntilKilled
  <2>2. ASSUME crashes' = 0 PROVE Inv' /\ NoTornRead'
    BY <2>1, <2>2, StepInv, StepNoTorn DEF UntilKilled
  <2> QED
    BY <2>1, <2>2 DEF UntilKilled
<1>3. UntilKilled => (crashes = 0 => NoTornRead)
  BY DEF UntilKilled
<1> QED
  BY <1>1, <1>2, <1>3, CallbackIsAReader, PTL DEF CrashSpec

(* A VM that is never killed inside a push feeds the listener the atomic     *)
(* stream: the callback with its counters, on the ring with its seqlock,     *)
(* implements AudioStream.                                                   *)
THEOREM PlaybackImplementsStream ==
  ASSUME CutsAreFrames, MaxCrashes = 0
  PROVE  PlaybackSpec => ImplementsStream
<1>1. PlaybackInv /\ [CrashNext]_vars => [Next]_vars
  <2> SUFFICES ASSUME PlaybackInv, Crash PROVE FALSE
    BY DEF CrashNext
  <2>1. crashes \in 0 .. 0 /\ crashes < 0
    BY DEF Crash, PlaybackInv, KillInv, TypeOK
  <2> QED
    BY <2>1
<1>2. PlaybackSpec => Spec
  BY <1>1, CallbackIsAReader, PlaybackInvariant, PTL DEF CrashSpec, Spec
<1> QED
  BY <1>2, RingImplementsStream, PTL

=============================================================================
