----------------------------- MODULE FormatsProofs -----------------------------
(***************************************************************************)
(* What the conversions of Formats yield, for every candidate and every      *)
(* media type a grabber may be connected with.                               *)
(***************************************************************************)
EXTENDS Formats, ModularArithmetic

(* A frame of whole samples.                                                 *)
LEMMA BlockOfSamples ==
  ASSUME NEW k \in Nat
  PROVE  k * (16 \div 8) = k * 2 /\ k * (32 \div 8) = k * 4
  OBVIOUS

(* Formats of 16 or 32 bits, float only with 32, as the base formats are.     *)
Sampled ==
  {c \in [rate : Nat, channels : Nat, bits : {16, 32}, is_float : BOOLEAN] :
     c.is_float => c.bits = 32}

(***************************************************************************)
(* parse_audio_format inverts make_wfx: whatever the rate and the channels,  *)
(* a candidate of 16 or 32 bits, float only with 32, is read back as what it *)
(* delivers, plain or extensible - so the one a device accepts is carried    *)
(* and the header describes it.                                              *)
(***************************************************************************)
THEOREM ParseInvertsMake ==
  ASSUME NEW c \in Sampled, NEW e \in BOOLEAN
  PROVE  ParseAudioFormat(MakeWfx(c, e)) = {Delivers(c)}
<1> DEFINE r == c.rate
           k == c.channels
           b == c.bits
           f == c.is_float
           w == MakeWfx(c, e)
           g == IF f THEN F32Le ELSE IF b = 16 THEN S16Le ELSE S32Le
<1>0. r \in Nat /\ k \in Nat /\ b \in {16, 32} /\ f \in BOOLEAN /\ (f => b = 32)
  BY DEF Sampled
<1>1. /\ w.tag \in Tags /\ w.rate = r /\ w.channels = k /\ w.bits = b
      /\ w.block = k * BytesPerSample(g) /\ (IsFloat(w) <=> f)
  BY <1>0, BlockOfSamples
  DEF MakeWfx, IsFloat, Tags, Pcm, Float, Extensible, BytesPerSample, S16Le, S32Le, F32Le
<1>2. \A h \in SampleFormats :
        ((h = F32Le <=> IsFloat(w)) /\ 8 * BytesPerSample(h) = w.bits) <=> h = g
  <2> HIDE DEF w, r, k, b, f
  <2>1. CASE f
    BY <1>0, <1>1, <2>1 DEF SampleFormats, BytesPerSample, S16Le, S32Le, F32Le
  <2>2. CASE ~ f
    BY <1>0, <1>1, <2>2 DEF SampleFormats, BytesPerSample, S16Le, S32Le, F32Le
  <2> QED
    BY <2>1, <2>2
<1>3. g \in SampleFormats
  BY DEF SampleFormats
<1>4. Delivers(c) = [sample_rate |-> r, channels |-> k, format |-> g,
                     frame_bytes |-> k * BytesPerSample(g)]
  BY DEF Delivers
<1> HIDE DEF r, k, b, f, w, g
<1>5. {h \in SampleFormats : /\ w.tag \in Tags
                             /\ h = F32Le <=> IsFloat(w)
                             /\ 8 * BytesPerSample(h) = w.bits} = {g}
  BY <1>1, <1>2, <1>3
<1>6. ParseAudioFormat(w) = {Delivers(c)}
  BY <1>1, <1>4, <1>5 DEF ParseAudioFormat
<1> QED
  BY <1>6 DEF w

-----------------------------------------------------------------------------
(* WHAT THE RINGS MAY RELY ON                                                *)

(* What a candidate delivers, field by field.                                *)
LEMMA DeliveredFields ==
  ASSUME NEW c \in Sampled
  PROVE  /\ Delivers(c).sample_rate = c.rate /\ Delivers(c).channels = c.channels
         /\ Delivers(c).format \in SampleFormats
         /\ Delivers(c).frame_bytes = c.channels * (IF c.bits = 16 THEN 2 ELSE 4)
  BY DEF Sampled, Delivers, SampleFormats, BytesPerSample, S16Le, S32Le, F32Le

(***************************************************************************)
(* set_format publishes what a device accepted, and frame_bytes # 0 is how   *)
(* the host knows that it is there (lib.rs format): the format of a          *)
(* candidate with any channels at all passes that gate, has one of the codes *)
(* that the host understands, and says how many samples make a frame.        *)
(***************************************************************************)
THEOREM CandidatesArePublishable ==
  ASSUME NEW c \in Sampled, c.channels # 0
  PROVE  /\ Delivers(c) \in AudioFormats
         /\ Delivers(c).frame_bytes # 0
         /\ Delivers(c).format \in 0 .. 2
         /\ Delivers(c).frame_bytes = Delivers(c).channels * BytesPerSample(Delivers(c).format)
<1> DEFINE k == c.channels
           f == Delivers(c).format
<1>1. c.rate \in Nat /\ k \in Nat \ {0} /\ c.bits \in {16, 32} /\ c.is_float \in BOOLEAN
      /\ (c.is_float => c.bits = 32)
  BY DEF Sampled
<1>2. f \in SampleFormats /\ Delivers(c).frame_bytes = k * BytesPerSample(f)
  BY DEF Delivers, SampleFormats
<1>3. BytesPerSample(f) \in {2, 4} /\ f \in 0 .. 2
  BY <1>2 DEF SampleFormats, BytesPerSample, S16Le, S32Le, F32Le
<1>4. k * BytesPerSample(f) \in Nat \ {0}
  <2> DEFINE b == BytesPerSample(f)
  <2>1. b = 2 \/ b = 4
    BY <1>3
  <2> HIDE DEF b, k
  <2>2. k * b = 2 * k \/ k * b = 4 * k
    BY <1>1, <2>1
  <2>3. k * b \in Nat \ {0}
    BY <1>1, <2>2
  <2> QED
    BY <2>3 DEF b
<1>5. Delivers(c) \in AudioFormats
  BY <1>1, <1>2, <1>4 DEF Delivers, AudioFormats
<1>6. Delivers(c).channels = k
  BY DEF Delivers
<1> QED
  BY <1>2, <1>3, <1>4, <1>5, <1>6

(* An element of a literal sequence.                                        *)
LEMMA OneOfFive ==
  ASSUME NEW a, NEW b, NEW c, NEW d, NEW e, NEW n \in 1 .. 5
  PROVE  <<a, b, c, d, e>>[n] \in {a, b, c, d, e}
  BY n = 1 \/ n = 2 \/ n = 3 \/ n = 4 \/ n = 5

(* The base formats are formats of 16 or 32 bits for one or two channels.    *)
LEMMA BaseFormatsAreSampled ==
  ASSUME NEW i \in 1 .. 5
  PROVE  BaseFormats[i] \in Sampled /\ BaseFormats[i].channels \in {1, 2}
<1> DEFINE c1 == Candidate(48000, 2, 16, FALSE)
           c2 == Candidate(44100, 2, 16, FALSE)
           c3 == Candidate(48000, 1, 16, FALSE)
           c4 == Candidate(48000, 2, 32, FALSE)
           c5 == Candidate(48000, 2, 32, TRUE)
<1>1. BaseFormats = <<c1, c2, c3, c4, c5>>
  BY DEF BaseFormats
<1>2. {c1, c2, c3, c4, c5} \subseteq Sampled
  BY DEF Candidate, Sampled
<1>3. \A c \in {c1, c2, c3, c4, c5} : c.channels \in {1, 2}
  BY DEF Candidate
<1> HIDE DEF c1, c2, c3, c4, c5
<1>4. BaseFormats[i] \in {c1, c2, c3, c4, c5}
  BY <1>1, OneOfFive
<1> QED
  BY <1>2, <1>3, <1>4

(***************************************************************************)
(* What WASAPI's path can settle on divides every ring of a multiple of 8    *)
(* bytes, so that a push longer than the ring is cut between two frames: the *)
(* assumption CutsAreFrames of the audio ring's proofs.                      *)
(***************************************************************************)
THEOREM CandidatesCutWhole ==
  ASSUME NEW i \in 1 .. 5, NEW cap \in Nat, cap % 8 = 0
  PROVE  /\ Delivers(BaseFormats[i]).frame_bytes \in {2, 4, 8}
         /\ cap % Delivers(BaseFormats[i]).frame_bytes = 0
<1> DEFINE c == BaseFormats[i]
           b == Delivers(c).frame_bytes
<1>1. c \in Sampled /\ c.channels \in {1, 2}
  BY BaseFormatsAreSampled
<1>2. b = c.channels * (IF c.bits = 16 THEN 2 ELSE 4)
  BY <1>1, DeliveredFields
<1>3. b \in {2, 4, 8}
  BY <1>1, <1>2
<1> HIDE DEF b, c
<1>4. cap % 2 = 0 /\ cap % 4 = 0
  OBVIOUS
<1>5. cap % b = 0
  BY <1>3, <1>4
<1> QED
  BY <1>3, <1>5 DEF b, c

(* Products of the sizes of a picture.                                       *)
LEMMA SatMulFacts ==
  ASSUME NEW a \in Nat, NEW b \in Nat
  PROVE  SatMul(a, b) \in 0 .. MaxU32
<1>1. a * b \in Nat
  OBVIOUS
<1> QED
  BY <1>1, MaxU32IsNatural DEF SatMul

(***************************************************************************)
(* parse_video_format yields at most one format, and set_geometry may divide *)
(* by its frame size: it is not zero.  A frame is height rows of stride      *)
(* bytes, but for less than a byte a row, whatever the orientation of the    *)
(* picture and whether the source gave its size or it was derived with       *)
(* saturating products.                                                      *)
(***************************************************************************)
THEOREM VideoFormatsAreWhole ==
  ASSUME NEW mt \in VideoMedia, NEW f \in ParseVideoFormat(mt)
  PROVE  /\ ParseVideoFormat(mt) = {f}
         /\ f \in VideoFormats
         /\ f.width # 0 /\ f.height # 0
         /\ f.stride * f.height <= f.frame_size
         /\ f.frame_size < f.stride * f.height + f.height
         /\ mt.block.size_image = 0 => f.frame_size <= MaxU32
<1> DEFINE bih == mt.block
           size == FrameSize(bih)
           h == Abs(bih.height)
<1>1. /\ bih.width \in Int /\ bih.height \in Int /\ bih.bit_count \in Nat
      /\ bih.fourcc \in Nat /\ bih.size_image \in Nat
  BY DEF VideoMedia
<1>2. /\ bih.width # 0 /\ bih.height # 0 /\ size # 0
      /\ f = [width |-> Abs(bih.width), height |-> h, stride |-> size \div h,
              fourcc |-> bih.fourcc, frame_size |-> size]
      /\ ParseVideoFormat(mt) = {f}
  BY DEF ParseVideoFormat
<1>3. Abs(bih.width) \in Nat \ {0} /\ h \in Nat \ {0}
  BY <1>1, <1>2 DEF Abs
<1>4. size \in Nat /\ (bih.size_image = 0 => size <= MaxU32)
  <2> DEFINE bits == SatMul(SatMul(Abs(bih.width), h), bih.bit_count)
  <2>1. bits \in 0 .. MaxU32
    <3> DEFINE area == SatMul(Abs(bih.width), h)
    <3>1. area \in Nat
      BY <1>3, SatMulFacts, MaxU32IsNatural
    <3> HIDE DEF area, bih
    <3>2. SatMul(area, bih.bit_count) \in 0 .. MaxU32
      BY <1>1, <3>1, SatMulFacts
    <3> QED
      BY <3>2 DEF area
  <2>2. size = IF bih.size_image # 0 THEN bih.size_image ELSE bits \div 8
    BY DEF FrameSize
  <2> HIDE DEF bits
  <2>3. bits \div 8 \in 0 .. MaxU32
    BY <2>1, MaxU32IsNatural
  <2> QED
    BY <1>1, <2>2, <2>3
<1>5. /\ size \div h \in Nat /\ (size \div h) * h <= size
      /\ size < (size \div h) * h + h
  <2> HIDE DEF size, h
  <2>1. size \div h \in Int /\ (size \div h) * h <= size /\ size < (size \div h) * h + h
    BY <1>3, <1>4, DivMod, CutDown
  <2>2. size \div h \in Nat
    BY <1>3, <1>4
  <2> QED
    BY <2>1, <2>2
<1> HIDE DEF size, h, bih
<1>6. f \in VideoFormats
  BY <1>1, <1>2, <1>3, <1>4, <1>5 DEF VideoFormats
<1>7. f.width # 0 /\ f.height = h /\ f.stride = size \div h /\ f.frame_size = size /\ h # 0
  BY <1>2, <1>3
<1> QED
  BY <1>2, <1>4, <1>5, <1>6, <1>7 DEF bih

=============================================================================
