------------------------------- MODULE Formats -------------------------------
(***************************************************************************)
(* How the VM turns the formats of Windows into those of the wire: the       *)
(* candidates that WASAPI is asked for (wasapi.rs make_wfx), what is read     *)
(* out of an accepted or connected one (wasapi.rs parse_audio_format,        *)
(* dshow.rs parse_wfx and parse_video_format) and the types of the shared    *)
(* header (lib.rs SampleFormat, AudioFormat, VideoFormat).  A function that   *)
(* returns an Option is an operator whose value has one element or none.     *)
(***************************************************************************)
EXTENDS Integers

CONSTANT MaxU32   (* the largest u32, at which saturating_mul stays          *)

ASSUME MaxU32IsNatural == MaxU32 \in Nat \ {0}

-----------------------------------------------------------------------------
(* The wire.                                                                 *)

S16Le == 0
S32Le == 1
F32Le == 2
SampleFormats == {S16Le, S32Le, F32Le}

BytesPerSample(f) == IF f = S16Le THEN 2 ELSE 4

AudioFormats ==
  [sample_rate : Nat, channels : Nat, format : SampleFormats, frame_bytes : Nat]

VideoFormats ==
  [width : Nat, height : Nat, stride : Nat, fourcc : Nat, frame_size : Nat \ {0}]

-----------------------------------------------------------------------------
(* WAVEFORMATEX and its extensible form: the fields that are read.           *)

Pcm        == 1
Float      == 3
Extensible == 65534
Tags       == {Pcm, Float, Extensible}

WaveFormats ==
  [tag : Nat, channels : Nat, rate : Nat, bits : Nat, block : Nat, float : BOOLEAN]

(* The five base formats, each tried plain and then extensible.              *)
Candidate(rate, channels, bits, is_float) ==
  [rate |-> rate, channels |-> channels, bits |-> bits, is_float |-> is_float]

BaseFormats ==
  << Candidate(48000, 2, 16, FALSE), Candidate(44100, 2, 16, FALSE),
     Candidate(48000, 1, 16, FALSE), Candidate(48000, 2, 32, FALSE),
     Candidate(48000, 2, 32, TRUE) >>

(* make_wfx; float is whether SubFormat is the GUID of IEEE float.           *)
MakeWfx(c, extensible) ==
  [tag      |-> IF extensible THEN Extensible ELSE IF c.is_float THEN Float ELSE Pcm,
   channels |-> c.channels, rate |-> c.rate, bits |-> c.bits,
   block    |-> c.channels * (c.bits \div 8),
   float    |-> c.is_float]

IsFloat(w) == w.tag = Float \/ (w.tag = Extensible /\ w.float)

(* The wire format of a wave format, if it is one that is carried.           *)
ParseAudioFormat(w) ==
  {[sample_rate |-> w.rate, channels |-> w.channels, format |-> f, frame_bytes |-> w.block] :
     f \in {g \in SampleFormats : /\ w.tag \in Tags
                                  /\ g = F32Le <=> IsFloat(w)
                                  /\ 8 * BytesPerSample(g) = w.bits}}

-----------------------------------------------------------------------------
(* AM_MEDIA_TYPE: the kind of its format block, the size of the block (0 for *)
(* a null pointer), and the block: a WAVEFORMATEX or a BITMAPINFOHEADER.     *)
AudioMedia == [formattype : STRING, size : Nat, block : WaveFormats]

VideoMedia ==
  [formattype : STRING, size : Nat,
   block : [width : Int, height : Int, bit_count : Nat, fourcc : Nat, size_image : Nat]]

SizeOfWfx        == 18
SizeOfExtensible == 40
SizeOfVih        == 88

(* parse_wfx.                                                                *)
ParseWfx(mt) ==
  IF /\ mt.formattype = "WaveFormatEx" /\ mt.size >= SizeOfWfx
     /\ mt.block.tag = Extensible => mt.size >= SizeOfExtensible
    THEN ParseAudioFormat(mt.block)
    ELSE {}

Abs(i) == IF i < 0 THEN -i ELSE i

SatMul(a, b) == IF a * b <= MaxU32 THEN a * b ELSE MaxU32

(* The bytes of a frame, derived when the source leaves them out.            *)
FrameSize(bih) ==
  IF bih.size_image # 0
    THEN bih.size_image
    ELSE SatMul(SatMul(Abs(bih.width), Abs(bih.height)), bih.bit_count) \div 8

(* parse_video_format.                                                       *)
ParseVideoFormat(mt) ==
  LET bih == mt.block IN
  IF \/ mt.formattype # "VideoInfo" \/ mt.size < SizeOfVih
     \/ bih.width = 0 \/ bih.height = 0 \/ FrameSize(bih) = 0
    THEN {}
    ELSE {[width |-> Abs(bih.width), height |-> Abs(bih.height),
           stride |-> FrameSize(bih) \div Abs(bih.height),
           fourcc |-> bih.fourcc, frame_size |-> FrameSize(bih)]}

-----------------------------------------------------------------------------
(* What a candidate delivers, said without the detour over WAVEFORMATEX.     *)
Delivers(c) ==
  LET f == IF c.is_float THEN F32Le ELSE IF c.bits = 16 THEN S16Le ELSE S32Le IN
  [sample_rate |-> c.rate, channels |-> c.channels, format |-> f,
   frame_bytes |-> c.channels * BytesPerSample(f)]

=============================================================================
