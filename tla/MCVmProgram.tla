----------------------------- MODULE MCVmProgram -----------------------------
(* Media types that the grabbers may be connected with, for VmProgram.       *)
EXTENDS VmProgram

Wave(kind, bytes, bits) ==
  [formattype |-> "WaveFormatEx", size |-> bytes,
   block |-> [tag |-> kind, channels |-> 2, rate |-> 48000, bits |-> bits,
              block |-> bits \div 4, float |-> FALSE]]

Picture(kind, bytes, w, h, given) ==
  [formattype |-> kind, size |-> bytes,
   block |-> [width |-> w, height |-> h, bit_count |-> 12, fourcc |-> 1, size_image |-> given]]

(* Plain, extensible, 24 bits (not carried), and a block cut short.          *)
Waves == {Wave(1, 18, 16), Wave(65534, 40, 32), Wave(1, 18, 24), Wave(65534, 18, 16)}

(* Upright with its size given, top-down with it derived, one too large for  *)
(* the region, and one of the other kind of header.                          *)
Pictures == {Picture("VideoInfo", 88, 8, 4, 48), Picture("VideoInfo", 88, 8, -4, 0),
             Picture("VideoInfo", 88, 16, 16, 384), Picture("VideoInfo2", 112, 8, 4, 48)}

=============================================================================
