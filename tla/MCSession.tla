------------------------------ MODULE MCSession ------------------------------
(* Two formats that differ in every field, and the choices of the programs'  *)
(* command lines, for checking Session.                                      *)
EXTENDS Session

S16Stereo == [sample_rate |-> 48, channels |-> 2, format |-> 0, frame_bytes |-> 4]
F32Mono   == [sample_rate |-> 44, channels |-> 1, format |-> 2, frame_bytes |-> 8]

OneFormat  == {S16Stereo}
TwoFormats == {S16Stereo, F32Mono}

=============================================================================
