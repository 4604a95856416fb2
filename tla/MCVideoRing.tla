----------------------------- MODULE MCVideoRing -----------------------------
(* Formats for checking VideoRing: one that fills its slot, one that leaves   *)
(* padding, and one the region has too few slots for.                        *)
EXTENDS VideoRing

Fills   == [size |-> 4, shape |-> "fills"]
Padded  == [size |-> 3, shape |-> "padded"]
TooBig  == [size |-> 5, shape |-> "toobig"]
Small   == [size |-> 2, shape |-> "small"]

AllFormats == {Fills, Padded, TooBig}
OneFormat  == {Small}
TwoFormats == {Small, Padded}

=============================================================================
