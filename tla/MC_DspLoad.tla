------------------------------ MODULE MC_DspLoad ------------------------------
(* Firmware images for TLC. *)
EXTENDS DspLoad

\* Segments that fill the buffer more than once, of less than a frame, without a
\* magic number, after a list, and a list at the end
MCImages == {
  <<Segment(1, 7, TRUE)>>,
  <<Segment(1, 1, FALSE), Segment(3, 2, FALSE)>>,
  <<Segment(1, 4, FALSE), Bad>>,
  <<Segment(2, 1, TRUE)>>,
  <<Segment(1, 3, FALSE), List>>}
==============================================================================
