----------------------------- MODULE MCTimeSync -----------------------------
(***************************************************************************)
(* Values of Begin for TLC, in units of five seconds: two times on the two *)
(* sides of a full minute, and four around the 45th second and the minute. *)
(***************************************************************************)
EXTENDS TimeSync

AcrossMinutes == {8, 12}
TwoMinutes == {7, 9, 10, 12}
=============================================================================
