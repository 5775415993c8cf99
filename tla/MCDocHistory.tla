----------------------------- MODULE MCDocHistory -----------------------------
(* Instances of DocHistory for TLC.                                        *)
EXTENDS DocHistory
=============================================================================
