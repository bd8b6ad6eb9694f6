----------------------------- MODULE MCResults -----------------------------
(* Instances of Results for TLC: one student polls, one reads the logs. *)
EXTENDS Results, TLC

CONSTANTS ann, ben
=============================================================================
