----------------------------- MODULE MCDArchiver -----------------------------
(* Bounds for TLC: the constants are given in the .cfg files.  Every name   *)
(* uses one gauge at most, and a name main is about to register uses none,  *)
(* so with as many GaugeVec identities as names a free one always exists.   *)
EXTENDS DArchiver
==============================================================================
