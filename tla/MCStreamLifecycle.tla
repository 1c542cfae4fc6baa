------------------------- MODULE MCStreamLifecycle -------------------------
(***************************************************************************)
(* StreamLifecycle for TLC.  Every variable has a finite range, so nothing *)
(* is bounded; the runs differ in what the users may ask for, because      *)
(* refresh and skip together multiply the states by ten.                   *)
(***************************************************************************)
EXTENDS StreamLifecycle

MCAllKinds == {"standard", "hls", "ivs"}

MCRefreshing == {"activate", "deactivate", "update", "refresh"}
MCSkipping == {"activate", "deactivate", "skip"}
=============================================================================
