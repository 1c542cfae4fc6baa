---------------------------- MODULE MCSyncGroup ----------------------------
(***************************************************************************)
(* Instances of SyncGroup: values a .cfg file cannot write.                *)
(***************************************************************************)
EXTENDS SyncGroup

AnyWay == {-1, 0, 2}

Sooner == -1
=============================================================================
