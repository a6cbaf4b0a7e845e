----------------------------- MODULE MCFreeSpace -----------------------------
(***************************************************************************)
(* The disk of FreeSpace for TLC: the zone behind the first one that can   *)
(* be taken is another file's.                                             *)
(***************************************************************************)
EXTENDS FreeSpace

MCDiskZones == 1 .. 4
MCOthers == {2}
=============================================================================
