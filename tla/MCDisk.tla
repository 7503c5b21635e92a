------------------------------- MODULE MCDisk -------------------------------
(***************************************************************************)
(* Constants of Disk for TLC: a device of three sectors under addresses of *)
(* four, commands of at most two sectors.                                  *)
(***************************************************************************)
EXTENDS Disk

AllKinds == {"ata", "atapi", "none", "floating"}
AtaOnly == {"ata"}
MCStarts == {0, 1, 2, 5}
MCCounts == 0 .. 3
=============================================================================
