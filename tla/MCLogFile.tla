------------------------------ MODULE MCLogFile ------------------------------
(* Two writers. Three inodes are never all in use when a file is created:   *)
(* then the path leads nowhere, and .old and the other writer's descriptor  *)
(* take two. A file exceeds the limit after two lines.                      *)
EXTENDS LogFile, TLC

CONSTANTS p1, p2, i1, i2, i3

MCProc == {p1, p2}
MCInode == {i1, i2, i3}
=============================================================================
