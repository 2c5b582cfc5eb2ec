----------------------------- MODULE MCLockFile -----------------------------
(* Three processes, three inodes: enough for a holder, a contender that has *)
(* the file open and a newcomer that opens it afresh.                       *)
EXTENDS LockFile, TLC

CONSTANTS p1, p2, p3, i1, i2, i3

MCProc == {p1, p2, p3}
MCInode == {i1, i2, i3}
=============================================================================
