----------------------------- MODULE MCPipeline -----------------------------
(* One run of each binary at a time (overlapping runs of the same binary    *)
(* are the subject of MCParser and MCPublisher), two events, two details    *)
(* and one that a column refuses.                                           *)
EXTENDS Pipeline

CONSTANTS p1, q1, fine, unsafe, garbled

MCParser1 == {p1}
MCPublisher1 == {q1}
MCId2 == 1..2
MCId1 == {1}
MCContent == {fine, unsafe, garbled}
MCRefused == {garbled}
MCSafeContent == {fine}
=============================================================================
