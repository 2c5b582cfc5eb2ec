----------------------------- MODULE MCPublisher -----------------------------
(* Two overlapping runs, two event ids, one harmless and one unsafe detail. *)
EXTENDS Publisher

CONSTANTS q1, q2, fine, unsafe

MCPublisher2 == {q1, q2}
MCId == 1..2
MCContent == {fine, unsafe}
MCSafeContent == {fine}
=============================================================================
