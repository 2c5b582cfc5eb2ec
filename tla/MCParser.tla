------------------------------ MODULE MCParser ------------------------------
(* Two overlapping runs, two event ids, one harmless and one unsafe detail  *)
(* and one that a column refuses.                                           *)
(* An unsigned int holds 0..2, so of the ids an API response may list, 3    *)
(* wraps around to 0 and 4 to 1.                                            *)
EXTENDS Parser

CONSTANTS p1, p2, fine, unsafe, garbled

MCParser2 == {p1, p2}
MCId == 1..2
MCRawId == {-1, 1, 2, 3, 4}
MCContent == {fine, unsafe, garbled}
MCSafeContent == {fine, garbled}
MCRefused == {garbled}
=============================================================================
