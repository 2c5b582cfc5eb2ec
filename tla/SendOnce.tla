------------------------------ MODULE SendOnce ------------------------------
(***************************************************************************)
(* What the publisher relies on telegram_send_message() for: one call puts *)
(* the message into the topic at most once, and when it returns 1 the      *)
(* message is there.  When it returns 0 nothing is known.                  *)
(***************************************************************************)
EXTENDS Integers

VARIABLES returned,   \* has the call returned?
          result,     \* what it returned (0 until then)
          copies      \* history: copies of the message in the topic

SendInit == returned = FALSE /\ result = 0 /\ copies = 0

Return(sent, arrived) ==
    /\ ~returned
    /\ sent = 1 => arrived = 1
    /\ returned' = TRUE
    /\ result' = sent
    /\ copies' = copies + arrived

SendNext == \E sent, arrived \in {0, 1} : Return(sent, arrived)

SendSpec == SendInit /\ [][SendNext]_<<returned, result, copies>>
=============================================================================
