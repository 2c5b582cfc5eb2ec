--------------------------- MODULE MCTelegramSend ---------------------------
(* The limits of the code, and a retry_after on each side of both ends of   *)
(* the clamp.                                                               *)
EXTENDS TelegramSend

MCRetryAfter == {-7, -1, 0, 1, 30, 299, 300, 301, 86400}
=============================================================================
