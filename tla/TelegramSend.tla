---------------------------- MODULE TelegramSend ----------------------------
(***************************************************************************)
(* One call of telegram_send_message(): POST requests to the Bot API, the  *)
(* replies it may meet and the back-off after a 429.  Time is counted in   *)
(* seconds of sleep(); a request itself takes none.                        *)
(***************************************************************************)
EXTENDS Integers

CONSTANTS MaxRetries,   \* MAX_RETRIES, 1 in the code
          Longest,      \* the upper end of the clamp, 300 in the code
          RetryAfter    \* values a 429 reply may carry as retry_after

ASSUME TelegramAssumption ==
    /\ MaxRetries \in Nat /\ Longest \in Nat
    /\ RetryAfter \subseteq Int

VARIABLES pc,           \* "post", "sleep" or "returned"
          attempt,      \* the loop counter
          retry_after,  \* seconds, as clamped
          result,       \* the return value
          copies,       \* history: copies of the message in the topic
          now,          \* history: seconds slept so far
          closed_until  \* history: when the server accepts requests again

vars == <<pc, attempt, retry_after, result, copies, now, closed_until>>

Init ==
    /\ pc = "post" /\ attempt = 0 /\ retry_after = 0 /\ result = 0
    /\ copies = 0 /\ now = 0 /\ closed_until = 0
-----------------------------------------------------------------------------
Return(value) == pc' = "returned" /\ result' = value

(* {"ok": true}: the message is in the topic. *)
Accepted ==
    /\ pc = "post"
    /\ copies' = copies + 1
    /\ Return(1)
    /\ UNCHANGED <<attempt, retry_after, now, closed_until>>

NoReplyRetried ==                                 \* continue, not break
    /\ pc = "post"
    /\ copies' \in {copies, copies + 1}
    /\ attempt' = attempt + 1
    /\ IF attempt < MaxRetries THEN UNCHANGED <<pc, result>> ELSE Return(0)
    /\ UNCHANGED <<retry_after, now, closed_until>>

(* telegram_post() gives NULL: no reply, a status other than 200 and 429, or *)
(* a body json_parse() rejects.  The message may have been accepted.        *)
NoReply ==
    /\ pc = "post"
    /\ copies' \in {copies, copies + 1}
    /\ Return(0)
    /\ UNCHANGED <<attempt, retry_after, now, closed_until>>

(* An API error other than 429. *)
Rejected ==
    /\ pc = "post"
    /\ Return(0)
    /\ UNCHANGED <<attempt, retry_after, copies, now, closed_until>>

Unclamped(seconds) == IF seconds < 0 THEN 0 ELSE seconds

Clamped(seconds) ==
    IF seconds < 0 THEN 0 ELSE IF seconds > Longest THEN Longest ELSE seconds

(* Error 429 with retry_after, or without it (then 5 is assumed). *)
RateLimited ==
    /\ pc = "post"
    /\ \E seconds \in RetryAfter \cup {5} :
        /\ retry_after' = Clamped(seconds)
        /\ closed_until' = now + seconds
    /\ pc' = "sleep"
    /\ UNCHANGED <<attempt, result, copies, now>>

SleepShort ==                                     \* sleep() forgotten
    /\ pc = "sleep"
    /\ attempt' = attempt + 1
    /\ IF attempt < MaxRetries THEN pc' = "post" /\ UNCHANGED result
                               ELSE Return(0)
    /\ UNCHANGED <<retry_after, copies, now, closed_until>>

RetryAtOnce ==                                    \* neither slept nor counted
    /\ pc = "sleep"
    /\ pc' = "post"
    /\ UNCHANGED <<attempt, retry_after, result, copies, now, closed_until>>

(* sleep(retry_after + 1), then the next attempt or the end of the loop. *)
Sleep ==
    /\ pc = "sleep"
    /\ now' = now + retry_after + 1
    /\ attempt' = attempt + 1
    /\ IF attempt < MaxRetries THEN pc' = "post" /\ UNCHANGED result
                               ELSE Return(0)
    /\ UNCHANGED <<retry_after, copies, closed_until>>

Next == Accepted \/ NoReply \/ Rejected \/ RateLimited \/ Sleep

Spec == Init /\ [][Next]_vars

(* curl gives up after TELEGRAM_TIMEOUT seconds and sleep() returns. *)
LiveSpec == Spec /\ WF_vars(Next)
-----------------------------------------------------------------------------
BoundedDelay == now <= (MaxRetries + 1) * (Longest + 1)
WindowHonoured ==
    pc = "post" => \/ now > closed_until \/ attempt = 0
                   \/ retry_after = Longest

(* No request is repeated while the server has asked for silence ("honour   *)
(* the rate limit window"), as far as the clamp lets it ask: however it     *)
(* answers, the call holds up the run, and the lock the run holds, for a    *)
(* bounded time only (the comment on the clamp).                            *)
WaitsAsAsked == BoundedDelay /\ WindowHonoured

(* The call comes back. *)
CallReturns == <>(pc = "returned")

(* At most one copy, and 1 only if it is there, over all the attempts.      *)
Once == INSTANCE SendOnce WITH returned <- pc = "returned"
ImplementsSendOnce == Once!SendSpec
=============================================================================
