-------------------------- MODULE TelegramSendProofs --------------------------
(***************************************************************************)
(* What one call of telegram_send_message() gives its caller, for every    *)
(* number of retries, every clamp and whatever a 429 reply asks for.       *)
(***************************************************************************)
EXTENDS TelegramSend, TLAPS

SendTypeOK ==
    /\ pc \in {"post", "sleep", "returned"}
    /\ attempt \in 0..(MaxRetries + 1)
    /\ retry_after \in 0..Longest
    /\ result \in {0, 1}
    /\ copies \in Nat
    /\ now \in Nat
    /\ closed_until \in Int

(* The call is over at the latest when the attempts are, and each of them   *)
(* has slept once.                                                         *)
AttemptsLeft ==
    /\ pc # "returned" => attempt <= MaxRetries
    /\ now <= attempt * (Longest + 1)

(* What is about to be slept reaches the end of the window, or is the most  *)
(* the clamp allows.                                                       *)
SleepCovers ==
    pc = "sleep" => closed_until <= now + retry_after \/ retry_after = Longest

(* While attempts are left, none has put a message into the topic.          *)
NothingYet == pc # "returned" => copies = 0 /\ result = 0

IInv == SendTypeOK /\ AttemptsLeft /\ SleepCovers /\ WindowHonoured /\ NothingYet

LEMMA InitIInv == Init => IInv
  BY TelegramAssumption
  DEF Init, IInv, SendTypeOK, AttemptsLeft, SleepCovers, WindowHonoured,
      NothingYet

(* The clamp: what is slept is never negative nor longer than the limit,    *)
(* and shorter than asked only at the limit.                               *)
LEMMA ClampedFacts ==
  ASSUME NEW seconds \in Int
  PROVE  /\ Clamped(seconds) \in 0..Longest
         /\ seconds <= Clamped(seconds) \/ Clamped(seconds) = Longest
  BY TelegramAssumption DEF Clamped

(* One more attempt has at most one more of the longest sleeps.             *)
LEMMA OneMoreSleep ==
  ASSUME NEW n \in Nat, NEW m \in Nat, NEW t \in Nat, NEW s \in 0..m,
         t <= n * (m + 1)
  PROVE  t + s + 1 <= (n + 1) * (m + 1)
  <1>1. (n + 1) * (m + 1) = n * (m + 1) + m + 1
    OBVIOUS
  <1>2. n * (m + 1) \in Nat
    OBVIOUS
  <1> DEFINE k == n * (m + 1)
  <1> HIDE DEF k
  <1>3. QED BY <1>1, <1>2 DEF k

LEMMA ReplyKeepsIInv ==
  ASSUME IInv, Accepted \/ NoReply \/ Rejected
  PROVE  IInv'
  BY DEF Accepted, NoReply, Rejected, Return, IInv, SendTypeOK, AttemptsLeft,
         SleepCovers, WindowHonoured, NothingYet

LEMMA RateLimitedKeepsIInv ==
  ASSUME IInv, RateLimited
  PROVE  IInv'
  <1>1. PICK seconds \in RetryAfter \cup {5} :
          retry_after' = Clamped(seconds) /\ closed_until' = now + seconds
    BY DEF RateLimited
  <1>2. seconds \in Int
    BY TelegramAssumption
  <1>3. /\ retry_after' \in 0..Longest /\ closed_until' \in Int
        /\ closed_until' <= now + retry_after' \/ retry_after' = Longest
    BY <1>1, <1>2, ClampedFacts, TelegramAssumption DEF IInv, SendTypeOK
  <1>4. QED
    BY <1>3
    DEF RateLimited, IInv, SendTypeOK, AttemptsLeft, SleepCovers,
        WindowHonoured, NothingYet

LEMMA SleepKeepsIInv ==
  ASSUME IInv, Sleep
  PROVE  IInv'
  <1>t. /\ now \in Nat /\ retry_after \in 0..Longest /\ closed_until \in Int
        /\ attempt \in 0..MaxRetries /\ Longest \in Nat /\ MaxRetries \in Nat
        /\ now <= attempt * (Longest + 1)
    BY TelegramAssumption DEF Sleep, IInv, SendTypeOK, AttemptsLeft
  <1>1. now' = now + retry_after + 1 /\ attempt' = attempt + 1
    BY DEF Sleep
  <1>2. now' <= attempt' * (Longest + 1)
    BY <1>t, <1>1, OneMoreSleep
  <1>3. AttemptsLeft'
    BY <1>t, <1>1, <1>2 DEF Sleep, Return, AttemptsLeft
  <1>4. SendTypeOK'
    BY <1>t, <1>1 DEF Sleep, Return, IInv, SendTypeOK
  <1>5. WindowHonoured'
    BY <1>t, <1>1 DEF Sleep, Return, IInv, SleepCovers, WindowHonoured
  <1>6. SleepCovers' /\ NothingYet'
    BY DEF Sleep, Return, IInv, SleepCovers, NothingYet
  <1>7. QED BY <1>3, <1>4, <1>5, <1>6 DEF IInv

LEMMA StepKeepsIInv == IInv /\ [Next]_vars => IInv'
  <1>1. IInv /\ Next => IInv'
    BY ReplyKeepsIInv, RateLimitedKeepsIInv, SleepKeepsIInv DEF Next
  <1>2. IInv /\ UNCHANGED vars => IInv'
    BY DEF vars, IInv, SendTypeOK, AttemptsLeft, SleepCovers, WindowHonoured,
           NothingYet
  <1>3. QED BY <1>1, <1>2

LEMMA Inductive == Spec => []IInv
  BY InitIInv, StepKeepsIInv, PTL DEF Spec
-----------------------------------------------------------------------------
(* The rate limit window is kept, as far as the clamp lets it be, and the   *)
(* call sleeps for a bounded time only.                                     *)
THEOREM CallWaitsAsAsked == Spec => []WaitsAsAsked
  <1>1. ASSUME NEW n \in Nat, NEW a \in 0..(n + 1), NEW m \in Nat, NEW t \in Nat,
               t <= a * (m + 1)
        PROVE  t <= (n + 1) * (m + 1)
    <2>1. (n + 1) * (m + 1) = a * (m + 1) + (n + 1 - a) * (m + 1)
      OBVIOUS
    <2>2. (n + 1 - a) * (m + 1) \in Nat /\ a * (m + 1) \in Nat
      OBVIOUS
    <2> DEFINE slept == a * (m + 1)
               rest == (n + 1 - a) * (m + 1)
    <2> HIDE DEF slept, rest
    <2>3. QED BY <1>1, <2>1, <2>2 DEF slept, rest
  <1>2. IInv => BoundedDelay
    BY <1>1, TelegramAssumption DEF IInv, SendTypeOK, AttemptsLeft, BoundedDelay
  <1>3. IInv => WaitsAsAsked
    BY <1>2 DEF IInv, WaitsAsAsked
  <1>4. QED BY <1>3, Inductive, PTL

(* The call puts the message into the topic at most once, and when it       *)
(* returns 1 the message is there: what the publisher relies on.            *)
THEOREM SendsOnce == Spec => ImplementsSendOnce
  <1>1. Init => Once!SendInit
    BY DEF Init, Once!SendInit
  <1>2. ASSUME IInv, Next
        PROVE  [Once!SendNext]_<<pc = "returned", result, copies>>
    <2>1. ASSUME NEW sent \in {0, 1}, NEW arrived \in {0, 1}, sent = 1 => arrived = 1,
                 pc # "returned", pc' = "returned", result' = sent,
                 copies' = copies + arrived
          PROVE  Once!SendNext
      BY <2>1 DEF Once!SendNext, Once!Return
    <2>2. CASE Accepted
      BY <2>1, <2>2 DEF Accepted, Return
    <2>3. CASE NoReply
      BY <1>2, <2>1, <2>3 DEF NoReply, Return, IInv, SendTypeOK
    <2>4. CASE Rejected
      BY <1>2, <2>1, <2>4 DEF Rejected, Return, IInv, SendTypeOK
    <2>5. CASE RateLimited
      BY <2>5 DEF RateLimited
    <2>6. CASE Sleep
      BY <1>2, <2>1, <2>6 DEF Sleep, Return, IInv, SendTypeOK
    <2>7. QED BY <1>2, <2>2, <2>3, <2>4, <2>5, <2>6 DEF Next
  <1>3. UNCHANGED vars => UNCHANGED <<pc = "returned", result, copies>>
    BY DEF vars
  <1>4. IInv /\ [Next]_vars => [Once!SendNext]_<<pc = "returned", result, copies>>
    BY <1>2, <1>3
  <1>5. QED
    BY <1>1, <1>4, Inductive, PTL DEF Spec, ImplementsSendOnce, Once!SendSpec
================================================================================
