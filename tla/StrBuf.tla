-------------------------------- MODULE StrBuf --------------------------------
(***************************************************************************)
(* The growable string of util.c (strbuf_t), on which every text of the    *)
(* program is built: its capacity, the bytes in it, and the arithmetic of  *)
(* strbuf_reserve() in a size_t of SizeMax, wrapping as in C.              *)
(***************************************************************************)
EXTENDS Naturals

CONSTANTS SizeMax,        \* SIZE_MAX
          FirstCap        \* 64, the capacity of a new buffer

(* What the constants have to satisfy. *)
StrBufConstants ==
    /\ SizeMax \in Nat /\ FirstCap \in 1..SizeMax

VARIABLES strbuf_pc,      \* "free", "ready", or where strbuf_reserve() is
          cap,            \* b->cap (0 when b->data is NULL)
          len,            \* b->len
          extra,          \* the bytes to append
          newcap          \* strbuf_reserve()'s local

strbufVars == <<strbuf_pc, cap, len, extra, newcap>>

Size == 0..SizeMax

Wrapped(n) == n % (SizeMax + 1)

StrBufTypeOK ==
    /\ strbuf_pc \in {"free", "ready", "reserve", "grow", "realloc", "write"}
    /\ cap \in Size /\ len \in Size /\ extra \in Size /\ newcap \in Size

Init ==
    /\ strbuf_pc = "free"
    /\ cap = 0 /\ len = 0 /\ extra = 0 /\ newcap = 0

(* strbuf_init(); its malloc() may fail. *)
InitBuffer ==
    /\ strbuf_pc = "free"
    /\ strbuf_pc' = "ready"
    /\ cap' \in {0, FirstCap}
    /\ UNCHANGED <<len, extra, newcap>>

(* strbuf_append(), or strbuf_append_fmt(), which may come to no bytes. *)
Append ==
    /\ strbuf_pc = "ready"
    /\ strbuf_pc' = "reserve"
    /\ extra' \in Size
    /\ UNCHANGED <<cap, len, newcap>>

Need == Wrapped(len + extra + 1)

OverflowsByOne == extra > SizeMax - len           \* the NUL forgotten

(* extra > SIZE_MAX - b->len - 1 *)
Overflows == extra > Wrapped(2 * SizeMax - len)

(* strbuf_reserve(): impossible, there already, or to be allocated. *)
Reserve ==
    /\ strbuf_pc = "reserve"
    /\ \/ Overflows
          /\ strbuf_pc' = "ready" /\ extra' = 0 /\ UNCHANGED newcap
       \/ ~Overflows /\ Need <= cap
          /\ strbuf_pc' = "write" /\ UNCHANGED <<extra, newcap>>
       \/ ~Overflows /\ Need > cap
          /\ strbuf_pc' = "grow" /\ UNCHANGED extra
          /\ newcap' = IF cap = 0 THEN FirstCap ELSE cap
    /\ UNCHANGED <<cap, len>>

DoubleUnchecked ==                                \* no stop
    /\ strbuf_pc = "grow" /\ newcap < Need
    /\ newcap' = Wrapped(2 * newcap)
    /\ UNCHANGED <<strbuf_pc, cap, len, extra>>

(* One round of the doubling loop; it stops short of an overflow. *)
Double ==
    /\ strbuf_pc = "grow" /\ newcap < Need
    /\ newcap' = IF newcap > SizeMax \div 2 THEN Need ELSE Wrapped(2 * newcap)
    /\ UNCHANGED <<strbuf_pc, cap, len, extra>>

EndOfGrowth ==
    /\ strbuf_pc = "grow" /\ newcap >= Need
    /\ strbuf_pc' = "realloc"
    /\ UNCHANGED <<cap, len, extra, newcap>>

(* realloc(): without memory the text is dropped, the buffer stays. *)
Realloc ==
    /\ strbuf_pc = "realloc"
    /\ \/ cap' = newcap /\ strbuf_pc' = "write" /\ UNCHANGED extra
       \/ cap' = cap /\ strbuf_pc' = "ready" /\ extra' = 0
    /\ newcap' = 0
    /\ UNCHANGED len

(* memcpy() and the NUL. *)
Write ==
    /\ strbuf_pc = "write"
    /\ strbuf_pc' = "ready"
    /\ len' = Wrapped(len + extra)
    /\ extra' = 0
    /\ UNCHANGED <<cap, newcap>>

(* strbuf_release(): the text goes to the caller, and a new one begins. *)
Release ==
    /\ strbuf_pc = "ready"
    /\ cap' \in {0, FirstCap} /\ len' = 0
    /\ UNCHANGED <<strbuf_pc, extra, newcap>>

(* strbuf_free() *)
Free ==
    /\ strbuf_pc = "ready"
    /\ strbuf_pc' = "free" /\ cap' = 0 /\ len' = 0
    /\ UNCHANGED <<extra, newcap>>

InCall ==
    \/ Reserve \/ Double \/ EndOfGrowth \/ Realloc \/ Write

Next == InitBuffer \/ Append \/ InCall \/ Release \/ Free

Spec == Init /\ [][Next]_strbufVars
LiveSpec == Spec /\ WF_strbufVars(InCall)

-----------------------------------------------------------------------------
(* What an append writes, its NUL included, stays within what is allocated, *)
(* whatever the lengths: the sums are those of the integers, not wrapped.   *)
WritesFit ==
    /\ cap > 0 => len + 1 <= cap
    /\ cap = 0 => len = 0
    /\ strbuf_pc = "write" => len + extra + 1 <= cap

(* An append returns: the doubling never wraps around to a capacity from    *)
(* which it could go on for ever.                                           *)
AppendReturns == strbuf_pc \in {"reserve", "grow"} ~> strbuf_pc \in {"ready", "write"}
=============================================================================
