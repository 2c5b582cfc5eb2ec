--------------------------------- MODULE Utf8 ---------------------------------
(***************************************************************************)
(* utf8_valid() of util.c with its two loops, over a text that is chosen   *)
(* byte by byte as it is looked at; 0 is the end of the text.              *)
(***************************************************************************)
EXTENDS Characters

CONSTANTS Byte,           \* bytes a text may have
          MaxBytes        \* bound: where the last character may begin

(* What the constants have to satisfy. *)
Utf8Constants == Byte \subseteq 1..255 /\ MaxBytes \in Nat

VARIABLES utf8_pc,        \* "idle", "lead", "tail", "valid" or "invalid"
          bytes,          \* the text as far as it was looked at
          cp, left, min_cp

utf8Vars == <<utf8_pc, bytes, cp, left, min_cp>>

Utf8TypeOK ==
    /\ utf8_pc \in {"idle", "lead", "tail", "valid", "invalid"}
    /\ bytes \in Seq(Byte \cup {0})
    /\ cp \in Nat /\ cp <= 2097151              \* 21 bits
    /\ left \in 0..3 /\ min_cp \in {0, 128, 2048, 65536}

Init == utf8_pc = "idle" /\ bytes = <<>> /\ cp = 0 /\ left = 0 /\ min_cp = 0

Call ==
    /\ utf8_pc = "idle"
    /\ utf8_pc' = "lead"
    /\ UNCHANGED <<bytes, cp, left, min_cp>>

(* The first byte of a character, by its upper bits: how many follow, its   *)
(* bits of the code point, and the least code point of this length.         *)
Leads(c, n, bits, least) ==
    utf8_pc' = "tail" /\ left' = n /\ cp' = bits /\ min_cp' = least

Lead ==
    /\ utf8_pc = "lead" /\ Len(bytes) < MaxBytes
    /\ \E c \in Byte :
        /\ bytes' = Append(bytes, c)
        /\ IF c < 128 THEN UNCHANGED <<utf8_pc, cp, left, min_cp>>
           ELSE IF c \div 32 = 6 THEN Leads(c, 1, c % 32, 128)
           ELSE IF c \div 16 = 14 THEN Leads(c, 2, c % 16, 2048)
           ELSE IF c \div 8 = 30 THEN Leads(c, 3, c % 8, 65536)
           ELSE utf8_pc' = "invalid" /\ UNCHANGED <<cp, left, min_cp>>

OutOfRangeOrShort(code) == code < min_cp \/ code > 1114111  \* no surrogates

(* Overlong, behind U+10FFFF, or a surrogate. *)
OutOfRange(code) ==
    code < min_cp \/ code > 1114111 \/ (code >= 55296 /\ code <= 57343)

Follow ==
    /\ utf8_pc = "tail"
    /\ \E c \in Byte \cup {0} :
        /\ bytes' = Append(bytes, c)
        /\ IF c \div 64 # 2
           THEN utf8_pc' = "invalid" /\ UNCHANGED <<cp, left>>
           ELSE /\ cp' = cp * 64 + (c % 64)
                /\ left' = left - 1
                /\ utf8_pc' = IF left > 1 THEN "tail"
                              ELSE IF OutOfRange(cp') THEN "invalid" ELSE "lead"
        /\ UNCHANGED min_cp

End ==
    /\ utf8_pc = "lead"
    /\ utf8_pc' = "valid"
    /\ UNCHANGED <<bytes, cp, left, min_cp>>

Free ==
    /\ utf8_pc \in {"valid", "invalid"}
    /\ utf8_pc' = "idle" /\ bytes' = <<>> /\ cp' = 0 /\ left' = 0 /\ min_cp' = 0

Next == Call \/ Lead \/ Follow \/ End \/ Free
-----------------------------------------------------------------------------
(* utf8_valid() accepts well-formed UTF-8 and nothing else; it rejects a    *)
(* text only at bytes with which no such text begins, or at its end.        *)
(* Such a text is counted and cut by characters, never within one: the      *)
(* columns, and the buffers of event.h, are measured in them.               *)
Utf8Exact ==
    /\ utf8_pc = "valid" =>
        /\ WellFormed(bytes)
        /\ LET chars == Chars(bytes).chars IN
            /\ utf8_strlen(bytes) = Len(chars)
            /\ \A n \in 0..Len(chars) :
                utf8_substr_alloc(bytes, n) = FlattenSeq(SubSeq(chars, 1, n))
    /\ utf8_pc = "invalid" =>
        IF Last(bytes) = 0 THEN ~WellFormed(Front(bytes))
                           ELSE ~BeginsChar(Chars(bytes).rest)
===============================================================================
