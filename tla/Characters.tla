------------------------------ MODULE Characters ------------------------------
(***************************************************************************)
(* The UTF-8 functions of util.c and json.c that keep no state, on bytes,  *)
(* and what the Unicode standard says of the same bytes.                   *)
(***************************************************************************)
EXTENDS Integers, FiniteSets, Sequences, SequencesExt

Starts(s) == {p \in DOMAIN s : s[p] \div 64 # 2}

(* utf8_strlen() and utf8_substr_alloc() *)
utf8_strlen(s) == Cardinality(Starts(s))
utf8_substr_alloc(s, max_chars) ==
    LET behind == {p \in Starts(s) : Cardinality({q \in Starts(s) : q < p}) = max_chars}
    IN  IF behind = {} THEN s ELSE SubSeq(s, 1, Min(behind) - 1)

(* sb_push_utf8() of json.c: the bytes of a code point. *)
utf8_of(code) ==
    IF code < 128 THEN <<code>>
    ELSE IF code < 2048 THEN <<192 + code \div 64, 128 + (code % 64)>>
    ELSE IF code < 65536
    THEN <<224 + code \div 4096, 128 + ((code \div 64) % 64), 128 + (code % 64)>>
    ELSE <<240 + code \div 262144, 128 + ((code \div 4096) % 64),
           128 + ((code \div 64) % 64), 128 + (code % 64)>>
-----------------------------------------------------------------------------
(* Table 3-7 of the Unicode standard, "Well-Formed UTF-8 Byte Sequences". *)
CharLen(c) == CASE c \in 1..127 -> 1 [] c \in 194..223 -> 2
                [] c \in 224..239 -> 3 [] c \in 240..244 -> 4 [] OTHER -> 0
SecondByte(c) == CASE c = 224 -> 160..191 [] c = 237 -> 128..159
                   [] c = 240 -> 144..191 [] c = 244 -> 128..143
                   [] OTHER -> 128..191

BeginsChar(s) ==
    /\ s # <<>> => Len(s) <= CharLen(s[1])
    /\ Len(s) >= 2 => s[2] \in SecondByte(s[1])
    /\ \A p \in 3..Len(s) : s[p] \in 128..191
IsChar(s) == BeginsChar(s) /\ s # <<>> /\ Len(s) = CharLen(s[1])

(* A text as the characters it is made of, and a rest that is none (yet):   *)
(* with one more byte, and after each of its bytes.                         *)
NoChars == [chars |-> <<>>, rest |-> <<>>]
WithByte(split, c) ==
    LET rest == Append(split.rest, c)
    IN  IF IsChar(rest) THEN [chars |-> Append(split.chars, rest), rest |-> <<>>]
                        ELSE [chars |-> split.chars, rest |-> rest]
CharsUpTo(s) ==
    LET upto[n \in 0..Len(s)] ==
            IF n = 0 THEN NoChars ELSE WithByte(upto[n - 1], s[n])
    IN  upto
Chars(s) == CharsUpTo(s)[Len(s)]
WellFormed(s) == Chars(s).rest = <<>>
===============================================================================
