--------------------------------- MODULE Text ---------------------------------
(***************************************************************************)
(* The string helpers of util.c that the way from an API response to a     *)
(* Telegram message is made of.  A string is a sequence of characters; of  *)
(* a word that a check looks for, and of anything else that is only        *)
(* compared as a whole, one character stands for all its letters.          *)
(***************************************************************************)
EXTENDS Integers, FiniteSets, Sequences, SequencesExt

Empty == <<>>

(* isspace(), and the narrower is_php_trim_char(): a form feed is only the  *)
(* former.                                                                  *)
IsSpace(c) == c \in {" ", "\n", "\f"}
IsTrimmed(c) == c \in {" ", "\n"}

(* Bytes of a character in UTF-8.  "stray" is a byte that is part of none.  *)
Size(c) == CASE c = "wide" -> 4 [] c = "e-acute" -> 2 [] OTHER -> 1
Bytes(s) == FoldLeft(LAMBDA sum, c : sum + Size(c), 0, s)

utf8_valid(s) == "stray" \notin Range(s)

(* utf8_substr_alloc() *)
Cut(s, max_chars) == IF Len(s) <= max_chars THEN s ELSE SubSeq(s, 1, max_chars)

(* What is left of s without the characters at some positions. *)
Without(s, removed) ==
    LET upto[n \in 0..Len(s)] ==
            IF n = 0 THEN Empty
            ELSE IF n \in removed THEN upto[n - 1] ELSE Append(upto[n - 1], s[n])
    IN  upto[Len(s)]

(* trim_inplace() *)
Trim(s) == LET solid == {p \in DOMAIN s : ~IsTrimmed(s[p])}
           IN  IF solid = {} THEN Empty ELSE SubSeq(s, Min(solid), Max(solid))

(* From a "<" to the first ">" behind it, or to the end where there is none. *)
InTag(s, p) == \E open \in 1..p : /\ s[open] = "<"
                                  /\ ">" \notin {s[q] : q \in open..(p - 1)}

(* strip_tags_alloc() *)
StripTags(s) == Without(s, {p \in DOMAIN s : InTag(s, p)})

(* The run of white space around p. *)
SpacesAround(s, p) ==
    {q \in DOMAIN s : \A r \in DOMAIN s :
        (r >= p /\ r <= q) \/ (r >= q /\ r <= p) => IsSpace(s[r])}

(* collapse_whitespace_alloc(): three or more become two blanks. *)
Long(s) == {p \in DOMAIN s : Cardinality(SpacesAround(s, p)) >= 3}
Blanked(s) == [p \in DOMAIN s |-> IF p \in Long(s) THEN " " ELSE s[p]]
Collapse(s) == Without(Blanked(s), {p \in Long(s) : {p - 1, p - 2} \subseteq Long(s)})

SanitizedLast(s, max_len) ==                      \* tags removed at the end
    IF utf8_valid(s) THEN StripTags(Cut(Trim(Collapse(s)), max_len)) ELSE Empty

(* sanitize_string_alloc() *)
Sanitized(s, max_len) ==
    IF utf8_valid(s) THEN Cut(Trim(Collapse(StripTags(s))), max_len) ELSE Empty

(* html_escape_alloc() *)
Entity ==
    [c \in {"<", ">", "&", "\"", "'"} |->
        CASE c = "<" -> "lt" [] c = ">" -> "gt" [] c = "&" -> "amp"
          [] c = "\"" -> "quot" [] c = "'" -> "#039"]

HtmlEscapedOnlyTags(s) ==                         \* "&" forgotten
    FlattenSeq([p \in DOMAIN s |->
        IF s[p] \in DOMAIN Entity \ {"&"} THEN <<"&", Entity[s[p]], ";">>
                                         ELSE <<s[p]>>])

HtmlEscaped(s) ==
    FlattenSeq([p \in DOMAIN s |->
        IF s[p] \in DOMAIN Entity THEN <<"&", Entity[s[p]], ";">> ELSE <<s[p]>>])
===============================================================================
