------------------------------ MODULE JsonString ------------------------------
(***************************************************************************)
(* parse_string() of json.c, and json_escape_alloc() of util.c, which      *)
(* undoes it for the body of a request.  A JSON string is read piece by    *)
(* piece, as it is chosen: a byte as it stands, an escape of two           *)
(* characters (named by the second), an escape "\uXXXX" (a code unit, or   *)
(* -1 for bad digits), or the end of the text.  Allocation failures are    *)
(* those of Json.tla.                                                      *)
(***************************************************************************)
EXTENDS Characters

CONSTANTS Pieces,         \* pieces a string may have
          MaxPieces       \* bound: pieces before the closing quote

(* What the constants have to satisfy. *)
StringConstants ==
    /\ Pieces \subseteq [kind : {"byte", "escape", "unit", "end"}, n : Int]
    /\ \A piece \in Pieces : /\ piece.n >= -1 /\ piece.n <= 65535
                             /\ piece.kind = "byte" => piece.n \in 1..255
    /\ MaxPieces \in Nat

VARIABLES string_pc,      \* "idle", "read", "low", "returned" or "failed"
          source,         \* the pieces read
          out,            \* the bytes of the strbuf_t
          high            \* cp, while its second half is looked for

stringVars == <<string_pc, source, out, high>>

(* The halves of a surrogate pair. *)
High(unit) == unit \in 55296..56319
Low(unit) == unit \in 56320..57343

StringTypeOK ==
    /\ string_pc \in {"idle", "read", "low", "returned", "failed"}
    /\ source \in Seq(Pieces)
    /\ out \in Seq(1..255)                    \* never a NUL
    /\ high = 0 \/ High(high)

Init == string_pc = "idle" /\ source = <<>> /\ out = <<>> /\ high = 0

Quote == 34
(* What the two-character escapes stand for. *)
Unescaped ==
    [c \in {34, 92, 47, 98, 102, 110, 114, 116} |->
        CASE c = 98 -> 8 [] c = 102 -> 12 [] c = 110 -> 10 [] c = 114 -> 13
          [] c = 116 -> 9 [] OTHER -> c]

Goes(pc, text, unit) == [pc |-> pc, out |-> text, high |-> unit]

(* Code point 0 is dropped. *)
Pushed(text, code) == IF code = 0 THEN text ELSE text \o utf8_of(code)

(* One turn of the loop, with text as the bytes so far. *)
Turn(text, piece) ==
    CASE piece.kind = "byte" /\ piece.n = Quote -> Goes("returned", text, 0)
      [] piece.kind = "byte" /\ piece.n # Quote /\ piece.n >= 32 ->
            Goes("read", Append(text, piece.n), 0)
      [] piece.kind = "escape" /\ piece.n \in DOMAIN Unescaped ->
            Goes("read", Append(text, Unescaped[piece.n]), 0)
      [] piece.kind = "unit" /\ High(piece.n) -> Goes("low", text, piece.n)
      [] piece.kind = "unit" /\ piece.n >= 0 /\ ~High(piece.n) ->
            Goes("read", Pushed(text, piece.n), 0)
      [] OTHER -> Goes("failed", text, 0)     \* the end, control characters,
                                              \* other escapes, bad digits
Replacement == 65533

PairedWithoutBase(first, second) ==               \* 0x10000 not added
    (first - 55296) * 1024 + (second - 56320)
Paired(first, second) == 65536 + (first - 55296) * 1024 + (second - 56320)

(* Behind a high surrogate: a second "\uXXXX" is taken with it; of anything *)
(* else the turn is the next one.                                           *)
LowTurn(text, piece) ==
    IF piece.kind # "unit" THEN Turn(Pushed(text, Replacement), piece)
    ELSE IF piece.n < 0 THEN Goes("failed", text, 0)
    ELSE IF Low(piece.n) THEN Goes("read", Pushed(text, Paired(high, piece.n)), 0)
    ELSE Goes("read", Pushed(text, Replacement), 0)

Call ==
    /\ string_pc = "idle"
    /\ string_pc' = "read"
    /\ UNCHANGED <<source, out, high>>

Ends(piece) == piece.kind = "end" \/ (piece.kind = "byte" /\ piece.n = Quote)

Read(piece) ==
    /\ Ends(piece) \/ Len(source) < MaxPieces
    /\ source' = Append(source, piece)
    /\ LET r == IF string_pc = "low" THEN LowTurn(out, piece) ELSE Turn(out, piece)
       IN  string_pc' = r.pc /\ out' = r.out /\ high' = r.high

ReadNext == string_pc \in {"read", "low"} /\ \E piece \in Pieces : Read(piece)

Free ==
    /\ string_pc \in {"returned", "failed"}
    /\ string_pc' = "idle" /\ source' = <<>> /\ out' = <<>> /\ high' = 0

Next == Call \/ ReadNext \/ Free

(* json_escape_alloc() *)
json_escape_alloc(s) ==
    [p \in DOMAIN s |->
        IF \E c \in DOMAIN Unescaped \ {47} : Unescaped[c] = s[p]
        THEN [kind |-> "escape", n |-> CHOOSE c \in DOMAIN Unescaped \ {47} :
                                            Unescaped[c] = s[p]]
        ELSE [kind |-> IF s[p] < 32 THEN "unit" ELSE "byte", n |-> s[p]]]
-----------------------------------------------------------------------------
Bad(piece) ==
    \/ piece.kind = "end" \/ piece.n = -1
    \/ piece.kind = "byte" /\ piece.n < 32
    \/ piece.kind = "escape" /\ piece.n \notin DOMAIN Unescaped

Unit(s, p) == p \in DOMAIN s /\ s[p].kind = "unit"

(* A low surrogate that the piece before it does not pair. *)
LoneLow(s) == \E p \in DOMAIN s :
    /\ Unit(s, p) /\ Low(s[p].n)
    /\ ~(Unit(s, p - 1) /\ High(s[p - 1].n))
HighRun(s) == \E p \in DOMAIN s :
    Unit(s, p) /\ High(s[p].n) /\ Unit(s, p + 1) /\ High(s[p + 1].n)
LoneHigh(s) == \E p \in DOMAIN s :
    /\ Unit(s, p) /\ High(s[p].n)
    /\ ~(Unit(s, p + 1) /\ Low(s[p + 1].n))
Ascii(s) == \A p \in DOMAIN s : s[p].kind = "byte" => s[p].n < 128

(* The characters of pieces in well-formed UTF-16; a pair is one, with its  *)
(* second half.                                                             *)
CodeAt(s, p) ==
    IF s[p].kind = "escape" THEN Unescaped[s[p].n]
    ELSE IF Unit(s, p) /\ Low(s[p].n)
    THEN ((s[p - 1].n % 1024) * 1024) + (s[p].n % 1024) + 65536
    ELSE s[p].n
CodesUpTo(s) ==
    LET upto[n \in 0..Len(s)] ==
            IF n = 0 THEN <<>>
            ELSE IF (Unit(s, n) /\ High(s[n].n)) \/ CodeAt(s, n) = 0
                 THEN upto[n - 1] ELSE Append(upto[n - 1], CodeAt(s, n))
    IN  upto

CodeOf(ch) == CASE Len(ch) = 1 -> ch[1]
                [] Len(ch) = 2 -> (ch[1] - 192) * 64 + ch[2] - 128
                [] Len(ch) = 3 -> ((ch[1] - 224) * 64 + ch[2] - 128) * 64 + ch[3] - 128
                [] OTHER -> (((ch[1] - 240) * 64 + ch[2] - 128) * 64 + ch[3] - 128) * 64
                            + ch[4] - 128
CodesOf(chars) == [k \in DOMAIN chars |-> CodeOf(chars[k])]

(* A string fails at the first piece that JSON does not allow in one, and   *)
(* is otherwise decoded: surrogate pairs to one character, U+0000 to none.  *)
(* Of surrogates that make no pair a high one is replaced, with the escape  *)
(* behind it; a low one leaves bytes that are no UTF-8, for utf8_valid() to *)
(* find.  (Two high ones take each other, so that a low one behind them is  *)
(* alone.  Bytes that are not ASCII are copied, well-formed or not.)        *)
StringsDecoded ==
    /\ string_pc \in {"returned", "failed"} =>
        \A p \in 1..(Len(source) - 1) : ~Bad(source[p])
    /\ string_pc = "failed" => Bad(Last(source))
    /\ string_pc = "returned" /\ Ascii(source) =>
        /\ ~HighRun(source) => (WellFormed(out) <=> ~LoneLow(source))
        /\ ~LoneLow(source) /\ ~LoneHigh(source) =>
            CodesOf(Chars(out).chars) = CodesUpTo(source)[Len(source) - 1]

(* What json_escape_alloc() makes of any text is read as that text again:   *)
(* Telegram gets the message that was formatted.                            *)
ReadUpTo(pieces) ==
    LET upto[n \in 0..Len(pieces)] ==
            IF n = 0 THEN Goes("read", <<>>, 0)
            ELSE IF upto[n - 1].pc = "read" THEN Turn(upto[n - 1].out, pieces[n])
            ELSE upto[n - 1]
    IN  upto
EscapesReadBack ==
    string_pc = "returned" =>
        LET pieces == Append(json_escape_alloc(out), [kind |-> "byte", n |-> Quote])
        IN  ReadUpTo(pieces)[Len(pieces)] = Goes("returned", out, 0)
===============================================================================
