----------------------------- MODULE JsonGrammar -----------------------------
(***************************************************************************)
(* What json_parse() is measured against: JSON as a grammar over the       *)
(* tokens of Json.tla, built from the inside out.                          *)
(***************************************************************************)
EXTENDS Naturals, Sequences

CONSTANTS MaxDepth,         \* the caller's max_depth
          MaxTokens         \* bound: tokens of one text

(* One or more members of S with commas between them. *)
Separated(S) ==
    LET list[n \in 1..MaxTokens] ==
            IF n = 1 THEN S
            ELSE S \cup {pair[1] \o <<",">> \o pair[2] : pair \in
                   {p \in S \X list[n - 1] :
                        Len(p[1]) + Len(p[2]) + 3 <= MaxTokens}}
    IN  {s \in list[MaxTokens] : Len(s) + 2 <= MaxTokens}

(* Values that nest at most d deep. *)
Sentence[d \in 0..MaxDepth] ==
    LET plain == {<<"string">>, <<"scalar">>} IN
    IF d = 0 THEN plain
    ELSE plain
         \cup {<<"[">> \o s \o <<"]">> :
                 s \in {<<>>} \cup Separated(Sentence[d - 1])}
         \cup {<<"{">> \o s \o <<"}">> :
                 s \in {<<>>} \cup Separated(
                    {<<"string", ":">> \o v : v \in Sentence[d - 1]})}

Sentences == Sentence[MaxDepth]
=============================================================================
