--------------------------------- MODULE Json ---------------------------------
(***************************************************************************)
(* json.c: json_parse() by recursive descent, over tokens.  A token stands *)
(* for the characters one function consumes; a frame for one call of       *)
(* parse_array() or parse_object() under way.  Allocations are counted     *)
(* (`heap`), and every one of them may fail.                               *)
(***************************************************************************)
EXTENDS Integers, Sequences

CONSTANTS MaxDepth,         \* the caller's max_depth
          FirstCap,         \* 4, room of a new array or object
          MaxTokens         \* bound: tokens of one text

(* What the constants have to satisfy. *)
JsonConstants ==
    /\ MaxDepth \in Nat \ {0} /\ FirstCap \in Nat \ {0} /\ MaxTokens \in Nat

VARIABLES json_pc,    \* what the innermost call looks at next
          read,       \* the tokens consumed
          token,      \* the token at p->pos
          depth,      \* p->depth
          frames,     \* the containers under way, outermost first
          value,      \* blocks of the value last parsed (0: none)
          heap,       \* blocks allocated and not freed
          oom         \* history: an allocation of this call failed

jsonVars == <<json_pc, read, token, depth, frames, value, heap, oom>>

(* "broken" starts like a string but is none, "bad" starts no value.        *)
Token == {"{", "}", "[", "]", ",", ":", "string", "scalar", "broken", "bad"}

Frame == [kind : {"array", "object"},
          count : Nat,      \* elements or members
          cap : Nat,
          blocks : Nat,     \* blocks json_free() of the container would free
          key : {0, 1}]     \* blocks of a key without its value

JsonTypeOK ==
    /\ json_pc \in {"idle", "value", "first", "member", "colon", "store",
                    "next", "end", "unwind", "null", "returned"}
    /\ read \in Seq(Token) /\ token \in Token \cup {"end"}
    /\ depth \in Nat
    /\ frames \in Seq(Frame)
    /\ value \in Nat /\ heap \in Nat
    /\ oom \in BOOLEAN

Top == frames[Len(frames)]
Outer == SubSeq(frames, 1, Len(frames) - 1)
SetTop(frame) == frames' = Append(Outer, frame)

Upcoming(n) == {"end"} \cup (IF n < MaxTokens THEN Token ELSE {})

Init ==
    /\ json_pc = "idle" /\ read = <<>> /\ token = "end" /\ depth = 0
    /\ frames = <<>> /\ value = 0 /\ heap = 0 /\ oom = FALSE

Start ==
    /\ json_pc = "idle"
    /\ json_pc' = "value" /\ token' \in Upcoming(0)
    /\ UNCHANGED <<read, depth, frames, value, heap, oom>>

Consume ==
    /\ read' = Append(read, token)
    /\ token' \in Upcoming(Len(read) + 1)
Stay == UNCHANGED <<read, token>>

(* A complete value goes to the caller: a container, or json_parse().       *)
Deliver(blocks, outer) ==
    /\ value' = blocks
    /\ json_pc' = IF outer = <<>> THEN "end" ELSE "store"

(* NULL goes to the caller. *)
ReturnNull(outer) ==
    /\ value' = 0
    /\ json_pc' = IF outer = <<>> THEN "null" ELSE "unwind"

(* An error path of parse_array() or parse_object(): what is at hand and    *)
(* the container are freed.                                                 *)
GiveUp(at_hand) ==
    /\ depth' = depth - 1
    /\ heap' = heap - at_hand - Top.blocks
    /\ frames' = Outer
    /\ ReturnNull(Outer)

Malloc(succeeds) == oom' = (oom \/ ~succeeds)

(* parse_value() of a number or literal: one block, *)
Scalar ==
    /\ json_pc = "value" /\ token = "scalar"
    /\ Consume
    /\ \E succeeds \in BOOLEAN :
        /\ Malloc(succeeds)
        /\ IF succeeds THEN Deliver(1, frames) /\ heap' = heap + 1
                       ELSE ReturnNull(frames) /\ UNCHANGED heap
    /\ UNCHANGED <<depth, frames>>

(* of a string: the text and its value. *)
String ==
    /\ json_pc = "value" /\ token = "string"
    /\ Consume
    /\ \E succeeds \in BOOLEAN :
        /\ Malloc(succeeds)
        /\ IF succeeds THEN Deliver(2, frames) /\ heap' = heap + 2
                       ELSE ReturnNull(frames) /\ UNCHANGED heap
    /\ UNCHANGED <<depth, frames>>

(* Anything else that is no container. *)
NoValue ==
    /\ json_pc = "value" /\ token \in {"}", "]", ",", ":", "broken", "bad", "end"}
    /\ ReturnNull(frames)
    /\ Stay /\ UNCHANGED <<depth, frames, heap, oom>>

(* parse_array(), parse_object(): the container with its vectors. *)
Kind == IF token = "[" THEN "array" ELSE "object"
Fresh(kind) == [kind |-> kind, count |-> 0, cap |-> FirstCap, key |-> 0,
                blocks |-> IF kind = "array" THEN 2 ELSE 3]

OpenTooDeepCounted ==                             \* depth-- forgotten
    /\ json_pc = "value" /\ token \in {"[", "{"}
    /\ Consume
    /\ IF depth + 1 > MaxDepth
       THEN /\ ReturnNull(frames) /\ depth' = depth + 1
            /\ UNCHANGED <<frames, heap, oom>>
       ELSE /\ depth' = depth + 1
            /\ frames' = Append(frames, Fresh(Kind))
            /\ heap' = heap + Fresh(Kind).blocks
            /\ json_pc' = "first" /\ value' = 0
            /\ UNCHANGED oom

Open ==
    /\ json_pc = "value" /\ token \in {"[", "{"}
    /\ Consume
    /\ IF depth + 1 > MaxDepth
       THEN ReturnNull(frames) /\ UNCHANGED <<depth, frames, heap, oom>>
       ELSE \E succeeds \in BOOLEAN :
            /\ Malloc(succeeds)
            /\ IF succeeds
               THEN /\ depth' = depth + 1
                    /\ frames' = Append(frames, Fresh(Kind))
                    /\ heap' = heap + Fresh(Kind).blocks
                    /\ json_pc' = "first" /\ value' = 0
               ELSE ReturnNull(frames) /\ UNCHANGED <<depth, frames, heap>>

Closing == IF Top.kind = "array" THEN "]" ELSE "}"
Element == IF Top.kind = "array" THEN "value" ELSE "member"

CloseContainer ==
    /\ token = Closing
    /\ Consume
    /\ depth' = depth - 1
    /\ frames' = Outer
    /\ Deliver(Top.blocks, Outer)
    /\ UNCHANGED <<heap, oom>>

(* Behind the opening bracket: the container is empty, or its loop starts. *)
First ==
    /\ json_pc = "first"
    /\ \/ CloseContainer
       \/ /\ token # Closing
          /\ json_pc' = Element
          /\ Stay /\ UNCHANGED <<depth, frames, value, heap, oom>>

(* A member starts with its key, *)
Key ==
    /\ json_pc = "member" /\ token = "string"
    /\ Consume
    /\ \E succeeds \in BOOLEAN :
        /\ Malloc(succeeds)
        /\ IF succeeds
           THEN /\ SetTop([Top EXCEPT !.key = 1]) /\ heap' = heap + 1
                /\ json_pc' = "colon" /\ UNCHANGED <<depth, value>>
           ELSE GiveUp(0)

NoKeyFreesOld ==                                  \* the last member's key freed
    /\ json_pc = "member" /\ token # "string"
    /\ GiveUp(1)
    /\ Stay /\ UNCHANGED oom

NoKey ==
    /\ json_pc = "member" /\ token # "string"
    /\ GiveUp(0)
    /\ Stay /\ UNCHANGED oom

ColonLeaks ==                                     \* free(key) forgotten
    /\ json_pc = "colon"
    /\ IF token = ":"
       THEN /\ Consume /\ json_pc' = "value"
            /\ UNCHANGED <<depth, frames, value, heap>>
       ELSE Stay /\ GiveUp(0)
    /\ UNCHANGED oom

(* and a colon. *)
Colon ==
    /\ json_pc = "colon"
    /\ IF token = ":"
       THEN /\ Consume /\ json_pc' = "value"
            /\ UNCHANGED <<depth, frames, value, heap>>
       ELSE Stay /\ GiveUp(Top.key)
    /\ UNCHANGED oom

(* The value is stored, in vectors that may have to grow first. *)
Store ==
    /\ json_pc = "store"
    /\ \E succeeds \in IF Top.count = Top.cap THEN BOOLEAN ELSE {TRUE} :
        /\ Malloc(succeeds)
        /\ IF succeeds
           THEN /\ SetTop([Top EXCEPT
                        !.count = @ + 1,
                        !.cap = IF Top.count = @ THEN 2 * @ ELSE @,
                        !.blocks = @ + value + Top.key,
                        !.key = 0])
                /\ value' = 0 /\ json_pc' = "next"
                /\ UNCHANGED <<depth, heap>>
           ELSE GiveUp(value + Top.key)
    /\ Stay

CommaThenClose ==                                 \* a trailing comma is skipped
    /\ json_pc = "next" /\ token = ","
    /\ Consume
    /\ json_pc' = "first"
    /\ UNCHANGED <<depth, frames, value, heap, oom>>

(* A comma, the closing bracket, or an error. *)
Comma ==
    /\ json_pc = "next" /\ token = ","
    /\ Consume
    /\ json_pc' = Element
    /\ UNCHANGED <<depth, frames, value, heap, oom>>

Close == json_pc = "next" /\ CloseContainer

NeitherOf ==
    /\ json_pc = "next" /\ token \notin {",", Closing}
    /\ GiveUp(0)
    /\ Stay /\ UNCHANGED oom

(* The container sees that its element came back as NULL. *)
Unwind ==
    /\ json_pc = "unwind"
    /\ GiveUp(Top.key)
    /\ Stay /\ UNCHANGED oom

(* json_parse() takes nothing behind the value ... *)
AtEnd ==
    /\ json_pc = "end"
    /\ IF token = "end"
       THEN json_pc' = "returned" /\ UNCHANGED <<value, heap>>
       ELSE /\ json_pc' = "null"
            /\ heap' = heap - value /\ value' = 0
    /\ Stay /\ UNCHANGED <<depth, frames, oom>>

(* ... and its caller, if it got a value, frees it when it is done. *)
Free ==
    /\ json_pc \in {"null", "returned"}
    /\ json_pc' = "idle" /\ read' = <<>> /\ token' = "end" /\ oom' = FALSE
    /\ heap' = heap - value /\ value' = 0
    /\ UNCHANGED <<depth, frames>>

Next ==
    \/ Start \/ Scalar \/ String \/ NoValue \/ Open \/ First
    \/ Key \/ NoKey \/ Colon \/ Store \/ Comma \/ Close \/ NeitherOf
    \/ Unwind \/ AtEnd \/ Free

Spec == Init /\ [][Next]_jsonVars

-----------------------------------------------------------------------------
(* Whatever fails and wherever, nothing is lost and nothing freed twice: a  *)
(* call that returns NULL has freed all it allocated, one that returns a    *)
(* value has allocated just what json_free() of that value frees.           *)
NothingLeaks ==
    /\ json_pc \in {"idle", "null"} => heap = 0
    /\ json_pc \in {"end", "returned"} => heap = value

(* p->depth counts the containers around the place the parser looks at, on  *)
(* every path, so that it limits the recursion (and siblings do not add up).*)
DepthIsNesting == depth = Len(frames) /\ depth <= MaxDepth
=============================================================================
