---------------------------- MODULE LibraryProofs ----------------------------
(***************************************************************************)
(* What the parts of Library keep true for every size of their messages,   *)
(* buffers, integers and texts.  Each part has an inductive invariant of   *)
(* its own; a step of the whole is a step of one part and a stutter of the *)
(* others.                                                                 *)
(***************************************************************************)
EXTENDS Library, SequenceTheorems, FiniteSetTheorems, WellFoundedInduction, TLAPS

(* A step of the whole, seen by one part.                                   *)
LEMMA StepOfPart ==
  ASSUME [Next]_vars
  PROVE  /\ [Dig!Next]_digestVars
         /\ [Jsn!Next]_jsonVars
         /\ [Jst!Next]_stringVars
         /\ [Str!Next]_strbufVars
         /\ [Rsp!Next]_httpVars
         /\ [Cfg!Next]_configVars
         /\ [Utf!Next]_utf8Vars
         /\ [Cnt!Next]_contentVars
         /\ [Hst!Next]_hostVars
  BY DEF Next, DigestCall, JsonCall, StringCall, Utf8Call, StrBufCall, HttpCall,
         ConfigCall, ContentCall, HostCall, vars, digestVars, jsonVars, stringVars,
         utf8Vars, strbufVars, httpVars, configVars, contentVars, hostVars
-----------------------------------------------------------------------------
(* The arithmetic of a size_t.                                              *)
LEMMA WrappedFacts ==
  ASSUME NEW n \in Nat, SizeMax \in Nat
  PROVE  /\ Str!Wrapped(n) \in Str!Size
         /\ n <= SizeMax => Str!Wrapped(n) = n
         /\ n > SizeMax /\ n <= 2 * SizeMax + 1 =>
              Str!Wrapped(n) = n - (SizeMax + 1)
  <1>1. \A a \in Nat, m \in Nat \ {0} : a % m \in 0..(m - 1)
    OBVIOUS
  <1>2. \A a \in Nat, m \in Nat \ {0} : a < m => a % m = a
    OBVIOUS
  <1>3. \A a \in Nat, m \in Nat \ {0} : a >= m /\ a < 2 * m => a % m = a - m
    OBVIOUS
  <1> DEFINE m == SizeMax + 1
  <1>4. m \in Nat \ {0} /\ m - 1 = SizeMax /\ 2 * m = 2 * SizeMax + 2
    OBVIOUS
  <1>5. Str!Wrapped(n) = n % m
    BY DEF Str!Wrapped
  <1> HIDE DEF m
  <1>6. /\ n % m \in 0..(m - 1)
        /\ n < m => n % m = n
        /\ n >= m /\ n < 2 * m => n % m = n - m
    BY <1>1, <1>2, <1>3, <1>4
  <1>7. n - m = n - (SizeMax + 1) /\ (n <= SizeMax <=> n < m)
        /\ (n > SizeMax /\ n <= 2 * SizeMax + 1 <=> n >= m /\ n < 2 * m)
    BY DEF m
  <1>8. QED BY <1>4, <1>5, <1>6, <1>7 DEF Str!Size

(* What the checks of strbuf_reserve() let through does not wrap: from the  *)
(* check on, the sum it computed is that of the integers.                   *)
StrBufInv ==
    /\ Str!StrBufTypeOK /\ Str!WritesFit
    /\ strbuf_pc = "free" => string_cap = 0 /\ string_len = 0
    /\ strbuf_pc \in {"grow", "realloc", "write"} =>
         string_len + extra + 1 <= SizeMax
    /\ strbuf_pc = "realloc" => string_newcap >= string_len + extra + 1

LEMMA ReserveFacts ==
  ASSUME StrBufInv, Str!StrBufConstants
  PROVE  /\ Str!Overflows <=> string_len + extra + 1 > SizeMax
         /\ ~Str!Overflows => Str!Need = string_len + extra + 1
  <1>1. /\ SizeMax \in Nat /\ SizeMax >= 1
        /\ string_len \in Nat /\ extra \in Nat /\ string_cap \in Nat
        /\ string_len + 1 <= SizeMax
    BY DEF StrBufInv, Str!StrBufTypeOK, Str!WritesFit, Str!StrBufConstants,
           Str!Size
  <1>2. Str!Wrapped(2 * SizeMax - string_len) = SizeMax - 1 - string_len
    <2>1. /\ 2 * SizeMax - string_len \in Nat
          /\ 2 * SizeMax - string_len > SizeMax
          /\ 2 * SizeMax - string_len <= 2 * SizeMax + 1
      BY <1>1
    <2>2. Str!Wrapped(2 * SizeMax - string_len)
             = (2 * SizeMax - string_len) - (SizeMax + 1)
      BY <1>1, <2>1, WrappedFacts
    <2>3. QED BY <1>1, <2>2
  <1>3. Str!Overflows <=> string_len + extra + 1 > SizeMax
    BY <1>1, <1>2 DEF Str!Overflows
  <1>4. ASSUME ~Str!Overflows PROVE Str!Need = string_len + extra + 1
    BY <1>1, <1>3, <1>4, WrappedFacts DEF Str!Need
  <1>5. QED BY <1>3, <1>4

LEMMA StepKeepsStrBufInv ==
  ASSUME StrBufInv, Str!StrBufConstants, [Str!Next]_strbufVars
  PROVE  StrBufInv'
  <1>t. /\ SizeMax \in Nat /\ StringCap \in 1..SizeMax
        /\ string_cap \in Str!Size /\ string_len \in Str!Size
        /\ extra \in Str!Size /\ string_newcap \in Str!Size
        /\ strbuf_pc \in {"free", "ready", "reserve", "grow", "realloc", "write"}
    BY DEF StrBufInv, Str!StrBufTypeOK, Str!StrBufConstants
  <1> USE DEF StrBufInv, Str!StrBufTypeOK, Str!WritesFit, Str!Size
  <1>1. CASE Str!InitBuffer \/ Str!Append \/ Str!Release \/ Str!Free
    BY <1>t, <1>1 DEF Str!InitBuffer, Str!Append, Str!Release, Str!Free
  <1>2. CASE Str!Reserve
    BY <1>t, <1>2, ReserveFacts DEF Str!Reserve
  <1>3. CASE Str!Double \/ Str!EndOfGrowth
    <2>1. strbuf_pc = "grow" /\ string_len + extra + 1 <= SizeMax
      BY <1>3 DEF Str!Double, Str!EndOfGrowth
    <2>2. Str!Need = string_len + extra + 1
      BY <1>t, <2>1, WrappedFacts DEF Str!Need
    <2>3. CASE Str!Double
      <3>1. string_newcap' \in Str!Size
        <4>1. CASE string_newcap > SizeMax \div 2
          BY <1>t, <2>1, <2>2, <2>3, <4>1 DEF Str!Double
        <4>2. CASE ~(string_newcap > SizeMax \div 2)
          BY <1>t, <2>3, <4>2, WrappedFacts DEF Str!Double
        <4>3. QED BY <4>1, <4>2
      <3>2. QED BY <1>t, <2>3, <3>1 DEF Str!Double
    <2>4. CASE Str!EndOfGrowth
      BY <1>t, <2>2, <2>4 DEF Str!EndOfGrowth
    <2>5. QED BY <1>3, <2>3, <2>4
  <1>4. CASE Str!Realloc
    BY <1>t, <1>4 DEF Str!Realloc
  <1>5. CASE Str!Write
    <2>1. string_len + extra <= SizeMax
      BY <1>t, <1>5 DEF Str!Write
    <2>2. Str!Wrapped(string_len + extra) = string_len + extra
      BY <1>t, <2>1, WrappedFacts
    <2>3. QED BY <1>t, <1>5, <2>2 DEF Str!Write
  <1>6. CASE UNCHANGED strbufVars
    BY <1>t, <1>6 DEF strbufVars
  <1>7. QED
    BY <1>1, <1>2, <1>3, <1>4, <1>5, <1>6 DEF Str!Next, Str!InCall
-----------------------------------------------------------------------------
(* What http.c has received is what it holds, up to the piece at hand; the  *)
(* limit on that bounds the doubling.                                       *)
ResponseInv ==
    /\ Rsp!HttpTypeOK /\ Rsp!BodyKept
    /\ response_len + add <= MaxResponse
    /\ http_pc \in {"transfer", "grow", "returned"} => sent = response_len + add
    /\ http_pc # "grow" => add = 0 /\ response_newcap = 0
    /\ http_pc = "idle" => response_cap = 0 /\ response_len = 0 /\ sent = 0

LEMMA StepKeepsResponseInv ==
  ASSUME ResponseInv, Rsp!ResponseConstants, [Rsp!Next]_httpVars
  PROVE  ResponseInv'
  <1> USE DEF ResponseInv, Rsp!HttpTypeOK, Rsp!BodyKept, Rsp!ResponseConstants
  <1>1. CASE Rsp!Request \/ Rsp!Complete \/ Rsp!Break \/ Rsp!Free
    BY <1>1 DEF Rsp!Request, Rsp!Complete, Rsp!Break, Rsp!Free
  <1>2. CASE Rsp!WriteCb
    BY <1>2 DEF Rsp!WriteCb, Rsp!TooLarge, Rsp!Stored
  <1>3. CASE Rsp!Double
    BY <1>3 DEF Rsp!Double
  <1>4. CASE Rsp!Realloc
    BY <1>4 DEF Rsp!Realloc, Rsp!Stored
  <1>5. CASE UNCHANGED httpVars
    BY <1>5 DEF httpVars
  <1>6. QED BY <1>1, <1>2, <1>3, <1>4, <1>5 DEF Rsp!Next

LEMMA BufferInvariant == Spec => [](StrBufInv /\ ResponseInv)
  <1>1. Init => StrBufInv /\ ResponseInv
    BY LibraryAssumption
    DEF Init, Str!Init, Rsp!Init, StrBufInv, Str!StrBufTypeOK, Str!WritesFit,
        Str!Size, Str!StrBufConstants, ResponseInv, Rsp!HttpTypeOK,
        Rsp!BodyKept, Rsp!ResponseConstants
  <1>2. StrBufInv /\ ResponseInv /\ [Next]_vars => (StrBufInv /\ ResponseInv)'
    BY LibraryAssumption, StepOfPart, StepKeepsStrBufInv, StepKeepsResponseInv
  <1>3. QED BY <1>1, <1>2, PTL DEF Spec

(* Whatever a program appends to a strbuf_t, up to lengths near SIZE_MAX,   *)
(* and whatever a server sends in whatever pieces, every byte and its NUL   *)
(* lie inside what is allocated, and no response is passed on in part.      *)
THEOREM BuffersAlwaysHold == Spec => []BuffersHold
  <1>1. StrBufInv /\ ResponseInv => BuffersHold
    BY DEF StrBufInv, ResponseInv, BuffersHold
  <1>2. QED BY <1>1, BufferInvariant, PTL
-----------------------------------------------------------------------------
(* json_parse(): which calls of parse_array() and parse_object() are under  *)
(* way where, and what each has at hand.                                    *)
Held(frame) == frame.blocks + frame.key

(* What the containers of a stack hold, by running sums from the outermost. *)
AddsUp(stack, total) ==
    \E sum \in [0..Len(stack) -> Nat] :
        /\ sum[0] = 0
        /\ \A n \in 1..Len(stack) : sum[n] = sum[n - 1] + Held(stack[n])
        /\ total = sum[Len(stack)]

(* They and the value at hand are what is allocated.                        *)
JsonInv ==
    /\ Jsn!JsonTypeOK /\ Jsn!DepthIsNesting
    /\ json_pc \in {"idle", "end", "null", "returned"} => frames = <<>>
    /\ json_pc \in {"first", "member", "colon", "store", "next", "unwind"} =>
         frames # <<>>
    /\ json_pc \notin {"store", "end", "returned"} => value = 0
    /\ json_pc \in {"first", "member", "next"} => Jsn!Top.key = 0
    /\ AddsUp(frames, heap - value)

(* A stack without its innermost container. *)
LEMMA OuterStack ==
  ASSUME NEW stack \in Seq(Jsn!Frame), stack # <<>>
  PROVE  /\ Len(stack) \in Nat \ {0} /\ stack[Len(stack)] \in Jsn!Frame
         /\ SubSeq(stack, 1, Len(stack) - 1) \in Seq(Jsn!Frame)
         /\ Len(SubSeq(stack, 1, Len(stack) - 1)) = Len(stack) - 1
         /\ \A n \in 1..(Len(stack) - 1) :
              SubSeq(stack, 1, Len(stack) - 1)[n] = stack[n]
  <1>1. Len(stack) \in Nat \ {0}
    OBVIOUS
  <1>2. Len(stack) - 1 \in Nat /\ 1..(Len(stack) - 1) \subseteq 1..Len(stack)
    BY <1>1
  <1>3. /\ SubSeq(stack, 1, Len(stack) - 1) \in Seq(Jsn!Frame)
        /\ Len(SubSeq(stack, 1, Len(stack) - 1)) = Len(stack) - 1
        /\ \A n \in 1..(Len(stack) - 1) :
             SubSeq(stack, 1, Len(stack) - 1)[n] = stack[n]
    <2>1. \A n \in 1..(Len(stack) - 1) : stack[n] \in Jsn!Frame
      BY <1>2
    <2> DEFINE m == Len(stack) - 1
               outer == SubSeq(stack, 1, m)
    <2>2. m \in Nat /\ \A n \in 1..m : stack[n] \in Jsn!Frame
      BY <1>2, <2>1
    <2> HIDE DEF m
    <2>3. /\ outer \in Seq(Jsn!Frame)
          /\ Len(outer) = IF 1 <= m THEN m - 1 + 1 ELSE 0
          /\ \A n \in 1..(m - 1 + 1) : outer[n] = stack[1 + n - 1]
      BY <2>2, SubSeqProperties
    <2> HIDE DEF outer
    <2>4. /\ Len(outer) = m
          /\ \A n \in 1..m : outer[n] = stack[n]
      BY <2>2, <2>3
    <2>5. QED BY <2>3, <2>4 DEF outer, m
  <1>4. QED BY <1>1, <1>3

LEMMA HeldIsNat == ASSUME NEW frame \in Jsn!Frame PROVE Held(frame) \in Nat
  BY DEF Held, Jsn!Frame

LEMMA EmptyAddsUp == \A total : AddsUp(<<>>, total) <=> total = 0
  <1>1. ASSUME NEW total, AddsUp(<<>>, total) PROVE total = 0
    BY <1>1 DEF AddsUp
  <1>2. AddsUp(<<>>, 0)
    <2> DEFINE sum == [n \in 0..0 |-> 0]
    <2>1. Len(<<>>) = 0
      OBVIOUS
    <2>2. sum \in [0..0 -> Nat] /\ sum[0] = 0
      OBVIOUS
    <2> HIDE DEF sum
    <2>3. QED BY <2>1, <2>2 DEF AddsUp
  <1>3. QED BY <1>1, <1>2

(* A container more, *)
LEMMA PushAddsUp ==
  ASSUME NEW stack \in Seq(Jsn!Frame), NEW frame \in Jsn!Frame, NEW total,
         AddsUp(stack, total)
  PROVE  total \in Nat /\ AddsUp(Append(stack, frame), total + Held(frame))
  <1>1. PICK sum \in [0..Len(stack) -> Nat] :
          /\ sum[0] = 0 /\ total = sum[Len(stack)]
          /\ \A n \in 1..Len(stack) : sum[n] = sum[n - 1] + Held(stack[n])
    BY DEF AddsUp
  <1> DEFINE more == Append(stack, frame)
             new  == [n \in 0..(Len(stack) + 1) |->
                        IF n = Len(stack) + 1 THEN total + Held(frame)
                                              ELSE sum[n]]
  <1>2. /\ Len(stack) \in Nat /\ Len(more) = Len(stack) + 1
        /\ more[Len(stack) + 1] = frame
        /\ \A n \in 1..Len(stack) : more[n] = stack[n]
    OBVIOUS
  <1>3. total \in Nat /\ Held(frame) \in Nat
    BY <1>1, <1>2, HeldIsNat
  <1>4. /\ new \in [0..Len(more) -> Nat] /\ new[0] = 0
        /\ new[Len(more)] = total + Held(frame)
    BY <1>1, <1>2, <1>3
  <1>5. ASSUME NEW n \in 1..Len(more)
        PROVE  new[n] = new[n - 1] + Held(more[n])
    <2>1. CASE n = Len(stack) + 1
      BY <1>1, <1>2, <1>3, <2>1
    <2>2. CASE n # Len(stack) + 1
      BY <1>1, <1>2, <2>2
    <2>3. QED BY <2>1, <2>2
  <1> HIDE DEF more, new
  <1>6. AddsUp(more, total + Held(frame))
    BY <1>4, <1>5 DEF AddsUp
  <1>7. QED BY <1>3, <1>6 DEF more

(* a container less. *)
LEMMA PopAddsUp ==
  ASSUME NEW stack \in Seq(Jsn!Frame), stack # <<>>, NEW total,
         AddsUp(stack, total)
  PROVE  /\ total - Held(stack[Len(stack)]) \in Nat
         /\ AddsUp(SubSeq(stack, 1, Len(stack) - 1),
                   total - Held(stack[Len(stack)]))
  <1>1. PICK sum \in [0..Len(stack) -> Nat] :
          /\ sum[0] = 0 /\ total = sum[Len(stack)]
          /\ \A n \in 1..Len(stack) : sum[n] = sum[n - 1] + Held(stack[n])
    BY DEF AddsUp
  <1> DEFINE outer == SubSeq(stack, 1, Len(stack) - 1)
             less  == [n \in 0..(Len(stack) - 1) |-> sum[n]]
             last  == stack[Len(stack)]
  <1>2. /\ Len(stack) \in Nat \ {0} /\ last \in Jsn!Frame
        /\ Len(outer) = Len(stack) - 1
        /\ \A n \in 1..(Len(stack) - 1) : outer[n] = stack[n]
    BY OuterStack
  <1> HIDE DEF outer
  <1>3. Held(last) \in Nat /\ sum[Len(stack) - 1] \in Nat
    <2>1. last \in Jsn!Frame /\ Len(stack) - 1 \in 0..Len(stack)
      BY <1>2
    <2> HIDE DEF last
    <2>2. QED BY <1>1, <2>1, HeldIsNat
  <1>4. total - Held(last) = sum[Len(stack) - 1]
    <2>1. total = sum[Len(stack) - 1] + Held(last)
      BY <1>1, <1>2
    <2>2. QED BY <1>3, <2>1
  <1>5. /\ less \in [0..Len(outer) -> Nat] /\ less[0] = 0
        /\ less[Len(outer)] = total - Held(last)
        /\ \A n \in 1..Len(outer) : less[n] = less[n - 1] + Held(outer[n])
    BY <1>1, <1>2, <1>4
  <1> HIDE DEF less
  <1>6. AddsUp(outer, total - Held(last))
    BY <1>5 DEF AddsUp
  <1>7. QED BY <1>3, <1>4, <1>6 DEF outer

(* What JsonInv says of the innermost container and of those around it.     *)
LEMMA TopFacts ==
  ASSUME JsonInv, frames # <<>>
  PROVE  /\ frames \in Seq(Jsn!Frame) /\ Len(frames) \in Nat \ {0}
         /\ Jsn!Top \in Jsn!Frame
         /\ Jsn!Outer \in Seq(Jsn!Frame) /\ Len(Jsn!Outer) = Len(frames) - 1
         /\ Jsn!Top.blocks \in Nat /\ Jsn!Top.key \in {0, 1}
         /\ Held(Jsn!Top) = Jsn!Top.blocks + Jsn!Top.key
         /\ heap \in Nat /\ value \in Nat /\ depth \in Nat
         /\ heap - value - Held(Jsn!Top) \in Nat
         /\ AddsUp(Jsn!Outer, heap - value - Held(Jsn!Top))
  <1>1. /\ frames \in Seq(Jsn!Frame) /\ AddsUp(frames, heap - value)
        /\ heap \in Nat /\ value \in Nat /\ depth \in Nat
    BY DEF JsonInv, Jsn!JsonTypeOK
  <1>2. /\ Len(frames) \in Nat \ {0} /\ Jsn!Top \in Jsn!Frame
        /\ Jsn!Outer \in Seq(Jsn!Frame) /\ Len(Jsn!Outer) = Len(frames) - 1
    BY <1>1, OuterStack DEF Jsn!Top, Jsn!Outer
  <1>3. /\ heap - value - Held(Jsn!Top) \in Nat
        /\ AddsUp(Jsn!Outer, heap - value - Held(Jsn!Top))
    BY <1>1, PopAddsUp DEF Jsn!Top, Jsn!Outer
  <1>4. Jsn!Top.blocks \in Nat /\ Jsn!Top.key \in {0, 1}
    BY <1>2 DEF Jsn!Frame
  <1>5. QED BY <1>1, <1>2, <1>3, <1>4 DEF Held

(* What the actions do with the text leaves the rest alone.                 *)
LEMMA TextKept ==
  ASSUME JsonInv, (Jsn!Consume /\ token # "end") \/ Jsn!Stay
  PROVE  read' \in Seq(Jsn!Token) /\ token' \in Jsn!Token \cup {"end"}
  <1>1. read \in Seq(Jsn!Token) /\ token \in Jsn!Token \cup {"end"}
    BY DEF JsonInv, Jsn!JsonTypeOK
  <1>2. CASE Jsn!Consume /\ token # "end"
    BY <1>1, <1>2 DEF Jsn!Consume, Jsn!Upcoming
  <1>3. CASE Jsn!Stay
    BY <1>1, <1>3 DEF Jsn!Stay
  <1>4. QED BY <1>2, <1>3

(* The rest of JsonInv, for a step to re-establish.                         *)
StackInv ==
    /\ depth \in Nat /\ frames \in Seq(Jsn!Frame)
    /\ value \in Nat /\ heap \in Nat
    /\ Jsn!DepthIsNesting
    /\ AddsUp(frames, heap - value)

(* An error path frees what is at hand, and the container with it.          *)
LEMMA GiveUpKeeps ==
  ASSUME JsonInv, frames # <<>>, NEW at_hand, Jsn!GiveUp(at_hand),
         at_hand = value + Jsn!Top.key
  PROVE  /\ StackInv' /\ value' = 0
         /\ \/ json_pc' = "null" /\ frames' = <<>>
            \/ json_pc' = "unwind" /\ frames' # <<>>
  <1>1. /\ depth' = depth - 1 /\ frames' = Jsn!Outer /\ value' = 0
        /\ heap' = heap - (value + Jsn!Top.key) - Jsn!Top.blocks
        /\ \/ json_pc' = "null" /\ frames' = <<>>
           \/ json_pc' = "unwind" /\ frames' # <<>>
    BY DEF Jsn!GiveUp, Jsn!ReturnNull
  <1>2. /\ depth = Len(frames) /\ depth <= MaxDepth /\ MaxDepth \in Nat
    BY LibraryAssumption DEF JsonInv, Jsn!DepthIsNesting, Jsn!JsonConstants
  <1>3. /\ heap' = heap - value - Held(Jsn!Top)
        /\ heap' - value' = heap - value - Held(Jsn!Top)
    <2>1. /\ Jsn!Top.blocks \in Nat /\ Jsn!Top.key \in Nat
          /\ heap \in Nat /\ value \in Nat
          /\ Held(Jsn!Top) = Jsn!Top.blocks + Jsn!Top.key
      BY TopFacts
    <2>2. QED BY <1>1, <2>1
  <1>4. /\ depth' \in Nat /\ frames' \in Seq(Jsn!Frame)
        /\ depth' = Len(frames') /\ depth' <= MaxDepth
    BY <1>1, <1>2, TopFacts
  <1>5. QED BY <1>1, <1>3, <1>4, TopFacts DEF StackInv, Jsn!DepthIsNesting

(* A closing bracket hands the container on, to what is around it.          *)
LEMMA CloseKeeps ==
  ASSUME JsonInv, frames # <<>>, Jsn!CloseContainer, value = 0, Jsn!Top.key = 0
  PROVE  /\ StackInv'
         /\ \/ json_pc' = "end" /\ frames' = <<>>
            \/ json_pc' = "store" /\ frames' # <<>>
  <1>1. /\ depth' = depth - 1 /\ frames' = Jsn!Outer /\ value' = Jsn!Top.blocks
        /\ heap' = heap
        /\ \/ json_pc' = "end" /\ frames' = <<>>
           \/ json_pc' = "store" /\ frames' # <<>>
    BY DEF Jsn!CloseContainer, Jsn!Deliver
  <1>2. /\ depth = Len(frames) /\ depth <= MaxDepth /\ MaxDepth \in Nat
    BY LibraryAssumption DEF JsonInv, Jsn!DepthIsNesting, Jsn!JsonConstants
  <1>3. heap' - value' = heap - value - Held(Jsn!Top)
    BY <1>1, TopFacts
  <1>4. /\ depth' \in Nat /\ frames' \in Seq(Jsn!Frame)
        /\ depth' = Len(frames') /\ depth' <= MaxDepth
    BY <1>1, <1>2, TopFacts
  <1>5. QED BY <1>1, <1>3, <1>4, TopFacts DEF StackInv, Jsn!DepthIsNesting

(* A container changes what it holds by what is allocated or put into it.   *)
LEMMA SetTopKeeps ==
  ASSUME JsonInv, frames # <<>>, NEW frame \in Jsn!Frame, Jsn!SetTop(frame),
         UNCHANGED depth, heap' \in Nat, value' \in Nat,
         heap' - value' = heap - value - Held(Jsn!Top) + Held(frame)
  PROVE  StackInv' /\ frames' # <<>> /\ frames'[Len(frames')] = frame
  <1>1. frames' = Append(Jsn!Outer, frame)
    BY DEF Jsn!SetTop
  <1>2. /\ depth \in Nat /\ depth = Len(frames) /\ depth <= MaxDepth
    BY DEF JsonInv, Jsn!DepthIsNesting, Jsn!JsonTypeOK
  <1>3. /\ frames' \in Seq(Jsn!Frame) /\ Len(frames') = Len(frames)
        /\ frames' # <<>> /\ frames'[Len(frames')] = frame
    <2>1. \A s \in Seq(Jsn!Frame) :
            /\ Append(s, frame) \in Seq(Jsn!Frame)
            /\ Len(Append(s, frame)) = Len(s) + 1 /\ Append(s, frame) # <<>>
            /\ Append(s, frame)[Len(s) + 1] = frame
      OBVIOUS
    <2>2. /\ Jsn!Outer \in Seq(Jsn!Frame) /\ Len(Jsn!Outer) + 1 = Len(frames)
      BY TopFacts
    <2>3. QED BY <1>1, <2>1, <2>2
  <1>4. AddsUp(frames', heap' - value')
    BY <1>1, TopFacts, PushAddsUp
  <1>5. QED BY <1>2, <1>3, <1>4 DEF StackInv, Jsn!DepthIsNesting

LEMMA StepKeepsJsonInv ==
  ASSUME JsonInv, [Jsn!Next]_jsonVars
  PROVE  JsonInv'
  <1>t. /\ depth \in Nat /\ frames \in Seq(Jsn!Frame)
        /\ value \in Nat /\ heap \in Nat /\ oom \in BOOLEAN
        /\ read \in Seq(Jsn!Token) /\ token \in Jsn!Token \cup {"end"}
        /\ Jsn!DepthIsNesting /\ AddsUp(frames, heap - value)
    BY DEF JsonInv, Jsn!JsonTypeOK
  <1>s. StackInv
    BY <1>t DEF StackInv
  <1>1. CASE Jsn!Start
    BY <1>t, <1>1
    DEF JsonInv, Jsn!JsonTypeOK, Jsn!Start, Jsn!Upcoming, Jsn!DepthIsNesting
  <1>2. CASE Jsn!Scalar \/ Jsn!String
    <2>1. PICK k \in {1, 2} :
            /\ json_pc = "value" /\ token # "end" /\ Jsn!Consume
            /\ oom' \in BOOLEAN
            /\ \/ Jsn!Deliver(k, frames) /\ heap' = heap + k
               \/ Jsn!ReturnNull(frames) /\ UNCHANGED heap
            /\ UNCHANGED <<depth, frames>>
      BY <1>t, <1>2 DEF Jsn!Scalar, Jsn!String, Jsn!Malloc
    <2>2. read' \in Seq(Jsn!Token) /\ token' \in Jsn!Token \cup {"end"}
      BY <2>1, TextKept
    <2>3. value = 0
      BY <2>1 DEF JsonInv
    <2>4. heap' \in Nat /\ value' \in Nat /\ heap' - value' = heap - value
      BY <1>t, <2>1, <2>3 DEF Jsn!Deliver, Jsn!ReturnNull
    <2>5. QED
      BY <1>t, <2>1, <2>2, <2>4
      DEF JsonInv, Jsn!JsonTypeOK, Jsn!DepthIsNesting, Jsn!Deliver,
          Jsn!ReturnNull
  <1>3. CASE Jsn!NoValue
    <2>1. value = 0 /\ value' = 0 /\ heap' - value' = heap - value
      BY <1>3 DEF JsonInv, Jsn!NoValue, Jsn!ReturnNull
    <2>2. QED
      BY <1>t, <1>3, <2>1
      DEF JsonInv, Jsn!JsonTypeOK, Jsn!DepthIsNesting, Jsn!NoValue,
          Jsn!ReturnNull, Jsn!Stay
  <1>4. CASE Jsn!Open
    <2>1. /\ json_pc = "value" /\ value = 0 /\ token # "end" /\ Jsn!Consume
          /\ oom' \in BOOLEAN
      BY <1>t, <1>4 DEF JsonInv, Jsn!Open, Jsn!Malloc
    <2>2. read' \in Seq(Jsn!Token) /\ token' \in Jsn!Token \cup {"end"}
      BY <2>1, TextKept
    <2>3. CASE Jsn!ReturnNull(frames) /\ UNCHANGED <<depth, frames, heap>>
      <3>1. value' = 0 /\ heap' - value' = heap - value
        BY <2>1, <2>3 DEF Jsn!ReturnNull
      <3>2. QED
        BY <1>t, <2>1, <2>2, <2>3, <3>1
        DEF JsonInv, Jsn!JsonTypeOK, Jsn!DepthIsNesting, Jsn!ReturnNull
    <2>4. CASE /\ depth + 1 <= MaxDepth /\ depth' = depth + 1
               /\ frames' = Append(frames, Jsn!Fresh(Jsn!Kind))
               /\ heap' = heap + Jsn!Fresh(Jsn!Kind).blocks
               /\ json_pc' = "first" /\ value' = 0
      <3> DEFINE fresh == Jsn!Fresh(Jsn!Kind)
      <3>1. /\ fresh \in Jsn!Frame /\ fresh.key = 0 /\ fresh.blocks \in Nat
            /\ Held(fresh) = fresh.blocks
        BY LibraryAssumption
        DEF Jsn!Fresh, Jsn!Kind, Jsn!Frame, Jsn!JsonConstants, Held
      <3> HIDE DEF fresh
      <3>2. /\ frames' = Append(frames, fresh) /\ heap' = heap + fresh.blocks
        BY <2>4 DEF fresh
      <3>3. /\ frames' \in Seq(Jsn!Frame) /\ Len(frames') = Len(frames) + 1
            /\ frames' # <<>> /\ frames'[Len(frames')] = fresh
        BY <1>t, <3>1, <3>2
      <3>4. AddsUp(frames', heap - value + Held(fresh))
        BY <1>t, <3>1, <3>2, PushAddsUp
      <3>5. heap' \in Nat /\ heap' - value' = heap - value + Held(fresh)
        BY <1>t, <2>1, <2>4, <3>1, <3>2
      <3>6. QED
        BY <1>t, <2>1, <2>2, <2>4, <3>1, <3>3, <3>4, <3>5
        DEF JsonInv, Jsn!JsonTypeOK, Jsn!DepthIsNesting, Jsn!Top
    <2>5. depth + 1 > MaxDepth \/ depth + 1 <= MaxDepth
      BY <1>t, LibraryAssumption DEF Jsn!JsonConstants
    <2>6. QED BY <1>4, <2>3, <2>4, <2>5 DEF Jsn!Open
  <1>5. CASE Jsn!CloseContainer /\ json_pc \in {"first", "next"}
    <2>1. frames # <<>> /\ value = 0 /\ Jsn!Top.key = 0
      BY <1>5 DEF JsonInv
    <2>2. token # "end" /\ Jsn!Consume /\ UNCHANGED oom
      BY <1>5 DEF Jsn!CloseContainer, Jsn!Closing
    <2>3. QED
      BY <1>t, <1>5, <2>1, <2>2, CloseKeeps, TextKept
      DEF JsonInv, Jsn!JsonTypeOK, StackInv
  <1>6. CASE Jsn!First /\ ~Jsn!CloseContainer
    BY <1>t, <1>6
    DEF JsonInv, Jsn!JsonTypeOK, Jsn!DepthIsNesting, Jsn!First, Jsn!Element,
        Jsn!Stay, Jsn!Top
  <1>7. CASE Jsn!Comma
    <2>1. read' \in Seq(Jsn!Token) /\ token' \in Jsn!Token \cup {"end"}
      BY <1>7, TextKept DEF Jsn!Comma
    <2>2. QED
      BY <1>t, <1>7, <2>1
      DEF JsonInv, Jsn!JsonTypeOK, Jsn!DepthIsNesting, Jsn!Comma, Jsn!Element,
          Jsn!Top
  <1>8. ASSUME frames # <<>>, NEW k, Jsn!GiveUp(k), k = value + Jsn!Top.key,
               (Jsn!Consume /\ token # "end") \/ Jsn!Stay, oom' \in BOOLEAN
        PROVE  JsonInv'
    BY <1>8, GiveUpKeeps, TextKept DEF JsonInv, Jsn!JsonTypeOK, StackInv
  <1>9. CASE Jsn!NoKey \/ Jsn!NeitherOf
    <2>1. frames # <<>> /\ value = 0 /\ Jsn!Top.key = 0
      BY <1>9 DEF JsonInv, Jsn!NoKey, Jsn!NeitherOf
    <2>2. Jsn!GiveUp(0) /\ Jsn!Stay /\ oom' \in BOOLEAN
      BY <1>t, <1>9 DEF Jsn!NoKey, Jsn!NeitherOf
    <2>3. QED BY <1>8, <2>1, <2>2
  <1>10. CASE Jsn!Unwind
    <2>1. /\ frames # <<>> /\ value = 0
          /\ Jsn!GiveUp(Jsn!Top.key) /\ Jsn!Stay /\ oom' \in BOOLEAN
      BY <1>t, <1>10 DEF JsonInv, Jsn!Unwind
    <2>2. Jsn!Top.key = value + Jsn!Top.key
      BY <2>1, TopFacts
    <2>3. QED BY <1>8, <2>1, <2>2
  <1>11. CASE Jsn!Colon
    <2>1. frames # <<>> /\ value = 0 /\ oom' \in BOOLEAN
      BY <1>t, <1>11 DEF JsonInv, Jsn!Colon
    <2>2. CASE token = ":"
      <3>1. read' \in Seq(Jsn!Token) /\ token' \in Jsn!Token \cup {"end"}
        BY <1>11, <2>2, TextKept DEF Jsn!Colon
      <3>2. QED
        BY <1>t, <1>11, <2>1, <2>2, <3>1
        DEF JsonInv, Jsn!JsonTypeOK, Jsn!DepthIsNesting, Jsn!Colon
    <2>3. CASE token # ":"
      <3>1. Jsn!GiveUp(Jsn!Top.key) /\ Jsn!Stay
        BY <1>11, <2>3 DEF Jsn!Colon
      <3>2. Jsn!Top.key = value + Jsn!Top.key
        BY <2>1, TopFacts
      <3>3. QED BY <1>8, <2>1, <3>1, <3>2
    <2>4. QED BY <2>2, <2>3
  <1>12. CASE Jsn!Key
    <2>1. /\ json_pc = "member" /\ frames # <<>> /\ value = 0
          /\ Jsn!Top.key = 0 /\ token # "end" /\ Jsn!Consume
          /\ oom' \in BOOLEAN
      BY <1>t, <1>12 DEF JsonInv, Jsn!Key, Jsn!Malloc
    <2>2. read' \in Seq(Jsn!Token) /\ token' \in Jsn!Token \cup {"end"}
      BY <2>1, TextKept
    <2>3. CASE Jsn!GiveUp(0)
      BY <1>8, <2>1, <2>3
    <2>4. CASE /\ Jsn!SetTop([Jsn!Top EXCEPT !.key = 1]) /\ heap' = heap + 1
               /\ json_pc' = "colon" /\ UNCHANGED <<depth, value>>
      <3> DEFINE frame == [Jsn!Top EXCEPT !.key = 1]
      <3>1. frame \in Jsn!Frame /\ Held(frame) = Held(Jsn!Top) + 1
        <4>1. Jsn!Top \in Jsn!Frame /\ Jsn!Top.blocks \in Nat
          BY <2>1, TopFacts
        <4>2. frame \in Jsn!Frame
          BY <4>1 DEF Jsn!Frame
        <4>3. frame.blocks = Jsn!Top.blocks /\ frame.key = 1
          BY <4>1 DEF Jsn!Frame
        <4> HIDE DEF frame
        <4>4. QED BY <2>1, <4>1, <4>2, <4>3 DEF Held
      <3>2. Jsn!SetTop(frame)
        BY <2>4
      <3> HIDE DEF frame
      <3>3. /\ heap' \in Nat /\ value' \in Nat
            /\ heap' - value' = heap - value - Held(Jsn!Top) + Held(frame)
        <4>1. Held(Jsn!Top) \in Nat
          BY <2>1, TopFacts, HeldIsNat
        <4>2. heap' = heap + 1 /\ value' = value
          BY <2>4
        <4>3. Held(frame) = Held(Jsn!Top) + 1
          BY <3>1
        <4>4. QED BY <1>t, <4>1, <4>2, <4>3
      <3>4. StackInv' /\ frames' # <<>>
        BY <2>1, <2>4, <3>1, <3>2, <3>3, SetTopKeeps
      <3>5. QED
        BY <2>1, <2>2, <2>4, <3>4 DEF JsonInv, Jsn!JsonTypeOK, StackInv
    <2>5. QED BY <1>12, <2>3, <2>4 DEF Jsn!Key
  <1>13. CASE Jsn!Store
    <2>1. /\ json_pc = "store" /\ frames # <<>> /\ Jsn!Stay /\ oom' \in BOOLEAN
      BY <1>t, <1>13 DEF JsonInv, Jsn!Store, Jsn!Malloc
    <2>2. read' \in Seq(Jsn!Token) /\ token' \in Jsn!Token \cup {"end"}
      BY <2>1, TextKept
    <2>3. CASE Jsn!GiveUp(value + Jsn!Top.key)
      BY <1>8, <2>1, <2>3
    <2> DEFINE top == Jsn!Top
               frame == [top EXCEPT
                           !.count = @ + 1,
                           !.cap = IF top.count = @ THEN 2 * @ ELSE @,
                           !.blocks = @ + value + top.key,
                           !.key = 0]
    <2>4. CASE /\ Jsn!SetTop(frame)
               /\ value' = 0 /\ json_pc' = "next" /\ UNCHANGED <<depth, heap>>
      <3>1. /\ top \in Jsn!Frame /\ top.blocks \in Nat /\ top.key \in {0, 1}
            /\ Held(top) = top.blocks + top.key
        BY <2>1, TopFacts
      <3> HIDE DEF top
      <3>2. /\ frame \in Jsn!Frame /\ frame.key = 0
            /\ frame.blocks = top.blocks + value + top.key
        <4>1. /\ top.count + 1 \in Nat /\ top.blocks + value + top.key \in Nat
              /\ (IF top.count = top.cap THEN 2 * top.cap ELSE top.cap) \in Nat
          BY <1>t, <3>1, SMTT(30) DEF Jsn!Frame
        <4>2. QED BY <3>1, <4>1 DEF Jsn!Frame
      <3>3. Held(frame) = Held(top) + value
        BY <1>t, <3>1, <3>2 DEF Held
      <3> HIDE DEF frame
      <3>4. heap' - value' = heap - value - Held(top) + Held(frame)
        BY <1>t, <2>4, <3>1, <3>3
      <3>5. StackInv' /\ frames' # <<>> /\ frames'[Len(frames')] = frame
        BY <1>t, <2>1, <2>4, <3>2, <3>4, SetTopKeeps DEF top
      <3>6. QED
        BY <2>1, <2>2, <2>4, <3>2, <3>5
        DEF JsonInv, Jsn!JsonTypeOK, StackInv, Jsn!Top
    <2>5. QED BY <1>13, <2>3, <2>4 DEF Jsn!Store
  <1>14. CASE Jsn!AtEnd
    <2>1. frames = <<>> /\ frames' = <<>> /\ heap - value = 0
      BY <1>t, <1>14, EmptyAddsUp DEF JsonInv, Jsn!AtEnd
    <2>2. heap' \in Nat /\ value' \in Nat /\ heap' - value' = heap - value
      BY <1>t, <1>14, <2>1 DEF Jsn!AtEnd
    <2>3. QED
      BY <1>t, <1>14, <2>1, <2>2
      DEF JsonInv, Jsn!JsonTypeOK, Jsn!DepthIsNesting, Jsn!AtEnd, Jsn!Stay
  <1>15. CASE Jsn!Free
    <2>1. frames = <<>> /\ frames' = <<>> /\ heap - value = 0
      BY <1>t, <1>15, EmptyAddsUp DEF JsonInv, Jsn!Free
    <2>2. heap' \in Nat /\ value' = 0 /\ heap' - value' = heap - value
      BY <1>t, <1>15, <2>1 DEF Jsn!Free
    <2>3. read' \in Seq(Jsn!Token) /\ token' = "end" /\ oom' = FALSE
      BY <1>15 DEF Jsn!Free
    <2>4. depth' = depth /\ json_pc' = "idle" /\ AddsUp(frames', heap' - value')
      BY <1>t, <1>15, <2>1, <2>2 DEF Jsn!Free
    <2>5. QED
      BY <1>t, <2>1, <2>2, <2>3, <2>4
      DEF JsonInv, Jsn!JsonTypeOK, Jsn!DepthIsNesting
  <1>16. CASE UNCHANGED jsonVars
    BY <1>16
    DEF JsonInv, jsonVars, Jsn!JsonTypeOK, Jsn!DepthIsNesting, Jsn!Top
  <1>17. Jsn!First \/ Jsn!Close =>
            \/ Jsn!CloseContainer /\ json_pc \in {"first", "next"}
            \/ Jsn!First /\ ~Jsn!CloseContainer
    BY DEF Jsn!First, Jsn!Close
  <1>18. QED
    BY <1>1, <1>2, <1>3, <1>4, <1>5, <1>6, <1>7, <1>9, <1>10, <1>11, <1>12,
       <1>13, <1>14, <1>15, <1>16, <1>17
    DEF Jsn!Next

LEMMA JsonInvariant == Spec => []JsonInv
  <1>1. Init => JsonInv
    <2>1. ASSUME Init PROVE /\ Jsn!JsonTypeOK /\ Jsn!DepthIsNesting
                            /\ json_pc = "idle" /\ frames = <<>> /\ value = 0
                            /\ heap = 0
      <3>1. Jsn!Init /\ MaxDepth \in Nat
        BY <2>1, LibraryAssumption DEF Init, Jsn!JsonConstants
      <3>2. <<>> \in Seq(Jsn!Frame) /\ <<>> \in Seq(Jsn!Token) /\ Len(<<>>) = 0
        OBVIOUS
      <3>3. /\ json_pc = "idle" /\ read = <<>> /\ token = "end"
            /\ depth = 0 /\ frames = <<>> /\ value = 0 /\ heap = 0
            /\ oom = FALSE
        BY <3>1 DEF Jsn!Init
      <3>4. Jsn!DepthIsNesting
        BY <3>1, <3>2, <3>3 DEF Jsn!DepthIsNesting
      <3>5. Jsn!JsonTypeOK
        <4>1. read \in Seq(Jsn!Token) /\ frames \in Seq(Jsn!Frame)
          BY <3>2, <3>3
        <4>2. QED BY <3>3, <4>1 DEF Jsn!JsonTypeOK
      <3>6. QED BY <3>3, <3>4, <3>5
    <2>2. AddsUp(<<>>, 0 - 0)
      BY EmptyAddsUp
    <2>3. QED BY <2>1, <2>2 DEF JsonInv
  <1>2. JsonInv /\ [Next]_vars => JsonInv'
    BY StepOfPart, StepKeepsJsonInv
  <1>3. QED BY <1>1, <1>2, PTL DEF Spec

(* Whatever text json_parse() is given, and whichever of its allocations    *)
(* fail: what it returns NULL for is all freed, what it returns is all      *)
(* there is, and no block is freed twice on the way.                        *)
THEOREM NothingEverLeaks == Spec => []NothingLeaks
  <1>1. JsonInv => NothingLeaks
    <2>1. ASSUME JsonInv, frames = <<>> PROVE heap = value
      <3>1. heap \in Nat /\ value \in Nat /\ heap - value = 0
        BY <2>1, EmptyAddsUp DEF JsonInv, Jsn!JsonTypeOK
      <3>2. QED BY <3>1
    <2>2. QED BY <2>1 DEF JsonInv, NothingLeaks, Jsn!NothingLeaks
  <1>2. QED BY <1>1, JsonInvariant, PTL

(* p->depth is the nesting of the place it looks at, on the error paths and *)
(* behind siblings too: the recursion never goes deeper than max_depth.     *)
THEOREM RecursionIsBounded == Spec => []Jsn!DepthIsNesting
  <1>1. JsonInv => Jsn!DepthIsNesting
    BY DEF JsonInv
  <1>2. QED BY <1>1, JsonInvariant, PTL
-----------------------------------------------------------------------------
(* formatter_digest(): the two properties of Digest, of any messages.       *)
InOrder(msgs, upcoming) ==
    LET n == Len(msgs) IN
    /\ \A k \in 1..n : LET e == msgs[k].events IN
        /\ e # <<>>
        /\ e[1] = IF k = 1 THEN 1 ELSE Dig!Last(msgs[k - 1].events) + 1
        /\ \A j \in 1..(Len(e) - 1) : e[j + 1] = e[j] + 1
    /\ upcoming = IF n = 0 THEN 1 ELSE Dig!Last(msgs[n].events) + 1

(* Message m is the k-th, and too long for one event of its own. *)
TooLongAlone(m, k, lens) == \E e \in 1..Len(lens) :
    m.events = <<e>> /\ Dig!HeaderOf(k) + SepLen + lens[e] > MaxLen

Packed(msgs, lens) ==
    /\ \A k \in 1..Len(msgs) :
        msgs[k].length > MaxLen => TooLongAlone(msgs[k], k, lens)
    /\ \A k \in 1..(Len(msgs) - 1) :
        msgs[k].length + SepLen + lens[msgs[k + 1].events[1]] > MaxLen

(* Between calls the messages are gone; a body stays empty only until the   *)
(* first event is in it, under the first header.                            *)
DigestInv ==
    /\ Dig!DigestTypeOK
    /\ InOrder(Dig!Decided, i) /\ Packed(Dig!Decided, items)
    /\ digest_pc = "idle" => items = <<>> /\ body.events = <<>>
    /\ digest_pc \in {"idle", "pack"} /\ body.events = <<>> =>
         parts = <<>> /\ i = 1 /\ header = HeaderLen

LEMMA AppendFacts ==
  ASSUME NEW S, NEW s \in Seq(S), NEW e \in S
  PROVE  /\ Append(s, e) \in Seq(S) /\ Append(s, e) # <<>>
         /\ Len(s) \in Nat /\ Len(Append(s, e)) = Len(s) + 1
         /\ Append(s, e)[Len(s) + 1] = e
         /\ \A k \in 1..Len(s) : Append(s, e)[k] = s[k]
  OBVIOUS

(* A message with the next event alone, behind the others *)
LEMMA MessageAdded ==
  ASSUME NEW msgs \in Seq(Dig!Text), NEW m \in Dig!Text, NEW lens,
         NEW upcoming \in Nat \ {0},
         InOrder(msgs, upcoming), Packed(msgs, lens),
         m.events = <<upcoming>>, upcoming \in 1..Len(lens),
         m.length = Dig!HeaderOf(Len(msgs) + 1) + SepLen + lens[upcoming],
         msgs = <<>> \/ msgs[Len(msgs)].length + SepLen + lens[upcoming] > MaxLen
  PROVE  InOrder(Append(msgs, m), upcoming + 1) /\ Packed(Append(msgs, m), lens)
  <1> DEFINE all == Append(msgs, m)
             n == Len(msgs)
  <1>1. /\ n \in Nat /\ Len(all) = n + 1 /\ all[n + 1] = m
        /\ \A k \in 1..n : all[k] = msgs[k]
    BY AppendFacts
  <1>2. m.events # <<>> /\ Len(m.events) = 1 /\ m.events[1] = upcoming
    OBVIOUS
  <1>3. n = 0 <=> msgs = <<>>
    OBVIOUS
  <1> HIDE DEF all, n
  <1>4. ASSUME NEW k \in 1..Len(all)
        PROVE  /\ all[k].events # <<>>
               /\ all[k].events[1] =
                    IF k = 1 THEN 1 ELSE Dig!Last(all[k - 1].events) + 1
               /\ \A j \in 1..(Len(all[k].events) - 1) :
                    all[k].events[j + 1] = all[k].events[j] + 1
    <2>1. CASE k = n + 1
      <3>1. all[k] = m /\ (k # 1 => n # 0 /\ k - 1 = n /\ all[k - 1] = msgs[n])
        BY <1>1, <2>1
      <3>2. upcoming = IF n = 0 THEN 1 ELSE Dig!Last(msgs[n].events) + 1
        BY Zenon DEF InOrder, n
      <3>3. m.events[1] = IF k = 1 THEN 1 ELSE Dig!Last(all[k - 1].events) + 1
        BY <1>1, <1>2, <2>1, <3>1, <3>2
      <3>4. 1..(Len(m.events) - 1) = {}
        BY <1>2, SMT
      <3>5. QED BY <1>2, <3>1, <3>3, <3>4, Zenon
    <2>2. CASE k # n + 1
      <3>1. k \in 1..n /\ (k # 1 => k - 1 \in 1..n)
        BY <1>1, <2>2
      <3>2. all[k] = msgs[k] /\ (k # 1 => all[k - 1] = msgs[k - 1])
        BY <1>1, <3>1, Zenon
      <3>3. QED BY <3>1, <3>2, SMTT(30) DEF InOrder, n
    <2>3. QED BY <2>1, <2>2
  <1>5. upcoming + 1 = Dig!Last(all[Len(all)].events) + 1
    BY <1>1, <1>2 DEF Dig!Last
  <1>6. InOrder(all, upcoming + 1)
    BY <1>1, <1>4, <1>5 DEF InOrder
  <1>7. ASSUME NEW k \in 1..Len(all)
        PROVE  all[k].length > MaxLen => TooLongAlone(all[k], k, lens)
    <2>1. CASE k = n + 1
      BY <1>1, <2>1 DEF TooLongAlone, n
    <2>2. CASE k # n + 1
      <3>1. k \in 1..n
        BY <1>1, <2>2
      <3>2. QED BY <1>1, <3>1 DEF Packed, n
    <2>3. QED BY <2>1, <2>2
  <1>8. ASSUME NEW k \in 1..(Len(all) - 1)
        PROVE  all[k].length + SepLen + lens[all[k + 1].events[1]] > MaxLen
    <2>1. CASE k = n
      BY <1>1, <1>2, <1>3, <2>1 DEF n
    <2>2. CASE k # n
      <3>1. k \in 1..n /\ k + 1 \in 1..n /\ k \in 1..(n - 1)
        BY <1>1, <2>2
      <3>2. QED BY <1>1, <3>1 DEF Packed, n
    <2>3. QED BY <2>1, <2>2
  <1>9. Packed(all, lens)
    BY <1>7, <1>8 DEF Packed
  <1>10. QED BY <1>6, <1>9 DEF all

(* and the next event in the last of them.                                  *)
LEMMA MessageExtended ==
  ASSUME NEW msgs \in Seq(Dig!Text), NEW m \in Dig!Text, NEW more \in Dig!Text,
         NEW lens, NEW upcoming \in Nat \ {0},
         InOrder(Append(msgs, m), upcoming), Packed(Append(msgs, m), lens),
         more.events = Append(m.events, upcoming), more.length <= MaxLen,
         MaxLen \in Nat
  PROVE  /\ InOrder(Append(msgs, more), upcoming + 1)
         /\ Packed(Append(msgs, more), lens)
  <1> DEFINE old == Append(msgs, m)
             new == Append(msgs, more)
             n == Len(msgs)
  <1>1. /\ n \in Nat
        /\ Len(old) = n + 1 /\ old[n + 1] = m
        /\ Len(new) = n + 1 /\ new[n + 1] = more
        /\ \A k \in 1..n : new[k] = old[k]
    BY AppendFacts
  <1> HIDE DEF old, new, n
  <1>2. /\ m.events # <<>>
        /\ m.events[1] = IF n + 1 = 1 THEN 1 ELSE Dig!Last(old[n].events) + 1
        /\ \A j \in 1..(Len(m.events) - 1) : m.events[j + 1] = m.events[j] + 1
        /\ upcoming = Dig!Last(m.events) + 1
    <2>1. n + 1 \in 1..Len(old) /\ Len(old) # 0 /\ (n + 1) - 1 = n
      BY <1>1
    <2>2. InOrder(old, upcoming)
      BY DEF old
    <2>3. QED BY <1>1, <2>1, <2>2 DEF InOrder
  <1>3. /\ m.events \in Seq(Nat \ {0}) /\ Len(m.events) \in Nat \ {0}
        /\ more.events # <<>> /\ Len(more.events) = Len(m.events) + 1
        /\ more.events[Len(m.events) + 1] = upcoming
        /\ \A j \in 1..Len(m.events) : more.events[j] = m.events[j]
    <2>1. m.events \in Seq(Nat \ {0})
      BY DEF Dig!Text
    <2>2. QED BY <1>2, <2>1, AppendFacts
  <1>4. more.events[1] = m.events[1]
    BY <1>3
  <1>5. ASSUME NEW j \in 1..(Len(more.events) - 1)
        PROVE  more.events[j + 1] = more.events[j] + 1
    <2>1. CASE j = Len(m.events)
      BY <1>2, <1>3, <2>1 DEF Dig!Last
    <2>2. CASE j # Len(m.events)
      <3>1. /\ j \in 1..Len(m.events) /\ j + 1 \in 1..Len(m.events)
            /\ j \in 1..(Len(m.events) - 1)
        BY <1>3, <2>2
      <3>2. QED BY <1>2, <1>3, <3>1
    <2>3. QED BY <2>1, <2>2
  <1>6. ASSUME NEW k \in 1..Len(new)
        PROVE  /\ new[k].events # <<>>
               /\ new[k].events[1] =
                    IF k = 1 THEN 1 ELSE Dig!Last(new[k - 1].events) + 1
               /\ \A j \in 1..(Len(new[k].events) - 1) :
                    new[k].events[j + 1] = new[k].events[j] + 1
    <2>1. CASE k = n + 1
      <3>1. k # 1 => k - 1 = n /\ n \in 1..n
        BY <1>1, <2>1
      <3>2. new[k] = more /\ (k # 1 => new[k - 1] = old[n])
        BY <1>1, <2>1, <3>1
      <3>3. QED BY <1>2, <1>3, <1>4, <1>5, <2>1, <3>2
    <2>2. CASE k # n + 1
      <3>1. k \in 1..n /\ (k # 1 => k - 1 \in 1..n) /\ k \in 1..Len(old)
        BY <1>1, <2>2
      <3>2. new[k] = old[k] /\ (k # 1 => new[k - 1] = old[k - 1])
        BY <1>1, <3>1
      <3>3. InOrder(old, upcoming)
        BY DEF old
      <3>4. QED BY <3>1, <3>2, <3>3 DEF InOrder
    <2>3. QED BY <2>1, <2>2
  <1>7. upcoming + 1 = Dig!Last(new[Len(new)].events) + 1
    BY <1>1, <1>3 DEF Dig!Last
  <1>8. InOrder(new, upcoming + 1)
    BY <1>1, <1>6, <1>7 DEF InOrder
  <1>9. Packed(old, lens)
    BY DEF old
  <1>10. ASSUME NEW k \in 1..Len(new)
         PROVE  new[k].length > MaxLen => TooLongAlone(new[k], k, lens)
    <2>1. CASE k = n + 1
      <3>1. more.length \in Nat
        BY DEF Dig!Text
      <3>2. QED BY <1>1, <2>1, <3>1
    <2>2. CASE k # n + 1
      <3>1. k \in 1..n /\ k \in 1..Len(old)
        BY <1>1, <2>2
      <3>2. QED BY <1>1, <1>9, <3>1 DEF Packed
    <2>3. QED BY <2>1, <2>2
  <1>11. ASSUME NEW k \in 1..(Len(new) - 1)
         PROVE  new[k].length + SepLen + lens[new[k + 1].events[1]] > MaxLen
    <2>1. k \in 1..n /\ k \in 1..(Len(old) - 1)
      BY <1>1
    <2>2. new[k] = old[k] /\ new[k + 1].events[1] = old[k + 1].events[1]
      <3>1. CASE k = n
        BY <1>1, <1>4, <2>1, <3>1
      <3>2. CASE k # n
        <4>1. k + 1 \in 1..n
          BY <1>1, <2>1, <3>2
        <4>2. QED BY <1>1, <2>1, <4>1
      <3>3. QED BY <3>1, <3>2
    <2>3. QED BY <1>9, <2>1, <2>2 DEF Packed
  <1>12. Packed(new, lens)
    BY <1>10, <1>11 DEF Packed
  <1>13. QED BY <1>8, <1>12 DEF new

(* A body with event k behind it. *)
LEMMA WithFacts ==
  ASSUME NEW text \in Dig!Text, NEW k \in Nat \ {0}, items[k] \in Nat,
         Dig!DigestConstants, header \in Nat
  PROVE  /\ Dig!With(text, k) \in Dig!Text /\ Dig!With(text, k).events # <<>>
         /\ Dig!Message(text) \in Dig!Text
         /\ Dig!Message(text).events = text.events
         /\ Dig!Message(text).length = header + SepLen + text.length
         /\ text.events = <<>> =>
              /\ Dig!With(text, k).events = <<k>>
              /\ Dig!With(text, k).length = items[k]
         /\ text.events # <<>> =>
              /\ Dig!With(text, k).events = Append(text.events, k)
              /\ Dig!With(text, k).length = text.length + SepLen + items[k]
  <1>1. /\ text.events \in Seq(Nat \ {0}) /\ text.length \in Nat
        /\ text = [events |-> text.events, length |-> text.length]
    BY DEF Dig!Text
  <1>2. SepLen \in Nat
    BY DEF Dig!DigestConstants
  <1>m. /\ Dig!Message(text) = [events |-> text.events,
                                length |-> header + SepLen + text.length]
        /\ Dig!Message(text) \in Dig!Text
    <2>1. header + SepLen + text.length \in Nat
      BY <1>1, <1>2
    <2>2. Dig!Message(text) = [events |-> text.events,
                               length |-> header + SepLen + text.length]
      BY <1>1 DEF Dig!Message
    <2>3. QED BY <1>1, <2>1, <2>2 DEF Dig!Text
  <1>3. CASE text.events = <<>>
    <2>1. Dig!With(text, k) = [events |-> <<k>>, length |-> items[k]]
      BY <1>3 DEF Dig!With
    <2>2. <<k>> \in Seq(Nat \ {0}) /\ <<k>> # <<>>
      OBVIOUS
    <2>3. QED BY <1>m, <1>3, <2>1, <2>2 DEF Dig!Text
  <1>4. CASE text.events # <<>>
    <2>1. Dig!With(text, k) = [events |-> Append(text.events, k),
                               length |-> text.length + SepLen + items[k]]
      BY <1>4 DEF Dig!With
    <2>2. /\ Append(text.events, k) \in Seq(Nat \ {0})
          /\ Append(text.events, k) # <<>>
      BY <1>1, SMT
    <2>3. text.length + SepLen + items[k] \in Nat
      BY <1>1, <1>2
    <2>4. QED BY <1>m, <1>4, <2>1, <2>2, <2>3 DEF Dig!Text
  <1>5. QED BY <1>3, <1>4

LEMMA StepKeepsDigestInv ==
  ASSUME DigestInv, Dig!DigestConstants, [Dig!Next]_digestVars
  PROVE  DigestInv'
  <1>c. /\ MaxLen \in Nat /\ HeaderLen \in Nat /\ ContHeaderLen \in Nat
        /\ SepLen \in Nat /\ ItemLen \subseteq Nat
    BY DEF Dig!DigestConstants
  <1>t. /\ digest_pc \in {"idle", "pack", "returned"}
        /\ items \in Seq(ItemLen) /\ i \in 1..(Len(items) + 1)
        /\ header \in {HeaderLen, ContHeaderLen} /\ header \in Nat
        /\ body \in Dig!Text /\ parts \in Seq(Dig!Text)
        /\ Len(items) \in Nat
    BY <1>c DEF DigestInv, Dig!DigestTypeOK
  <1>o. InOrder(Dig!Decided, i) /\ Packed(Dig!Decided, items)
    BY DEF DigestInv
  <1>e. Dig!Empty \in Dig!Text /\ Dig!Empty.events = <<>>
    <2>1. <<>> \in Seq(Nat \ {0})
      OBVIOUS
    <2>2. QED BY <2>1 DEF Dig!Empty, Dig!Text
  <1>n. \A lens : InOrder(<<>>, 1) /\ Packed(<<>>, lens)
    BY DEF InOrder, Packed
  <1>1. CASE Dig!Call
    <2>1. PICK n \in 1..MaxEvents : items' \in [1..n -> ItemLen]
      BY <1>1 DEF Dig!Call
    <2>2. items' \in Seq(ItemLen) /\ Len(items') \in Nat
      BY <2>1
    <2>3. /\ body.events = <<>> /\ parts = <<>> /\ i = 1 /\ header = HeaderLen
          /\ digest_pc' = "pack" /\ i' = i
          /\ header' = header /\ body' = body /\ parts' = parts
      BY <1>1 DEF DigestInv, Dig!Call
    <2>4. Dig!Decided' = Dig!Decided
      BY <2>3 DEF Dig!Decided, Dig!Message
    <2>5. Dig!Decided = <<>>
      BY <2>3 DEF Dig!Decided
    <2>6. InOrder(<<>>, 1) /\ Packed(<<>>, items')
      BY <1>n
    <2>7. i' \in 1..(Len(items') + 1)
      BY <2>2, <2>3
    <2>8. Dig!DigestTypeOK'
      BY <1>t, <2>2, <2>3, <2>7 DEF Dig!DigestTypeOK
    <2>9. InOrder(Dig!Decided', i') /\ Packed(Dig!Decided', items')
      BY <2>3, <2>4, <2>5, <2>6
    <2>10. QED BY <2>3, <2>8, <2>9 DEF DigestInv
  <1>2. ASSUME digest_pc = "pack", i <= Len(items)
        PROVE  /\ i \in Nat \ {0} /\ items[i] \in Nat
               /\ i + 1 \in 1..(Len(items) + 1)
    <2>1. i \in 1..Len(items) /\ i + 1 \in 1..(Len(items) + 1)
      BY <1>t, <1>2
    <2>2. items[i] \in ItemLen
      BY <1>t, <2>1
    <2>3. items[i] \in Nat
      BY <1>c, <2>2
    <2>4. i \in Nat \ {0}
      BY <1>t
    <2>5. QED BY <2>1, <2>3, <2>4
  <1>3. CASE Dig!Add
    <2> DEFINE text == Dig!With(body, i)
    <2>1. /\ digest_pc = "pack" /\ i <= Len(items) /\ body' = text /\ i' = i + 1
          /\ digest_pc' = digest_pc /\ items' = items /\ header' = header
          /\ parts' = parts
          /\ ~Dig!TooLong \/ body.events = <<>>
      BY <1>3 DEF Dig!Add
    <2>2. /\ text \in Dig!Text /\ text.events # <<>>
          /\ Dig!Message(text) \in Dig!Text
          /\ Dig!Message(text).events = text.events
          /\ Dig!Message(body) \in Dig!Text
          /\ Dig!Message(body).events = body.events
          /\ body.events = <<>> =>
               /\ text.events = <<i>>
               /\ Dig!Message(text).length = header + SepLen + items[i]
          /\ body.events # <<>> => text.events = Append(body.events, i)
      BY <1>c, <1>t, <1>2, <2>1, WithFacts
    <2>3. Dig!Decided' = Append(parts, Dig!Message(text))
      <3>1. Dig!Message(body)' = Dig!Message(text)
        BY <2>1 DEF Dig!Message
      <3>2. QED BY <2>1, <2>2, <3>1 DEF Dig!Decided
    <2>4. Dig!TooLong <=> Dig!Message(text).length > MaxLen
      BY DEF Dig!TooLong
    <2> HIDE DEF text
    <2>5. /\ InOrder(Dig!Decided', i + 1) /\ Packed(Dig!Decided', items)
      <3>1. CASE body.events = <<>>
        <4>1. parts = <<>> /\ Dig!Decided = parts /\ header = HeaderLen
          BY <2>1, <3>1 DEF DigestInv, Dig!Decided
        <4>2. /\ Dig!Message(text).events = <<i>> /\ i \in 1..Len(items)
              /\ Dig!Message(text).length =
                   Dig!HeaderOf(Len(parts) + 1) + SepLen + items[i]
          BY <1>t, <2>1, <2>2, <3>1, <4>1 DEF Dig!HeaderOf
        <4>3. QED
          BY <1>t, <1>o, <1>2, <2>1, <2>2, <2>3, <4>1, <4>2, MessageAdded
      <3>2. CASE body.events # <<>>
        <4>1. Dig!Decided = Append(parts, Dig!Message(body))
          BY <3>2 DEF Dig!Decided
        <4>2. Dig!Message(text).events = Append(Dig!Message(body).events, i)
          BY <2>2, <3>2
        <4>3. Dig!Message(text).length <= MaxLen
          <5>1. Dig!Message(text).length \in Nat
            BY <2>2 DEF Dig!Text
          <5>2. QED BY <1>c, <2>1, <2>4, <3>2, <5>1
        <4>4. QED
          BY <1>c, <1>t, <1>o, <1>2, <2>1, <2>2, <2>3, <4>1, <4>2, <4>3,
             MessageExtended
      <3>3. QED BY <3>1, <3>2
    <2>6. QED
      BY <1>t, <1>2, <2>1, <2>2, <2>5 DEF DigestInv, Dig!DigestTypeOK
  <1>4. CASE Dig!Close
    <2> DEFINE text == Dig!With(Dig!Empty, i)
    <2>1. /\ digest_pc = "pack" /\ i <= Len(items) /\ body' = text /\ i' = i + 1
          /\ digest_pc' = digest_pc /\ items' = items
          /\ header' = ContHeaderLen /\ parts' = Append(parts, Dig!Message(body))
          /\ Dig!TooLong /\ body.events # <<>>
      BY <1>4 DEF Dig!Close
    <2>2. /\ text \in Dig!Text /\ text.events = <<i>> /\ text.length = items[i]
          /\ Dig!Message(body) \in Dig!Text
          /\ Dig!Message(body).length = header + SepLen + body.length
          /\ Dig!Message(Dig!With(body, i)).length =
               header + SepLen + (body.length + SepLen + items[i])
      <3>1. /\ Dig!With(body, i) \in Dig!Text
            /\ Dig!With(body, i).length = body.length + SepLen + items[i]
        BY <1>t, <1>2, <2>1, WithFacts
      <3>2. QED BY <1>t, <1>e, <1>2, <2>1, <3>1, WithFacts
    <2> DEFINE m == [text EXCEPT !.length = ContHeaderLen + SepLen + @]
    <2>3. /\ m \in Dig!Text /\ m.events = <<i>>
          /\ m.length = ContHeaderLen + SepLen + items[i]
      <3>1. /\ text = [events |-> text.events, length |-> text.length]
            /\ text.length \in Nat /\ text.events \in Seq(Nat \ {0})
        BY <2>2 DEF Dig!Text
      <3> HIDE DEF text
      <3>2. ContHeaderLen + SepLen + text.length \in Nat
        BY <1>c, <3>1
      <3>3. m = [events |-> text.events,
                 length |-> ContHeaderLen + SepLen + text.length]
        BY <3>1
      <3>4. QED BY <2>2, <3>1, <3>2, <3>3 DEF Dig!Text
    <2>4. Dig!Decided' = Append(parts', m)
      <3>1. Dig!Message(body)' = m
        BY <2>1 DEF Dig!Message
      <3>2. text.events # <<>>
        BY <2>2
      <3>3. QED BY <2>1, <3>1, <3>2 DEF Dig!Decided
    <2>5. parts' = Dig!Decided
      BY <2>1 DEF Dig!Decided
    <2> HIDE DEF m, text
    <2>6. parts'[Len(parts')].length + SepLen + items[i] > MaxLen
      <3>1. parts'[Len(parts')] = Dig!Message(body)
        <4>1. /\ Len(parts') = Len(parts) + 1
              /\ parts'[Len(parts) + 1] = Dig!Message(body)
          BY <1>t, <2>1, <2>2, AppendFacts
        <4>2. QED BY <4>1
      <3>2. header + SepLen + (body.length + SepLen + items[i]) > MaxLen
        BY <2>1, <2>2 DEF Dig!TooLong
      <3>3. body.length \in Nat
        BY <1>t DEF Dig!Text
      <3>4. items[i] \in Nat
        BY <1>c, <1>t, <1>2, <2>1
      <3>5. parts'[Len(parts')].length = header + SepLen + body.length
        BY <2>2, <3>1, Zenon
      <3>6. /\ header \in Nat /\ SepLen \in Nat /\ MaxLen \in Nat
        BY <1>c, <1>t, Zenon
      <3>7. QED BY <3>2, <3>3, <3>4, <3>5, <3>6, SMT
    <2>7. parts' \in Seq(Dig!Text) /\ Dig!HeaderOf(Len(parts') + 1) = ContHeaderLen
      <3>1. parts' \in Seq(Dig!Text) /\ Len(parts') = Len(parts) + 1
        BY <1>t, <2>1, <2>2, AppendFacts
      <3>2. Len(parts) \in Nat
        BY <1>t
      <3>3. QED BY <3>1, <3>2 DEF Dig!HeaderOf
    <2>a. i \in 1..Len(items)
      BY <1>t, <2>1
    <2>8. InOrder(Dig!Decided', i + 1) /\ Packed(Dig!Decided', items)
      BY <1>o, <1>2, <2>1, <2>3, <2>4, <2>5, <2>6, <2>7, <2>a, MessageAdded
    <2>9. body'.events # <<>>
      BY <2>1, <2>2
    <2>10. QED
      BY <1>t, <1>2, <2>1, <2>2, <2>7, <2>8, <2>9
      DEF DigestInv, Dig!DigestTypeOK
  <1>5. CASE Dig!Flush
    <2>1. /\ parts' = Dig!Decided /\ body' = Dig!Empty
          /\ digest_pc' = "returned"
          /\ items' = items /\ i' = i /\ header' = header
      BY <1>5 DEF Dig!Flush, Dig!Decided
    <2>2. Dig!Decided' = Dig!Decided
      <3>1. body'.events = <<>>
        BY <1>e, <2>1
      <3>2. QED BY <2>1, <3>1 DEF Dig!Decided
    <2>3. parts' \in Seq(Dig!Text)
      <3>1. Dig!Message(body) \in Dig!Text
        <4>1. body.events \in Seq(Nat \ {0}) /\ body.length \in Nat
          BY <1>t DEF Dig!Text
        <4>2. header + SepLen + body.length \in Nat
          BY <1>c, <1>t, <4>1
        <4>3. QED BY <1>t, <4>1, <4>2 DEF Dig!Message, Dig!Text
      <3>2. QED BY <1>t, <2>1, <3>1, AppendFacts DEF Dig!Decided
    <2>4. QED
      BY <1>t, <1>o, <1>e, <2>1, <2>2, <2>3 DEF DigestInv, Dig!DigestTypeOK
  <1>6. CASE Dig!Free
    <2>1. /\ digest_pc' = "idle" /\ items' = <<>> /\ i' = 1
          /\ header' = HeaderLen /\ body' = Dig!Empty /\ parts' = <<>>
      BY <1>6 DEF Dig!Free
    <2>2. /\ body'.events = <<>> /\ Dig!Decided' = <<>>
      BY <1>e, <2>1 DEF Dig!Decided
    <2>3. /\ <<>> \in Seq(ItemLen) /\ <<>> \in Seq(Dig!Text)
          /\ 1 \in 1..(Len(<<>>) + 1)
      OBVIOUS
    <2>4. InOrder(<<>>, 1) /\ Packed(<<>>, items')
      BY <1>n
    <2>5. QED BY <1>e, <2>1, <2>2, <2>3, <2>4 DEF DigestInv, Dig!DigestTypeOK
  <1>7. CASE UNCHANGED digestVars
    <2>1. /\ digest_pc' = digest_pc /\ items' = items /\ i' = i
          /\ header' = header /\ body' = body /\ parts' = parts
      BY <1>7 DEF digestVars
    <2>2. Dig!Decided' = Dig!Decided
      BY <2>1 DEF Dig!Decided, Dig!Message
    <2>3. QED BY <1>t, <1>o, <2>1, <2>2 DEF DigestInv, Dig!DigestTypeOK
  <1>8. QED
    BY <1>1, <1>3, <1>4, <1>5, <1>6, <1>7 DEF Dig!Next

LEMMA DigestInvariant == Spec => []DigestInv
  <1>1. Init => DigestInv
    <2> SUFFICES ASSUME Dig!Init PROVE DigestInv
      BY DEF Init
    <2>1. /\ digest_pc = "idle" /\ items = <<>> /\ i = 1
          /\ header = HeaderLen /\ body = Dig!Empty /\ parts = <<>>
      BY DEF Dig!Init
    <2>2. body \in Dig!Text /\ body.events = <<>> /\ Dig!Decided = <<>>
      <3>1. <<>> \in Seq(Nat \ {0})
        OBVIOUS
      <3>2. QED BY <2>1, <3>1 DEF Dig!Empty, Dig!Text, Dig!Decided
    <2>3. /\ <<>> \in Seq(ItemLen) /\ <<>> \in Seq(Dig!Text)
          /\ 1 \in 1..(Len(<<>>) + 1)
      OBVIOUS
    <2>4. InOrder(<<>>, 1) /\ Packed(<<>>, items)
      BY DEF InOrder, Packed
    <2>5. QED BY <2>1, <2>2, <2>3, <2>4 DEF DigestInv, Dig!DigestTypeOK
  <1>2. DigestInv /\ [Next]_vars => DigestInv'
    BY LibraryAssumption, StepOfPart, StepKeepsDigestInv
  <1>3. QED BY <1>1, <1>2, PTL DEF Spec

(* Every digest, of whatever events, shows each of them once and in order,  *)
(* and no message is closed before it has to be.  One longer than the limit *)
(* shows a single event, whose block does not fit under the header: such    *)
(* blocks there are, and formatter_digest() sends them as they are.         *)
THEOREM DigestsArePacked == Spec => []DigestPacked
  <1>1. DigestInv => DigestPacked
    BY DEF DigestInv, DigestPacked, Dig!EventsInOrder, Dig!MessagesPacked,
           InOrder, Packed, TooLongAlone
  <1>2. QED BY <1>1, DigestInvariant, PTL
-----------------------------------------------------------------------------
(* is_internal_host(): a mask leaves the quotient, so that comparing with it is *)
(* asking for a range.  Quotient and remainder are named, to stay linear.       *)
LEMMA DivMod ==
  ASSUME NEW x \in Nat, NEW m \in Nat \ {0}
  PROVE  \E q, r \in Nat : r < m /\ x = m * q + r /\ x % m = r /\ x \div m = q
  <1>1. /\ x \div m \in Nat /\ x % m \in Nat /\ x % m < m
        /\ x = m * (x \div m) + (x % m)
    BY SMT
  <1>2. QED BY <1>1, SMT

(* What the masks leave of 16 bits. *)
LEMMA Masks ==
  ASSUME NEW x \in Nat, x <= 65535
  PROVE  /\ Hst!And(x, 0) = 0
         /\ Hst!And(x, 65535) = x
         /\ \A v \in Nat : (Hst!And(x, 65280) = 256 * v) <=> (x \div 256 = v)
         /\ (Hst!And(x, 65472) = 25664) <=> (25664 <= x /\ x <= 25727)
         /\ (Hst!And(x, 65520) = 44048) <=> (44048 <= x /\ x <= 44063)
         /\ (Hst!And(x, 65534) = 50706) <=> (50706 <= x /\ x <= 50707)
         /\ (Hst!And(x, 61440) = 57344) <=> (57344 <= x /\ x <= 61439)
         /\ (Hst!And(x, 61440) = 61440) <=> 61440 <= x
  <1>1. Hst!And(x, 0) = 0
    <2>1. x % 65536 = x
      BY SMT
    <2>2. QED BY <2>1, SMT DEF Hst!And
  <1>2. Hst!And(x, 65535) = x
    BY SMT DEF Hst!And
  <1>3. \A v \in Nat : (Hst!And(x, 65280) = 256 * v) <=> (x \div 256 = v)
    <2>1. PICK q, r \in Nat :
            r < 256 /\ x = 256 * q + r /\ x % 256 = r /\ x \div 256 = q
      BY DivMod, SMT
    <2>2. QED BY <2>1, SMT DEF Hst!And
  <1>4. (Hst!And(x, 65472) = 25664) <=> (25664 <= x /\ x <= 25727)
    <2>1. PICK q, r \in Nat : r < 64 /\ x = 64 * q + r /\ x % 64 = r
      BY DivMod, SMT
    <2>2. QED BY <2>1, SMT DEF Hst!And
  <1>5. (Hst!And(x, 65520) = 44048) <=> (44048 <= x /\ x <= 44063)
    <2>1. PICK q, r \in Nat : r < 16 /\ x = 16 * q + r /\ x % 16 = r
      BY DivMod, SMT
    <2>2. QED BY <2>1, SMT DEF Hst!And
  <1>6. (Hst!And(x, 65534) = 50706) <=> (50706 <= x /\ x <= 50707)
    <2>1. PICK q, r \in Nat : r < 2 /\ x = 2 * q + r /\ x % 2 = r
      BY DivMod, SMT
    <2>2. QED BY <2>1, SMT DEF Hst!And
  <1>7. /\ (Hst!And(x, 61440) = 57344) <=> (57344 <= x /\ x <= 61439)
        /\ (Hst!And(x, 61440) = 61440) <=> 61440 <= x
    <2>1. PICK q, r \in Nat : r < 4096 /\ x = 4096 * q + r /\ x % 4096 = r
      BY DivMod, SMT
    <2>2. QED BY <2>1, SMT DEF Hst!And
  <1>8. QED BY <1>1, <1>2, <1>3, <1>4, <1>5, <1>6, <1>7, SMT

(* The ranges, octet by octet. *)
Special(a, b, c) ==
    \/ a \in {0, 10, 127}
    \/ a = 100 /\ 64 <= b /\ b <= 127
    \/ a = 169 /\ b = 254
    \/ a = 172 /\ 16 <= b /\ b <= 31
    \/ a = 192 /\ (b = 168 \/ (b = 0 /\ c \in {0, 2}) \/ (b = 88 /\ c = 99))
    \/ a = 198 /\ (b \in {18, 19} \/ (b = 51 /\ c = 100))
    \/ a = 203 /\ b = 0 /\ c = 113
    \/ 224 <= a

LEMMA MaskedRanges ==
  ASSUME NEW a \in Nat, NEW b \in Nat, NEW c \in Nat, NEW d \in Nat,
         a <= 255, b <= 255, c <= 255, d <= 255
  PROVE  Hst!InternalV4(<<a, b, c, d>>) <=> Special(a, b, c)
  <1> DEFINE x == 256 * a + b
             y == 256 * c + d
  <1>1. /\ x \in Nat /\ x <= 65535 /\ y \in Nat /\ y <= 65535
        /\ x \div 256 = a /\ y \div 256 = c
    BY SMT
  <1> DEFINE Match(r1, r2, r3, r4) == Hst!And(x, r1) = r3 /\ Hst!And(y, r2) = r4
  <1>2. Hst!InternalV4(<<a, b, c, d>>) <=>
          \/ Match(65280, 0, 0, 0)
          \/ Match(65280, 0, 2560, 0)
          \/ Match(65280, 0, 32512, 0)
          \/ Match(65535, 0, 43518, 0)
          \/ Match(65520, 0, 44048, 0)
          \/ Match(65535, 65280, 49152, 0)
          \/ Match(65535, 65280, 49152, 512)
          \/ Match(65535, 65280, 49240, 25344)
          \/ Match(65535, 0, 49320, 0)
          \/ Match(65534, 0, 50706, 0)
          \/ Match(65535, 65280, 50739, 25600)
          \/ Match(65535, 65280, 51968, 28928)
          \/ Match(61440, 0, 57344, 0)
          \/ Match(61440, 0, 61440, 0)
          \/ Match(65472, 0, 25664, 0)
    BY SMT DEF Hst!InternalV4, Hst!Ranges, Hst!SharedSpace
  <1>3. /\ Match(65280, 0, 0, 0) <=> a = 0
        /\ Match(65280, 0, 2560, 0) <=> a = 10
        /\ Match(65280, 0, 32512, 0) <=> a = 127
    <2>1. 0 = 256 * 0 /\ 2560 = 256 * 10 /\ 32512 = 256 * 127
      BY SMT
    <2> HIDE DEF x, y
    <2>2. QED BY <1>1, <2>1, Masks, SMT
  <1>4. /\ Match(65535, 0, 43518, 0) <=> x = 43518
        /\ Match(65520, 0, 44048, 0) <=> 44048 <= x /\ x <= 44063
        /\ Match(65535, 0, 49320, 0) <=> x = 49320
        /\ Match(65534, 0, 50706, 0) <=> 50706 <= x /\ x <= 50707
        /\ Match(61440, 0, 57344, 0) <=> 57344 <= x /\ x <= 61439
        /\ Match(61440, 0, 61440, 0) <=> 61440 <= x
        /\ Match(65472, 0, 25664, 0) <=> 25664 <= x /\ x <= 25727
    <2> HIDE DEF x, y
    <2>2. QED BY <1>1, Masks, SMT
  <1>5. /\ Match(65535, 65280, 49152, 0) <=> x = 49152 /\ c = 0
        /\ Match(65535, 65280, 49152, 512) <=> x = 49152 /\ c = 2
        /\ Match(65535, 65280, 49240, 25344) <=> x = 49240 /\ c = 99
        /\ Match(65535, 65280, 50739, 25600) <=> x = 50739 /\ c = 100
        /\ Match(65535, 65280, 51968, 28928) <=> x = 51968 /\ c = 113
    <2>1. /\ 0 = 256 * 0 /\ 512 = 256 * 2 /\ 25344 = 256 * 99
          /\ 25600 = 256 * 100 /\ 28928 = 256 * 113
      BY SMT
    <2> HIDE DEF x, y
    <2>2. QED BY <1>1, <2>1, Masks, SMT
  <1> HIDE DEF Match
  <1>6. QED BY <1>2, <1>3, <1>4, <1>5, SMT DEF Special

LEMMA NamedRanges ==
  ASSUME NEW a \in Nat, NEW b \in Nat, NEW c \in Nat, NEW d \in Nat,
         a <= 255, b <= 255, c <= 255, d <= 255
  PROVE  Hst!IsReserved(<<a, b, c, d>>) <=> Special(a, b, c)
  <1> DEFINE o == <<a, b, c, d>>
  <1>1. /\ a \div 256 = 0 /\ b \div 256 = 0 /\ c \div 256 = 0 /\ d \div 256 = 0
        /\ a \div 1 = a /\ b \div 1 = b /\ c \div 1 = c
    BY SMT
  <1>2. /\ \A v \in Nat : v <= 255 => v \div 256 = 0 /\ v \div 1 = v
    BY SMT
  <1>3. \A v \in Nat : v <= 255 => (Hst!InCidr(o, <<v, 0, 0, 0>>, 8) <=> a = v)
    BY <1>1, <1>2, SMT DEF Hst!InCidr
  <1>4. \A v, w \in Nat : v <= 255 /\ w <= 255 =>
          (Hst!InCidr(o, <<v, w, 0, 0>>, 16) <=> a = v /\ b = w)
    BY <1>1, <1>2, SMT DEF Hst!InCidr
  <1>5. \A u, v, w \in Nat : u <= 255 /\ v <= 255 /\ w <= 255 =>
          (Hst!InCidr(o, <<u, v, w, 0>>, 24) <=> a = u /\ b = v /\ c = w)
    BY <1>1, <1>2, SMT DEF Hst!InCidr
  <1>6. Hst!InCidr(o, <<100, 64, 0, 0>>, 10) <=> a = 100 /\ 64 <= b /\ b <= 127
    <2>1. (b \div 64 = 64 \div 64) <=> (64 <= b /\ b <= 127)
      BY SMT
    <2>2. QED BY <1>1, <1>2, <2>1, SMT DEF Hst!InCidr
  <1>7. Hst!InCidr(o, <<172, 16, 0, 0>>, 12) <=> a = 172 /\ 16 <= b /\ b <= 31
    <2>1. (b \div 16 = 16 \div 16) <=> (16 <= b /\ b <= 31)
      BY SMT
    <2>2. QED BY <1>1, <1>2, <2>1, SMT DEF Hst!InCidr
  <1>8. Hst!InCidr(o, <<198, 18, 0, 0>>, 15) <=> a = 198 /\ b \in {18, 19}
    <2>1. (b \div 2 = 18 \div 2) <=> (b \in {18, 19})
      BY SMT
    <2>2. QED BY <1>1, <1>2, <2>1, SMT DEF Hst!InCidr
  <1>9. /\ Hst!InCidr(o, <<224, 0, 0, 0>>, 4) <=> 224 <= a /\ a <= 239
        /\ Hst!InCidr(o, <<240, 0, 0, 0>>, 4) <=> 240 <= a
    <2>1. /\ (a \div 16 = 224 \div 16) <=> (224 <= a /\ a <= 239)
          /\ (a \div 16 = 240 \div 16) <=> (240 <= a)
      BY SMT
    <2>2. QED BY <1>1, <1>2, <2>1, SMT DEF Hst!InCidr
  <1> DEFINE In(base, bits) == Hst!InCidr(o, base, bits)
  <1>10. Hst!IsReserved(o) <=>
          \/ In(<<0, 0, 0, 0>>, 8) \/ In(<<10, 0, 0, 0>>, 8)
          \/ In(<<100, 64, 0, 0>>, 10) \/ In(<<127, 0, 0, 0>>, 8)
          \/ In(<<169, 254, 0, 0>>, 16) \/ In(<<172, 16, 0, 0>>, 12)
          \/ In(<<192, 0, 0, 0>>, 24) \/ In(<<192, 0, 2, 0>>, 24)
          \/ In(<<192, 88, 99, 0>>, 24) \/ In(<<192, 168, 0, 0>>, 16)
          \/ In(<<198, 18, 0, 0>>, 15) \/ In(<<198, 51, 100, 0>>, 24)
          \/ In(<<203, 0, 113, 0>>, 24) \/ In(<<224, 0, 0, 0>>, 4)
          \/ In(<<240, 0, 0, 0>>, 4)
    BY SMT DEF Hst!IsReserved, Hst!Reserved
  <1> HIDE DEF o
  <1>11. /\ In(<<0, 0, 0, 0>>, 8) <=> a = 0
         /\ In(<<10, 0, 0, 0>>, 8) <=> a = 10
         /\ In(<<127, 0, 0, 0>>, 8) <=> a = 127
         /\ In(<<169, 254, 0, 0>>, 16) <=> a = 169 /\ b = 254
         /\ In(<<192, 168, 0, 0>>, 16) <=> a = 192 /\ b = 168
         /\ In(<<192, 0, 0, 0>>, 24) <=> a = 192 /\ b = 0 /\ c = 0
         /\ In(<<192, 0, 2, 0>>, 24) <=> a = 192 /\ b = 0 /\ c = 2
         /\ In(<<192, 88, 99, 0>>, 24) <=> a = 192 /\ b = 88 /\ c = 99
         /\ In(<<198, 51, 100, 0>>, 24) <=> a = 198 /\ b = 51 /\ c = 100
         /\ In(<<203, 0, 113, 0>>, 24) <=> a = 203 /\ b = 0 /\ c = 113
    BY <1>3, <1>4, <1>5, SMTT(30)
  <1>12. /\ In(<<100, 64, 0, 0>>, 10) <=> a = 100 /\ 64 <= b /\ b <= 127
         /\ In(<<172, 16, 0, 0>>, 12) <=> a = 172 /\ 16 <= b /\ b <= 31
         /\ In(<<198, 18, 0, 0>>, 15) <=> a = 198 /\ b \in {18, 19}
         /\ In(<<224, 0, 0, 0>>, 4) <=> 224 <= a /\ a <= 239
         /\ In(<<240, 0, 0, 0>>, 4) <=> 240 <= a
    BY <1>6, <1>7, <1>8, <1>9
  <1> HIDE DEF In
  <1>13. Hst!IsReserved(o) <=> Special(a, b, c)
    BY <1>10, <1>11, <1>12, SMT DEF Special
  <1>14. QED BY <1>13 DEF o

(* So the masks of the code are the ranges of its comments.                 *)
LEMMA RangesAgree ==
  ASSUME NEW o, o = <<o[1], o[2], o[3], o[4]>>,
         \A k \in 1..4 : o[k] \in Nat /\ o[k] <= 255
  PROVE  Hst!InternalV4(o) <=> Hst!IsReserved(o)
  <1>1. /\ o[1] \in Nat /\ o[2] \in Nat /\ o[3] \in Nat /\ o[4] \in Nat
        /\ o[1] <= 255 /\ o[2] <= 255 /\ o[3] <= 255 /\ o[4] <= 255
    BY SMT
  <1> DEFINE p == <<o[1], o[2], o[3], o[4]>>
  <1>2. Hst!InternalV4(p) <=> Hst!IsReserved(p)
    BY <1>1, MaskedRanges, NamedRanges
  <1>3. QED BY <1>2

(* 16 bits are two octets. *)
LEMMA Octets ==
  ASSUME NEW x \in Nat, x <= 65535
  PROVE  /\ x \div 256 \in Nat /\ x \div 256 <= 255
         /\ x % 256 \in Nat /\ x % 256 <= 255
         /\ x = 256 * (x \div 256) + (x % 256)
  <1>1. PICK q, r \in Nat :
          r < 256 /\ x = 256 * q + r /\ x % 256 = r /\ x \div 256 = q
    BY DivMod, SMT
  <1>2. QED BY <1>1, SMT

(* An IPv6 address whose first six groups announce an IPv4 address.         *)
LEMMA EmbeddedAgree ==
  ASSUME NEW g, \A k \in 1..5 : g[k] = 0, g[6] = 0 \/ g[6] = 65535,
         g[7] \in Nat, g[7] <= 65535, g[8] \in Nat, g[8] <= 65535
  PROVE  Hst!InternalV6(g) <=> Hst!IsReserved(Hst!Embedded(g))
  <1> DEFINE o == Hst!Embedded(g)
  <1>1. /\ o = <<g[7] \div 256, g[7] % 256, g[8] \div 256, g[8] % 256>>
        /\ o[1] = g[7] \div 256 /\ o[2] = g[7] % 256
        /\ o[3] = g[8] \div 256 /\ o[4] = g[8] % 256
    BY DEF Hst!Embedded
  <1> HIDE DEF o
  <1>2. /\ o = <<o[1], o[2], o[3], o[4]>>
        /\ \A k \in 1..4 : o[k] \in Nat /\ o[k] <= 255
    <2>1. o = <<o[1], o[2], o[3], o[4]>>
      BY <1>1
    <2>2. \A k \in 1..4 : k = 1 \/ k = 2 \/ k = 3 \/ k = 4
      BY SMT
    <2>3. /\ o[1] \in Nat /\ o[1] <= 255 /\ o[2] \in Nat /\ o[2] <= 255
          /\ o[3] \in Nat /\ o[3] <= 255 /\ o[4] \in Nat /\ o[4] <= 255
      BY <1>1, Octets
    <2>4. QED BY <2>1, <2>2, <2>3
  <1>3. Hst!InternalV4(o) <=> Hst!IsReserved(o)
    BY <1>2, RangesAgree
  <1>4. g[1] = 0
    BY SMT
  <1>5. /\ Hst!And(0, 65472) # 65152 /\ Hst!And(0, 65280) # 65280
        /\ Hst!And(0, 65024) # 64512
    BY SMT DEF Hst!And
  <1>6. CASE Hst!EmbedsV4(g)
    <2>1. ~ \A k \in 1..7 : g[k] = 0 /\ g[8] \in {0, 1}
      BY <1>6, SMT DEF Hst!EmbedsV4
    <2>2. Hst!InternalV6(g) <=> Hst!InternalV4(o)
      BY <1>4, <1>5, <1>6, <2>1, SMT DEF Hst!InternalV6, o
    <2>3. QED BY <1>3, <2>2 DEF o
  <1>7. CASE ~Hst!EmbedsV4(g)
    <2>1. g[6] = 0 /\ g[7] = 0 /\ (g[8] = 0 \/ g[8] = 1)
      BY <1>7, SMT DEF Hst!EmbedsV4
    <2>2. \A k \in 1..7 : g[k] = 0 /\ g[8] \in {0, 1}
      BY <2>1, SMT
    <2>3. Hst!InternalV6(g)
      BY <2>2, SMT DEF Hst!InternalV6
    <2>4. o[1] = 0
      BY <1>1, <2>1, SMT
    <2>5. Hst!IsReserved(o)
      <3>1. Special(o[1], o[2], o[3])
        BY <2>4, SMT DEF Special
      <3> DEFINE p == <<o[1], o[2], o[3], o[4]>>
      <3>2. /\ o[1] \in Nat /\ o[1] <= 255 /\ o[2] \in Nat /\ o[2] <= 255
            /\ o[3] \in Nat /\ o[3] <= 255 /\ o[4] \in Nat /\ o[4] <= 255
        BY <1>1, Octets
      <3>3. Hst!IsReserved(p)
        BY <3>1, <3>2, NamedRanges
      <3>4. QED BY <1>2, <3>3
    <2>6. QED BY <2>3, <2>5 DEF o
  <1>8. QED BY <1>6, <1>7

LEMMA NamesAgree ==
  ASSUME NEW s \in Seq(STRING), s # <<>>
  PROVE  LET numeric == s \in Hst!Known \/ Hst!LooksNumeric(s) IN
         /\ Hst!Range(s) \subseteq Hst!Digit => numeric
         /\ numeric => \/ Hst!Range(s) \subseteq Hst!Digit \cup {"."}
                       \/ Hst!Hexadecimal(s)
                       \/ s \in Hst!Known
  <1>1. /\ Len(s) \in Nat \ {0} /\ DOMAIN s = 1..Len(s)
        /\ s = [k \in 1..Len(s) |-> s[k]]
    BY SMT
  <1>2. Hst!Range(s) = {s[k] : k \in 1..Len(s)}
    BY <1>1 DEF Hst!Range
  <1>3. ASSUME Hst!Range(s) \subseteq Hst!Digit PROVE Hst!LooksNumeric(s)
    <2>1. \A k \in 1..Len(s) : s[k] \in Hst!Digit
      BY <1>2, <1>3
    <2>2. "x" \notin Hst!Digit /\ 1 \in 1..Len(s)
      BY <1>1, SMT DEF Hst!Digit
    <2>3. ~(Len(s) > 2 /\ s[1] = "0" /\ s[2] = "x")
      <3>1. Len(s) > 2 => 2 \in 1..Len(s)
        BY <1>1, SMT
      <3>2. QED BY <2>1, <2>2, <3>1
    <2>4. QED BY <1>1, <2>1, <2>2, <2>3 DEF Hst!LooksNumeric
  <1>4. ASSUME Hst!LooksNumeric(s), ~(Len(s) > 2 /\ s[1] = "0" /\ s[2] = "x")
        PROVE  Hst!Range(s) \subseteq Hst!Digit \cup {"."}
    BY <1>1, <1>2, <1>4 DEF Hst!LooksNumeric
  <1>5. ASSUME Len(s) > 2, s[1] = "0", s[2] = "x"
        PROVE  Hst!Hexadecimal(s)
    BY <1>5 DEF Hst!Hexadecimal
  <1>6. QED BY <1>3, <1>4, <1>5

(* The masks of is_internal_host() on the first group of an IPv6 address. *)
LEMMA GroupMasks ==
  ASSUME NEW x \in Nat, x <= 65535
  PROVE  /\ (Hst!And(x, 65472) = 65152) <=> (65152 <= x /\ x <= 65215)
         /\ (Hst!And(x, 65280) = 65280) <=> 65280 <= x
         /\ (Hst!And(x, 65024) = 64512) <=> (64512 <= x /\ x <= 65023)
  <1>1. (Hst!And(x, 65472) = 65152) <=> (65152 <= x /\ x <= 65215)
    <2>1. PICK q, r \in Nat : r < 64 /\ x = 64 * q + r /\ x % 64 = r
      BY DivMod, SMT
    <2>2. QED BY <2>1, SMT DEF Hst!And
  <1>2. (Hst!And(x, 65280) = 65280) <=> 65280 <= x
    <2>1. PICK q, r \in Nat : r < 256 /\ x = 256 * q + r /\ x % 256 = r
      BY DivMod, SMT
    <2>2. QED BY <2>1, SMT DEF Hst!And
  <1>3. (Hst!And(x, 65024) = 64512) <=> (64512 <= x /\ x <= 65023)
    <2>1. PICK q, r \in Nat : r < 512 /\ x = 512 * q + r /\ x % 512 = r
      BY DivMod, SMT
    <2>2. QED BY <2>1, SMT DEF Hst!And
  <1>4. QED BY <1>1, <1>2, <1>3

(* What HostsJudged says, of a host of each kind.                           *)
JudgedV4(h, verdict) == verdict = Hst!IsReserved(h)
RangedV6(h) == \/ h[1] \in Hst!ReservedGroups
               \/ Hst!Announces(h) /\ Hst!IsReserved(Hst!Embedded(h))
JudgedV6(h, verdict) == verdict = RangedV6(h)
JudgedName(h, verdict) ==
    h # <<>> =>
        /\ Hst!Range(h) \subseteq Hst!Digit => verdict
        /\ verdict => \/ Hst!Range(h) \subseteq Hst!Digit \cup {"."}
                      \/ Hst!Hexadecimal(h)
                      \/ h \in Hst!Known

LEMMA JudgedByKind ==
  Hst!HostsJudged <=>
    (host_pc = "judged" =>
        /\ host.kind = "v4" => JudgedV4(host.is, internal)
        /\ host.kind = "v6" => JudgedV6(host.is, internal)
        /\ host.kind = "name" => JudgedName(host.is, internal))
  BY DEF Hst!HostsJudged, JudgedV4, JudgedV6, RangedV6, JudgedName

LEMMA V4Judged ==
  ASSUME NEW h \in [1..4 -> Hst!Octet]
  PROVE  JudgedV4(h, Hst!InternalV4(h))
  <1>1. h = [k \in 1..4 |-> h[k]] /\ \A k \in 1..4 : h[k] \in Hst!Octet
    BY SMT
  <1>2. /\ h = <<h[1], h[2], h[3], h[4]>>
        /\ \A k \in 1..4 : h[k] \in Nat /\ h[k] <= 255
    BY <1>1, SMTT(30) DEF Hst!Octet
  <1>3. Hst!InternalV4(h) <=> Hst!IsReserved(h)
    BY <1>2, RangesAgree, SMT
  <1>4. Hst!InternalV4(h) \in BOOLEAN /\ Hst!IsReserved(h) \in BOOLEAN
    BY SMT DEF Hst!InternalV4, Hst!IsReserved
  <1>5. QED BY <1>3, <1>4, SMT DEF JudgedV4

LEMMA InRange == \A x, a, b \in Nat : x \in a..b <=> a <= x /\ x <= b
  OBVIOUS

(* The masks on the first group are the ranges of its kind. *)
LEMMA GroupsAgree ==
  ASSUME NEW x \in Nat, x <= 65535
  PROVE  x \in Hst!ReservedGroups <=> \/ Hst!And(x, 65472) = 65152
                                      \/ Hst!And(x, 65280) = 65280
                                      \/ Hst!And(x, 65024) = 64512
  <1> DEFINE unique == 64512..65023
             link == 65152..65215
             multicast == 65280..65535
  <1>1. Hst!ReservedGroups = unique \cup link \cup multicast
    BY DEF Hst!ReservedGroups
  <1>2. /\ x \in unique <=> 64512 <= x /\ x <= 65023
        /\ x \in link <=> 65152 <= x /\ x <= 65215
        /\ x \in multicast <=> 65280 <= x
    BY InRange, SMT
  <1> HIDE DEF unique, link, multicast
  <1>3. QED BY <1>1, <1>2, GroupMasks

LEMMA V6Judged ==
  ASSUME NEW h, \A k \in 1..8 : h[k] \in Nat /\ h[k] <= 65535
  PROVE  JudgedV6(h, Hst!InternalV6(h))
  <1> DEFINE ranged == h[1] \in Hst!ReservedGroups
             contained == Hst!Announces(h) /\ Hst!IsReserved(Hst!Embedded(h))
  <1>1. /\ h[1] \in Nat /\ h[1] <= 65535
        /\ h[7] \in Nat /\ h[7] <= 65535
        /\ h[8] \in Nat /\ h[8] <= 65535
    BY SMT
  <1>2. Hst!InternalV6(h) <=> ranged \/ contained
    <2>1. CASE Hst!Announces(h)
      <3>1. /\ \A k \in 1..5 : h[k] = 0
            /\ h[6] = 0 \/ h[6] = 65535
        BY <2>1, SMT DEF Hst!Announces
      <3>2. Hst!InternalV6(h) <=> Hst!IsReserved(Hst!Embedded(h))
        BY <1>1, <3>1, EmbeddedAgree, SMT
      <3>3. ~ranged
        <4>1. h[1] = 0
          BY <3>1, SMT
        <4>2. /\ Hst!And(0, 65472) # 65152 /\ Hst!And(0, 65280) # 65280
              /\ Hst!And(0, 65024) # 64512
          BY SMT DEF Hst!And
        <4>3. QED BY <1>1, <4>1, <4>2, GroupsAgree
      <3>4. QED BY <2>1, <3>2, <3>3
    <2>2. CASE ~Hst!Announces(h)
      <3>1. ~(\A k \in 1..7 : h[k] = 0 /\ h[8] \in {0, 1})
        BY <2>2, SMT DEF Hst!Announces
      <3>2. ~Hst!EmbedsV4(h)
        BY <2>2, SMT DEF Hst!Announces, Hst!EmbedsV4
      <3>3. Hst!InternalV6(h) <=> \/ Hst!And(h[1], 65472) = 65152
                                 \/ Hst!And(h[1], 65280) = 65280
                                 \/ Hst!And(h[1], 65024) = 64512
        BY <3>1, <3>2 DEF Hst!InternalV6
      <3>4. Hst!InternalV6(h) <=> ranged
        BY <1>1, <3>3, GroupsAgree
      <3>5. QED BY <2>2, <3>4
    <2>3. QED BY <2>1, <2>2
  <1>3. Hst!InternalV6(h) \in BOOLEAN
    BY SMT DEF Hst!InternalV6
  <1>4. RangedV6(h) \in BOOLEAN
    BY SMT DEF RangedV6
  <1>5. Hst!InternalV6(h) <=> RangedV6(h)
    BY <1>2 DEF RangedV6
  <1>6. Hst!InternalV6(h) = RangedV6(h)
    BY <1>3, <1>4, <1>5, SMT
  <1>7. QED BY <1>6, SMT DEF JudgedV6

LEMMA NameJudged ==
  ASSUME NEW h \in Seq(STRING)
  PROVE  JudgedName(h, h \in Hst!Known \/ Hst!LooksNumeric(h))
  BY NamesAgree, Zenon DEF JudgedName

LEMMA GroupBound == \A x \in Hst!Group : x \in Nat /\ x <= 65535
  <1> DEFINE last == 65535
  <1>1. Hst!Group = 0..last
    BY DEF Hst!Group
  <1>2. last \in Nat
    OBVIOUS
  <1>3. last <= 65535
    OBVIOUS
  <1> HIDE DEF last
  <1>4. \A x \in 0..last : x \in Nat /\ x <= 65535
    BY <1>2, <1>3
  <1>5. QED BY <1>1, <1>4

(* The verdict on a host of Hosts. *)
LEMMA JudgeKeeps ==
  ASSUME Hst!HostConstants, Hst!Judge
  PROVE  Hst!HostsJudged'
  <1>1. PICK kind \in DOMAIN Hosts : \E h \in Hosts[kind] :
          host' = [kind |-> kind, is |-> h]
    BY Zenon DEF Hst!Judge
  <1>2. PICK h \in Hosts[kind] : host' = [kind |-> kind, is |-> h]
    BY <1>1, Zenon
  <1>3. host'.kind = kind /\ host'.is = h
    BY <1>2
  <1>4. internal' = Hst!is_internal_host(host')
    BY Zenon DEF Hst!Judge
  <1>5. kind \in {"v4", "v6", "name"}
    BY Zenon DEF Hst!HostConstants
  <1>6. kind = "v4" => JudgedV4(h, internal')
    <2> HAVE kind = "v4"
    <2>1. h \in [1..4 -> Hst!Octet]
      BY Zenon DEF Hst!HostConstants
    <2>2. internal' = Hst!InternalV4(h)
      BY <1>3, <1>4 DEF Hst!is_internal_host
    <2>3. QED BY <2>1, <2>2, V4Judged, Zenon
  <1>7. kind = "v6" => JudgedV6(h, internal')
    <2> HAVE kind = "v6"
    <2>1. h \in [1..8 -> Hst!Group]
      BY Zenon DEF Hst!HostConstants
    <2>2. \A k \in 1..8 : h[k] \in Nat /\ h[k] <= 65535
      <3>1. \A k \in 1..8 : h[k] \in Hst!Group
        BY <2>1, Zenon
      <3>2. QED BY <3>1, GroupBound, SMT
    <2>3. internal' = Hst!InternalV6(h)
      BY <1>3, <1>4 DEF Hst!is_internal_host
    <2>4. JudgedV6(h, Hst!InternalV6(h))
      BY <2>2, V6Judged, SMT
    <2>5. QED BY <2>3, <2>4, Zenon
  <1>8. kind = "name" => JudgedName(h, internal')
    <2> HAVE kind = "name"
    <2>1. h \in Seq(STRING)
      BY Zenon DEF Hst!HostConstants
    <2>2. internal' = (h \in Hst!Known \/ Hst!LooksNumeric(h))
      BY <1>3, <1>4 DEF Hst!is_internal_host
    <2>3. QED BY <2>1, <2>2, NameJudged, Zenon
  <1>9. /\ host'.kind = "v4" => JudgedV4(host'.is, internal')
        /\ host'.kind = "v6" => JudgedV6(host'.is, internal')
        /\ host'.kind = "name" => JudgedName(host'.is, internal')
    BY <1>3, <1>6, <1>7, <1>8, Zenon
  <1>10. QED
    BY <1>9, Zenon
       DEF Hst!HostsJudged, JudgedV4, JudgedV6, RangedV6, JudgedName

(* Of every IPv4 and every IPv6 address is_internal_host() says that it is  *)
(* internal just when it lies in one of the ranges its comments name, or    *)
(* contains an IPv4 address that does; and of names what HostsJudged says.  *)
THEOREM HostsAreJudged == Spec => []HostsJudged
  <1>1. Init => Hst!HostsJudged
    BY JudgedByKind DEF Init, Hst!Init
  <1>2. Hst!HostsJudged /\ [Next]_vars => Hst!HostsJudged'
    <2> SUFFICES ASSUME Hst!HostsJudged, [Next]_vars PROVE Hst!HostsJudged'
      OBVIOUS
    <2>1. CASE Hst!Judge
      BY <2>1, LibraryAssumption, JudgeKeeps, Zenon
    <2>2. CASE Hst!Forget
      <3>1. host_pc' # "judged"
        BY <2>2 DEF Hst!Forget
      <3>2. QED BY <3>1, Zenon DEF Hst!HostsJudged
    <2>3. CASE UNCHANGED hostVars
      BY <2>3, Zenon DEF Hst!HostsJudged, hostVars
    <2>4. QED BY <2>1, <2>2, <2>3, StepOfPart DEF Hst!Next
  <1>3. Hst!HostsJudged => HostsJudged
    BY DEF HostsJudged
  <1>4. QED BY <1>1, <1>2, <1>3, PTL DEF Spec
-----------------------------------------------------------------------------
(* UTF-8.  A text of any length is split into its characters by a recursive  *)
(* function; that it has a value, and goes by the bytes it has seen, is      *)
(* proved by induction, from the well-foundedness of < on Nat.               *)
LEMMA Least ==
  ASSUME NEW S, S \subseteq Nat, S # {}
  PROVE  \E n \in S : \A m \in S : n <= m
  <1> DEFINE R == {ss \in Nat \X Nat : ss[1] < ss[2]}
  <1>1. IsWellFoundedOn(R, Nat)
    BY NatLessThanWellFounded, SMT DEF OpToRel
  <1>2. \A x, y \in Nat : <<x, y>> \in R <=> x < y
    OBVIOUS
  <1> HIDE DEF R
  <1>3. PICK n \in S : \A m \in S : ~(<<m, n>> \in R)
    BY <1>1, WFMin
  <1>4. \A m \in S : m \in Nat /\ n \in Nat /\ ~(m < n)
    BY <1>2, <1>3
  <1>5. \A m, k \in Nat : ~(m < k) => k <= m
    OBVIOUS
  <1>6. QED BY <1>3, <1>4, <1>5

(* Induction up to L, over a set for want of a predicate.                   *)
LEMMA InductionUpTo ==
  ASSUME NEW L \in Nat, NEW S, 0 \in S, \A n \in 1..L : n - 1 \in S => n \in S
  PROVE  \A n \in 0..L : n \in S
  <1> DEFINE T == {n \in 0..L : n \notin S}
  <1> SUFFICES ASSUME T # {} PROVE FALSE
    OBVIOUS
  <1>t. T \subseteq Nat
    OBVIOUS
  <1> HIDE DEF T
  <1>1. PICK n \in T : \A m \in T : n <= m
    BY <1>t, Least
  <1>2. n \in 0..L /\ n \notin S /\ n # 0
    BY <1>1 DEF T
  <1>3. n \in 1..L /\ n - 1 \in 0..L
    BY <1>2
  <1>4. n - 1 \notin T
    BY <1>1, <1>3
  <1>5. n - 1 \in S
    BY <1>3, <1>4 DEF T
  <1>6. QED BY <1>2, <1>3, <1>5

(* The recursive definition has a value. *)
Splits(f, s, n) ==
  f = [m \in 0..n |-> IF m = 0 THEN Utf!NoChars ELSE Utf!WithByte(f[m - 1], s[m])]

LEMMA SplitsExist ==
  ASSUME NEW s, NEW L \in Nat
  PROVE  \E f : Splits(f, s, L)
  <1> DEFINE S == {n \in Nat : \E f : Splits(f, s, n)}
  <1>1. 0 \in S
    <2> DEFINE f == [m \in 0..0 |-> Utf!NoChars]
    <2>1. f = [m \in 0..0 |-> IF m = 0 THEN Utf!NoChars ELSE Utf!WithByte(f[m - 1], s[m])]
      OBVIOUS
    <2> HIDE DEF f
    <2>2. QED BY <2>1 DEF Splits
  <1>2. \A n \in 1..L : n - 1 \in S => n \in S
    <2> SUFFICES ASSUME NEW n \in 1..L, NEW f, Splits(f, s, n - 1)
                 PROVE  \E g : Splits(g, s, n)
      OBVIOUS
    <2> DEFINE g == [m \in 0..n |-> IF m < n THEN f[m] ELSE Utf!WithByte(f[n - 1], s[n])]
               h == [m \in 0..n |-> IF m = 0 THEN Utf!NoChars ELSE Utf!WithByte(g[m - 1], s[m])]
    <2>1. \A m \in 0..n : g[m] = h[m]
      <3> TAKE m \in 0..n
      <3>1. CASE m = 0
        BY <3>1 DEF Splits
      <3>2. CASE m # 0 /\ m < n
        <4>1. m \in 0..(n - 1) /\ m - 1 \in 0..n /\ m - 1 < n
          BY <3>2
        <4>2. g[m] = f[m] /\ g[m - 1] = f[m - 1]
          BY <3>2, <4>1
        <4>3. f[m] = Utf!WithByte(f[m - 1], s[m])
          BY <3>2, <4>1 DEF Splits
        <4>4. QED BY <3>2, <4>2, <4>3
      <3>3. CASE m = n
        <4>1. m - 1 \in 0..n /\ m - 1 < n /\ m # 0
          BY <3>3
        <4>2. g[m - 1] = f[m - 1]
          BY <4>1
        <4>3. QED BY <3>3, <4>1, <4>2
      <3>4. QED BY <3>1, <3>2, <3>3
    <2>2. g = h
      BY <2>1
    <2> HIDE DEF g
    <2>3. QED BY <2>2 DEF Splits
  <1> HIDE DEF S
  <1>3. L \in S
    BY <1>1, <1>2, InductionUpTo
  <1>4. QED BY <1>3 DEF S

LEMMA CharsUpToSplits == ASSUME NEW s, Len(s) \in Nat PROVE Splits(Utf!CharsUpTo(s), s, Len(s))
  <1>1. Utf!CharsUpTo(s) = CHOOSE f : Splits(f, s, Len(s))
    BY DEF Utf!CharsUpTo, Splits
  <1>2. QED BY <1>1, SplitsExist

(* It goes by the bytes that it has seen. *)
LEMMA SplitsAgree ==
  ASSUME NEW s, NEW t, NEW L \in Nat, NEW M \in Nat, L <= M,
         \A m \in 1..L : s[m] = t[m],
         NEW f, Splits(f, s, L), NEW g, Splits(g, t, M)
  PROVE  \A n \in 0..L : f[n] = g[n]
  <1> DEFINE S == {n \in 0..L : f[n] = g[n]}
  <1>1. 0 \in S
    BY DEF Splits
  <1>2. ASSUME NEW n \in 1..L, n - 1 \in S PROVE n \in S
    <2>1. n \in 0..L /\ n \in 0..M /\ n # 0
      OBVIOUS
    <2>2. f[n] = Utf!WithByte(f[n - 1], s[n]) /\ g[n] = Utf!WithByte(g[n - 1], t[n])
      BY <2>1 DEF Splits
    <2>3. QED BY <1>2, <2>1, <2>2
  <1> HIDE DEF S
  <1>3. \A n \in 0..L : n \in S
    BY <1>1, <1>2, InductionUpTo
  <1>4. QED BY <1>3 DEF S

LEMMA CharsOfEmpty == Utf!Chars(<<>>) = Utf!NoChars
  <1>1. Splits(Utf!CharsUpTo(<<>>), <<>>, 0)
    BY CharsUpToSplits
  <1>2. QED BY <1>1 DEF Splits, Utf!Chars

LEMMA CharsOfLonger ==
  ASSUME NEW B, NEW s \in Seq(B), NEW c \in B
  PROVE  Utf!Chars(Append(s, c)) = Utf!WithByte(Utf!Chars(s), c)
  <1> DEFINE t == Append(s, c)
             L == Len(s)
             f == Utf!CharsUpTo(s)
             g == Utf!CharsUpTo(t)
  <1>1. L \in Nat /\ Len(t) = L + 1 /\ t[L + 1] = c /\ \A m \in 1..L : s[m] = t[m]
    OBVIOUS
  <1>2. Splits(f, s, L) /\ Splits(g, t, L + 1)
    <2>1. Splits(f, s, L)
      BY <1>1, CharsUpToSplits
    <2> HIDE DEF t
    <2>2. Splits(g, t, Len(t))
      BY <1>1, CharsUpToSplits
    <2>3. QED BY <1>1, <2>1, <2>2
  <1>3. Utf!Chars(s) = f[L] /\ Utf!Chars(t) = g[L + 1]
    BY <1>1 DEF Utf!Chars
  <1> HIDE DEF t, L, f, g
  <1>4. f[L] = g[L]
    BY <1>1, <1>2, SplitsAgree
  <1>5. g[L + 1] = Utf!WithByte(g[L], t[L + 1])
    BY <1>1, <1>2 DEF Splits
  <1>6. QED BY <1>1, <1>3, <1>4, <1>5 DEF t

(* A byte by its upper bits, and what its lower bits are then. *)
LEMMA Bits ==
  ASSUME NEW c \in Nat, c <= 255
  PROVE  /\ c \div 32 = 6 <=> 192 <= c /\ c <= 223
         /\ c \div 32 = 6 => c % 32 = c - 192
         /\ c \div 16 = 14 <=> 224 <= c /\ c <= 239
         /\ c \div 16 = 14 => c % 16 = c - 224
         /\ c \div 8 = 30 <=> 240 <= c /\ c <= 247
         /\ c \div 8 = 30 => c % 8 = c - 240
         /\ c \div 64 = 2 <=> 128 <= c /\ c <= 191
         /\ c \div 64 = 2 => c % 64 = c - 128
  BY SMT

Tailing(b) == b \in Nat /\ 128 <= b /\ b <= 191

LEMMA FirstByteTells ==
  ASSUME NEW a \in Nat
  PROVE  Utf!CharLen(a) = IF 1 <= a /\ a <= 127 THEN 1
                      ELSE IF 194 <= a /\ a <= 223 THEN 2
                      ELSE IF 224 <= a /\ a <= 239 THEN 3
                      ELSE IF 240 <= a /\ a <= 244 THEN 4 ELSE 0
  BY SMT DEF Utf!CharLen

LEMMA SecondByteTells ==
  ASSUME NEW a \in Nat, NEW b \in Nat
  PROVE  b \in Utf!SecondByte(a) <=>
           /\ Tailing(b)
           /\ a = 224 => 160 <= b
           /\ a = 237 => b <= 159
           /\ a = 240 => 144 <= b
           /\ a = 244 => b <= 143
  BY SMT DEF Utf!SecondByte, Tailing

LEMMA OtherBytesTell == ASSUME NEW b \in Nat PROVE b \in 128..191 <=> Tailing(b)
  BY SMT DEF Tailing

LEMMA NotEmpty == ASSUME NEW s, Len(s) # 0 PROVE s # <<>>
  BY EmptySeq, Zenon

(* The characters of each length.                                           *)
LEMMA CharOfOne ==
  ASSUME NEW s \in Seq(Nat), Len(s) = 1
  PROVE  /\ Utf!IsChar(s) <=> 1 <= s[1] /\ s[1] <= 127
         /\ Utf!BeginsChar(s) <=> (1 <= s[1] /\ s[1] <= 127) \/ (194 <= s[1] /\ s[1] <= 244)
  <1>1. s[1] \in Nat /\ s # <<>> /\ \A p : p \notin 3..1
    <2>1. 1 \in 1..Len(s) /\ Len(s) # 0 /\ \A p : p \notin 3..1
      BY SMT
    <2>2. QED BY <2>1, ElementOfSeq, NotEmpty, Zenon
  <1>2. Utf!BeginsChar(s) <=> 1 <= Utf!CharLen(s[1])
    BY <1>1, SMT DEF Utf!BeginsChar
  <1>3. Utf!IsChar(s) <=> Utf!BeginsChar(s) /\ Utf!CharLen(s[1]) = 1
    BY <1>1, SMT DEF Utf!IsChar
  <1>4. QED BY <1>1, <1>2, <1>3, FirstByteTells, SMT

LEMMA CharOfTwo ==
  ASSUME NEW s \in Seq(Nat), Len(s) = 2
  PROVE  /\ Utf!IsChar(s) <=> 194 <= s[1] /\ s[1] <= 223 /\ Tailing(s[2])
         /\ Utf!BeginsChar(s) => Tailing(s[2]) /\ (s[1] <= 223 => Utf!IsChar(s))
  <1>1. s[1] \in Nat /\ s[2] \in Nat /\ s # <<>> /\ \A p : p \notin 3..2
    <2>1. 1 \in 1..Len(s) /\ 2 \in 1..Len(s) /\ Len(s) # 0 /\ \A p : p \notin 3..2
      BY SMT
    <2>2. QED BY <2>1, ElementOfSeq, NotEmpty, Zenon
  <1>2. Utf!BeginsChar(s) <=> 2 <= Utf!CharLen(s[1]) /\ s[2] \in Utf!SecondByte(s[1])
    BY <1>1, SMT DEF Utf!BeginsChar
  <1>3. Utf!IsChar(s) <=> Utf!BeginsChar(s) /\ Utf!CharLen(s[1]) = 2
    BY <1>1, SMT DEF Utf!IsChar
  <1>4. QED BY <1>1, <1>2, <1>3, FirstByteTells, SecondByteTells, SMT

LEMMA CharOfThree ==
  ASSUME NEW s \in Seq(Nat), Len(s) = 3
  PROVE  /\ Utf!IsChar(s) <=>
              /\ 224 <= s[1] /\ s[1] <= 239 /\ Tailing(s[2]) /\ Tailing(s[3])
              /\ s[1] = 224 => 160 <= s[2]
              /\ s[1] = 237 => s[2] <= 159
         /\ Utf!BeginsChar(s) => Tailing(s[3]) /\ (s[1] <= 239 => Utf!IsChar(s))
  <1>1. s[1] \in Nat /\ s[2] \in Nat /\ s[3] \in Nat /\ s # <<>>
    <2>1. 1 \in 1..Len(s) /\ 2 \in 1..Len(s) /\ 3 \in 1..Len(s)
      BY SMT
    <2>2. s[1] \in Nat /\ s[2] \in Nat /\ s[3] \in Nat
      BY <2>1, ElementOfSeq, Zenon
    <2>3. s # <<>>
      <3>1. Len(s) # 0
        BY SMT
      <3>2. QED BY <3>1, NotEmpty, Zenon
    <2>4. QED BY <2>2, <2>3, Zenon
  <1>2. \A p : p \in 3..3 <=> p = 3
    BY SMT
  <1>3. (\A p \in 3..3 : s[p] \in 128..191) <=> Tailing(s[3])
    <2> DEFINE Tails == 128..191
    <2>1. s[3] \in Tails <=> Tailing(s[3])
      BY <1>1, OtherBytesTell
    <2> HIDE DEF Tails
    <2>2. (\A p \in 3..3 : s[p] \in Tails) <=> Tailing(s[3])
      BY <1>2, <2>1, Zenon
    <2>3. QED BY <2>2 DEF Tails
  <1>4. Utf!BeginsChar(s) <=>
          3 <= Utf!CharLen(s[1]) /\ s[2] \in Utf!SecondByte(s[1]) /\ Tailing(s[3])
    BY <1>1, <1>3, SMT DEF Utf!BeginsChar
  <1>5. Utf!IsChar(s) <=> Utf!BeginsChar(s) /\ Utf!CharLen(s[1]) = 3
    BY <1>1, SMT DEF Utf!IsChar
  <1>6. QED BY <1>1, <1>4, <1>5, FirstByteTells, SecondByteTells, SMT

LEMMA CharOfFour ==
  ASSUME NEW s \in Seq(Nat), Len(s) = 4
  PROVE  /\ Utf!IsChar(s) <=>
              /\ 240 <= s[1] /\ s[1] <= 244
              /\ Tailing(s[2]) /\ Tailing(s[3]) /\ Tailing(s[4])
              /\ s[1] = 240 => 144 <= s[2]
              /\ s[1] = 244 => s[2] <= 143
         /\ Utf!BeginsChar(s) => Tailing(s[4]) /\ Utf!IsChar(s)
  <1>1. s[1] \in Nat /\ s[2] \in Nat /\ s[3] \in Nat /\ s[4] \in Nat /\ s # <<>>
    <2>1. 1 \in 1..Len(s) /\ 2 \in 1..Len(s) /\ 3 \in 1..Len(s) /\ 4 \in 1..Len(s)
      BY SMT
    <2>2. s[1] \in Nat /\ s[2] \in Nat /\ s[3] \in Nat /\ s[4] \in Nat
      BY <2>1, ElementOfSeq, Zenon
    <2>3. s # <<>>
      <3>1. Len(s) # 0
        BY SMT
      <3>2. QED BY <3>1, NotEmpty, Zenon
    <2>4. QED BY <2>2, <2>3, Zenon
  <1>2. \A p : p \in 3..4 <=> p = 3 \/ p = 4
    BY SMT
  <1>3. (\A p \in 3..4 : s[p] \in 128..191) <=> Tailing(s[3]) /\ Tailing(s[4])
    <2> DEFINE Tails == 128..191
    <2>1. /\ s[3] \in Tails <=> Tailing(s[3])
          /\ s[4] \in Tails <=> Tailing(s[4])
      BY <1>1, OtherBytesTell
    <2> HIDE DEF Tails
    <2>2. (\A p \in 3..4 : s[p] \in Tails) <=> Tailing(s[3]) /\ Tailing(s[4])
      BY <1>2, <2>1, Zenon
    <2>3. QED BY <2>2 DEF Tails
  <1>4. Utf!BeginsChar(s) <=>
          /\ 4 <= Utf!CharLen(s[1]) /\ s[2] \in Utf!SecondByte(s[1])
          /\ Tailing(s[3]) /\ Tailing(s[4])
    BY <1>1, <1>3, SMT DEF Utf!BeginsChar
  <1>5. Utf!IsChar(s) <=> Utf!BeginsChar(s) /\ Utf!CharLen(s[1]) = 4
    BY <1>1, SMT DEF Utf!IsChar
  <1>6. /\ 4 <= Utf!CharLen(s[1]) <=> 240 <= s[1] /\ s[1] <= 244
        /\ Utf!CharLen(s[1]) = 4 <=> 240 <= s[1] /\ s[1] <= 244
    BY <1>1, FirstByteTells, SMT
  <1>7. 240 <= s[1] /\ s[1] <= 244 =>
          (s[2] \in Utf!SecondByte(s[1]) <=>
             Tailing(s[2]) /\ (s[1] = 240 => 144 <= s[2]) /\ (s[1] = 244 => s[2] <= 143))
    BY <1>1, SecondByteTells, SMT
  <1>8. QED BY <1>4, <1>5, <1>6, <1>7, Zenon

(* Neither overlong, nor a surrogate, nor behind U+10FFFF.                  *)
Allowed(code, least) ==
    code >= least /\ code <= 1114111 /\ ~(code >= 55296 /\ code <= 57343)

LEMMA CodeOfTwo ==
  ASSUME NEW a \in Nat, NEW b \in Nat, 192 <= a, a <= 223, Tailing(b)
  PROVE  194 <= a <=> Allowed((a - 192) * 64 + (b - 128), 128)
  BY SMT DEF Tailing, Allowed

LEMMA CodeOfThree ==
  ASSUME NEW a \in Nat, NEW b \in Nat, NEW c \in Nat, 224 <= a, a <= 239,
         Tailing(b), Tailing(c)
  PROVE  (a = 224 => 160 <= b) /\ (a = 237 => b <= 159)
           <=> Allowed(((a - 224) * 64 + (b - 128)) * 64 + (c - 128), 2048)
  BY SMT DEF Tailing, Allowed

LEMMA CodeOfFour ==
  ASSUME NEW a \in Nat, NEW b \in Nat, NEW c \in Nat, NEW d \in Nat,
         240 <= a, a <= 247, Tailing(b), Tailing(c), Tailing(d)
  PROVE  a <= 244 /\ (a = 240 => 144 <= b) /\ (a = 244 => b <= 143)
           <=> Allowed((((a - 240) * 64 + (b - 128)) * 64 + (c - 128)) * 64 + (d - 128), 65536)
  BY SMT DEF Tailing, Allowed

(* What the loop knows of the bytes behind the last character: how many are *)
(* missing, the bits so far, and the least code point of this length.       *)
OfTwo(r, l, code, least) ==
    /\ l = 1 /\ least = 128 /\ Len(r) = 1
    /\ 192 <= r[1] /\ r[1] <= 223 /\ code = r[1] - 192
OfThree(r, l, code, least) ==
    /\ least = 2048 /\ 224 <= r[1] /\ r[1] <= 239
    /\ \/ l = 2 /\ Len(r) = 1 /\ code = r[1] - 224
       \/ /\ l = 1 /\ Len(r) = 2 /\ Tailing(r[2])
          /\ code = (r[1] - 224) * 64 + (r[2] - 128)
OfFour(r, l, code, least) ==
    /\ least = 65536 /\ 240 <= r[1] /\ r[1] <= 247
    /\ \/ l = 3 /\ Len(r) = 1 /\ code = r[1] - 240
       \/ /\ l = 2 /\ Len(r) = 2 /\ Tailing(r[2])
          /\ code = (r[1] - 240) * 64 + (r[2] - 128)
       \/ /\ l = 1 /\ Len(r) = 3 /\ Tailing(r[2]) /\ Tailing(r[3])
          /\ code = ((r[1] - 240) * 64 + (r[2] - 128)) * 64 + (r[3] - 128)
UnderWay(r, l, code, least) ==
    /\ r \in Seq(Nat)
    /\ OfTwo(r, l, code, least) \/ OfThree(r, l, code, least) \/ OfFour(r, l, code, least)

LEMMA UnderWayIsCode ==
  ASSUME NEW r, NEW l, NEW code, NEW least, UnderWay(r, l, code, least)
  PROVE  code \in Int /\ least \in Int
  <1>1. r \in Seq(Nat)
    BY Zenon DEF UnderWay
  <1>2. Len(r) \in {1, 2, 3}
    BY SMT DEF UnderWay, OfTwo, OfThree, OfFour
  <1>3. r[1] \in Nat
    <2>1. 1 \in 1..Len(r)
      BY <1>2, SMT
    <2>2. QED BY <1>1, <2>1, ElementOfSeq, Zenon
  <1>4. CASE OfTwo(r, l, code, least)
    BY <1>3, <1>4, SMT DEF OfTwo
  <1>5. CASE OfThree(r, l, code, least)
    BY <1>3, <1>5, SMT DEF OfThree, Tailing
  <1>6. CASE OfFour(r, l, code, least)
    BY <1>3, <1>6, SMT DEF OfFour, Tailing
  <1>7. QED BY <1>4, <1>5, <1>6, Zenon DEF UnderWay

LEMMA Longer ==
  ASSUME NEW r \in Seq(Nat), NEW c \in Nat, NEW t, t = Append(r, c)
  PROVE  /\ t \in Seq(Nat) /\ Len(t) = Len(r) + 1
         /\ Len(r) = 1 => t[1] = r[1] /\ t[2] = c /\ r[1] \in Nat
         /\ Len(r) = 2 => t[1] = r[1] /\ t[2] = r[2] /\ t[3] = c /\ r[1] \in Nat /\ r[2] \in Nat
         /\ Len(r) = 3 => /\ t[1] = r[1] /\ t[2] = r[2] /\ t[3] = r[3] /\ t[4] = c
                          /\ r[1] \in Nat /\ r[2] \in Nat /\ r[3] \in Nat
  <1>1. /\ t \in Seq(Nat) /\ Len(t) = Len(r) + 1 /\ t[Len(r) + 1] = c
        /\ \A k \in 1..Len(r) : t[k] = r[k] /\ r[k] \in Nat
    BY AppendProperties, ElementOfSeq
  <1>2. Len(r) = 1 => t[1] = r[1] /\ t[2] = c /\ r[1] \in Nat
    <2> SUFFICES ASSUME Len(r) = 1 PROVE t[1] = r[1] /\ t[2] = c /\ r[1] \in Nat
      OBVIOUS
    <2>1. 1 \in 1..Len(r)
      OBVIOUS
    <2>2. QED BY <1>1, <2>1
  <1>3. Len(r) = 2 => t[1] = r[1] /\ t[2] = r[2] /\ t[3] = c /\ r[1] \in Nat /\ r[2] \in Nat
    <2> SUFFICES ASSUME Len(r) = 2
                 PROVE  t[1] = r[1] /\ t[2] = r[2] /\ t[3] = c /\ r[1] \in Nat /\ r[2] \in Nat
      OBVIOUS
    <2>1. 1 \in 1..Len(r) /\ 2 \in 1..Len(r)
      OBVIOUS
    <2>2. QED BY <1>1, <2>1
  <1>4. Len(r) = 3 => /\ t[1] = r[1] /\ t[2] = r[2] /\ t[3] = r[3] /\ t[4] = c
                      /\ r[1] \in Nat /\ r[2] \in Nat /\ r[3] \in Nat
    <2> SUFFICES ASSUME Len(r) = 3
                 PROVE  /\ t[1] = r[1] /\ t[2] = r[2] /\ t[3] = r[3] /\ t[4] = c
                        /\ r[1] \in Nat /\ r[2] \in Nat /\ r[3] \in Nat
      OBVIOUS
    <2>1. 1 \in 1..Len(r) /\ 2 \in 1..Len(r) /\ 3 \in 1..Len(r)
      OBVIOUS
    <2>2. QED BY <1>1, <2>1
  <1>5. QED BY <1>1, <1>2, <1>3, <1>4

(* One more byte behind those: it is none of this character, one of it that *)
(* is not the last, or its last, with which it may be overlong and the like. *)
Followed(t, l, more, least, c) ==
    /\ ~Tailing(c) => ~Utf!IsChar(t) /\ ~Utf!BeginsChar(t)
    /\ Tailing(c) /\ l > 1 => ~Utf!IsChar(t) /\ UnderWay(t, l - 1, more, least)
    /\ Tailing(c) /\ ~(l > 1) => (Utf!IsChar(t) <=> Allowed(more, least))
    /\ Tailing(c) /\ ~(l > 1) => (Utf!BeginsChar(t) => Utf!IsChar(t))

LEMMA ByteFollows ==
  ASSUME NEW r, NEW l, NEW code, NEW least, UnderWay(r, l, code, least), NEW c \in Nat
  PROVE  Followed(Append(r, c), l, code * 64 + (c - 128), least, c)
  <1> DEFINE t == Append(r, c)
             more == code * 64 + (c - 128)
  <1> SUFFICES Followed(t, l, more, least, c)
    OBVIOUS
  <1>1. r \in Seq(Nat)
    BY Zenon DEF UnderWay
  <1>2. /\ t \in Seq(Nat) /\ Len(t) = Len(r) + 1
        /\ Len(r) = 1 => t[1] = r[1] /\ t[2] = c /\ r[1] \in Nat
        /\ Len(r) = 2 => t[1] = r[1] /\ t[2] = r[2] /\ t[3] = c /\ r[1] \in Nat /\ r[2] \in Nat
        /\ Len(r) = 3 => /\ t[1] = r[1] /\ t[2] = r[2] /\ t[3] = r[3] /\ t[4] = c
                         /\ r[1] \in Nat /\ r[2] \in Nat /\ r[3] \in Nat
    BY <1>1, Longer, Zenon
  <1>t. t \in Seq(Nat)
    BY <1>2, Zenon
  <1>m. more = code * 64 + (c - 128)
    OBVIOUS
  <1> HIDE DEF t, more
  <1>3. CASE OfTwo(r, l, code, least)
    <2>1. /\ l = 1 /\ least = 128 /\ Len(t) = 2 /\ t[1] \in Nat /\ t[2] = c
          /\ 192 <= t[1] /\ t[1] <= 223 /\ more = (t[1] - 192) * 64 + (c - 128)
      BY <1>2, <1>m, <1>3, SMT DEF OfTwo
    <2>2. Tailing(c) => (194 <= t[1] <=> Allowed(more, least))
      BY <2>1, CodeOfTwo
    <2>3. /\ Utf!IsChar(t) <=> 194 <= t[1] /\ t[1] <= 223 /\ Tailing(t[2])
          /\ Utf!BeginsChar(t) => Tailing(t[2]) /\ (t[1] <= 223 => Utf!IsChar(t))
      <3>1. t \in Seq(Nat) /\ Len(t) = 2
        BY <1>t, <2>1, SMT
      <3>2. QED BY <3>1, CharOfTwo
    <2>4. ~(l > 1)
      BY <2>1
    <2>5. QED BY <2>1, <2>2, <2>3, <2>4, Zenon DEF Followed
  <1>4. CASE OfThree(r, l, code, least) /\ Len(r) = 1
    <2>1. /\ l = 2 /\ l - 1 = 1 /\ l > 1 /\ least = 2048 /\ Len(t) = 2 /\ t[1] \in Nat /\ t[2] = c
          /\ 224 <= t[1] /\ t[1] <= 239 /\ ~(t[1] <= 223)
          /\ more = (t[1] - 224) * 64 + (c - 128)
      BY <1>2, <1>m, <1>4, SMT DEF OfThree
    <2>2. Tailing(c) => UnderWay(t, l - 1, more, least)
      <3>1. Tailing(c) => OfThree(t, 1, more, least)
        BY <2>1, SMT DEF OfThree
      <3>2. QED BY <1>2, <2>1, <3>1 DEF UnderWay
    <2>3. /\ Utf!IsChar(t) <=> 194 <= t[1] /\ t[1] <= 223 /\ Tailing(t[2])
          /\ Utf!BeginsChar(t) => Tailing(t[2])
      <3>1. t \in Seq(Nat) /\ Len(t) = 2
        BY <1>t, <2>1, SMT
      <3>2. QED BY <3>1, CharOfTwo
    <2>4. QED BY <2>1, <2>2, <2>3, Zenon DEF Followed
  <1>5. CASE OfThree(r, l, code, least) /\ Len(r) # 1
    <2>1. /\ l = 1 /\ ~(l > 1) /\ least = 2048 /\ Len(t) = 3
          /\ t[1] \in Nat /\ t[2] \in Nat /\ t[3] = c
          /\ 224 <= t[1] /\ t[1] <= 239 /\ Tailing(t[2])
          /\ more = ((t[1] - 224) * 64 + (t[2] - 128)) * 64 + (c - 128)
      <3>1. /\ l = 1 /\ least = 2048 /\ Len(r) = 2 /\ Tailing(r[2])
            /\ 224 <= r[1] /\ r[1] <= 239
            /\ code = (r[1] - 224) * 64 + (r[2] - 128)
        BY <1>5, Zenon DEF OfThree
      <3>2. /\ t[1] = r[1] /\ t[2] = r[2] /\ t[3] = c /\ r[1] \in Nat /\ r[2] \in Nat
            /\ Len(t) = Len(r) + 1
        BY <1>2, <3>1, Zenon
      <3>3. Len(t) = 3 /\ ~(l > 1)
        BY <3>1, <3>2, SMT
      <3>4. more = ((t[1] - 224) * 64 + (t[2] - 128)) * 64 + (c - 128)
        BY <1>m, <3>1, <3>2, SMT
      <3>5. QED BY <3>1, <3>2, <3>3, <3>4
    <2>2. Tailing(c) => ((t[1] = 224 => 160 <= t[2]) /\ (t[1] = 237 => t[2] <= 159)
                           <=> Allowed(more, least))
      BY <2>1, CodeOfThree
    <2>3. /\ Utf!IsChar(t) <=>
               /\ 224 <= t[1] /\ t[1] <= 239 /\ Tailing(t[2]) /\ Tailing(t[3])
               /\ t[1] = 224 => 160 <= t[2]
               /\ t[1] = 237 => t[2] <= 159
          /\ Utf!BeginsChar(t) => Tailing(t[3]) /\ (t[1] <= 239 => Utf!IsChar(t))
      <3>1. t \in Seq(Nat) /\ Len(t) = 3
        BY <1>t, <2>1, SMT
      <3>2. QED BY <3>1, CharOfThree
    <2>4. QED BY <2>1, <2>2, <2>3, SMT DEF Followed
  <1>6. CASE OfFour(r, l, code, least) /\ Len(r) = 1
    <2>1. /\ l = 3 /\ l - 1 = 2 /\ l > 1 /\ least = 65536 /\ Len(t) = 2 /\ t[1] \in Nat /\ t[2] = c
          /\ 240 <= t[1] /\ t[1] <= 247 /\ ~(t[1] <= 223)
          /\ more = (t[1] - 240) * 64 + (c - 128)
      BY <1>2, <1>m, <1>6, SMT DEF OfFour
    <2>2. Tailing(c) => UnderWay(t, l - 1, more, least)
      <3>1. Tailing(c) => OfFour(t, 2, more, least)
        BY <2>1, SMT DEF OfFour
      <3>2. QED BY <1>2, <2>1, <3>1 DEF UnderWay
    <2>3. /\ Utf!IsChar(t) <=> 194 <= t[1] /\ t[1] <= 223 /\ Tailing(t[2])
          /\ Utf!BeginsChar(t) => Tailing(t[2])
      <3>1. t \in Seq(Nat) /\ Len(t) = 2
        BY <1>t, <2>1, SMT
      <3>2. QED BY <3>1, CharOfTwo
    <2>4. QED BY <2>1, <2>2, <2>3, SMT DEF Followed
  <1>7. CASE OfFour(r, l, code, least) /\ Len(r) = 2
    <2>1. /\ l = 2 /\ l - 1 = 1 /\ l > 1 /\ least = 65536 /\ Len(t) = 3
          /\ t[1] \in Nat /\ t[2] \in Nat /\ t[3] = c
          /\ 240 <= t[1] /\ t[1] <= 247 /\ ~(t[1] <= 239) /\ Tailing(t[2])
          /\ more = ((t[1] - 240) * 64 + (t[2] - 128)) * 64 + (c - 128)
      BY <1>2, <1>m, <1>7, SMT DEF OfFour
    <2>2. Tailing(c) => UnderWay(t, l - 1, more, least)
      <3>1. Tailing(c) => OfFour(t, 1, more, least)
        BY <2>1, SMT DEF OfFour
      <3>2. QED BY <1>2, <2>1, <3>1 DEF UnderWay
    <2>3. /\ Utf!IsChar(t) => t[1] <= 239
          /\ Utf!BeginsChar(t) => Tailing(t[3])
      <3>1. t \in Seq(Nat) /\ Len(t) = 3
        BY <1>t, <2>1, SMT
      <3>2. QED BY <3>1, CharOfThree
    <2>4. QED BY <2>1, <2>2, <2>3, SMT DEF Followed
  <1>8. CASE OfFour(r, l, code, least) /\ Len(r) \notin {1, 2}
    <2>1. /\ l = 1 /\ ~(l > 1) /\ least = 65536 /\ Len(t) = 4
          /\ t[1] \in Nat /\ t[2] \in Nat /\ t[3] \in Nat /\ t[4] = c
          /\ 240 <= t[1] /\ t[1] <= 247 /\ Tailing(t[2]) /\ Tailing(t[3])
          /\ more = (((t[1] - 240) * 64 + (t[2] - 128)) * 64 + (t[3] - 128)) * 64 + (c - 128)
      <3>1. /\ l = 1 /\ least = 65536 /\ Len(r) = 3
            /\ 240 <= r[1] /\ r[1] <= 247 /\ Tailing(r[2]) /\ Tailing(r[3])
            /\ code = ((r[1] - 240) * 64 + (r[2] - 128)) * 64 + (r[3] - 128)
        BY <1>8, SMT DEF OfFour
      <3>2. Len(r) = 3
        BY <3>1, SMT
      <3>3. /\ t[1] = r[1] /\ t[2] = r[2] /\ t[3] = r[3] /\ t[4] = c /\ Len(t) = 4
            /\ t[1] \in Nat /\ t[2] \in Nat /\ t[3] \in Nat
        BY <1>2, <3>2, SMT
      <3>4. QED BY <1>m, <3>1, <3>3, SMT
    <2>2. Tailing(c) => (t[1] <= 244 /\ (t[1] = 240 => 144 <= t[2]) /\ (t[1] = 244 => t[2] <= 143)
                           <=> Allowed(more, least))
      <3> DEFINE a == t[1]
                 b == t[2]
                 d == t[3]
      <3>1. /\ a \in Nat /\ b \in Nat /\ d \in Nat /\ least = 65536
            /\ 240 <= a /\ a <= 247 /\ Tailing(b) /\ Tailing(d)
            /\ more = (((a - 240) * 64 + (b - 128)) * 64 + (d - 128)) * 64 + (c - 128)
        BY <2>1
      <3> SUFFICES ASSUME Tailing(c)
                   PROVE  a <= 244 /\ (a = 240 => 144 <= b) /\ (a = 244 => b <= 143)
                            <=> Allowed(more, least)
        OBVIOUS
      <3> HIDE DEF a, b, d
      <3>2. a <= 244 /\ (a = 240 => 144 <= b) /\ (a = 244 => b <= 143)
              <=> Allowed((((a - 240) * 64 + (b - 128)) * 64 + (d - 128)) * 64 + (c - 128), 65536)
        BY <3>1, CodeOfFour
      <3>3. QED BY <3>1, <3>2
    <2>3. /\ Utf!IsChar(t) <=>
               /\ 240 <= t[1] /\ t[1] <= 244
               /\ Tailing(t[2]) /\ Tailing(t[3]) /\ Tailing(t[4])
               /\ t[1] = 240 => 144 <= t[2]
               /\ t[1] = 244 => t[2] <= 143
          /\ Utf!BeginsChar(t) => Tailing(t[4]) /\ Utf!IsChar(t)
      <3>1. t \in Seq(Nat) /\ Len(t) = 4
        BY <1>t, <2>1, SMT
      <3>2. QED BY <3>1, CharOfFour
    <2>4. QED BY <2>1, <2>2, <2>3, SMT DEF Followed
  <1>9. QED BY <1>3, <1>4, <1>5, <1>6, <1>7, <1>8, Zenon DEF UnderWay

Flattens(f, seqs, n) ==
  f = [p \in 1..n |-> IF p = 1 THEN seqs[p] ELSE f[p - 1] \o seqs[p]]

LEMMA FlattensExist ==
  ASSUME NEW s, NEW L \in Nat
  PROVE  \E f : Flattens(f, s, L)
  <1> DEFINE S == {n \in Nat : \E f : Flattens(f, s, n)}
  <1>1. 0 \in S
    <2> DEFINE f == [p \in 1..0 |-> 0]
    <2>1. f = [p \in 1..0 |-> IF p = 1 THEN s[p] ELSE f[p - 1] \o s[p]]
      OBVIOUS
    <2> HIDE DEF f
    <2>2. QED BY <2>1 DEF Flattens
  <1>2. \A n \in 1..L : n - 1 \in S => n \in S
    <2> SUFFICES ASSUME NEW n \in 1..L, NEW f, Flattens(f, s, n - 1)
                 PROVE  \E g : Flattens(g, s, n)
      OBVIOUS
    <2> DEFINE g == [p \in 1..n |-> IF p < n THEN f[p]
                                    ELSE IF p = 1 THEN s[p] ELSE f[n - 1] \o s[p]]
               h == [p \in 1..n |-> IF p = 1 THEN s[p] ELSE g[p - 1] \o s[p]]
    <2>1. \A p \in 1..n : g[p] = h[p]
      <3> TAKE p \in 1..n
      <3>1. CASE p = 1
        BY <3>1 DEF Flattens
      <3>2. CASE p # 1 /\ p < n
        <4>1. p \in 1..(n - 1) /\ p - 1 \in 1..n /\ p - 1 < n
          BY <3>2
        <4>2. g[p] = f[p] /\ g[p - 1] = f[p - 1]
          BY <3>2, <4>1
        <4>3. f[p] = f[p - 1] \o s[p]
          BY <3>2, <4>1 DEF Flattens
        <4>4. QED BY <3>2, <4>2, <4>3
      <3>3. CASE p # 1 /\ p = n
        <4>1. n - 1 \in 1..n /\ n - 1 < n
          BY <3>3
        <4>2. g[n - 1] = f[n - 1]
          BY <4>1
        <4>3. g[n] = f[n - 1] \o s[n]
          <5>1. n \in 1..n /\ ~(n < n) /\ n # 1
            BY <3>3
          <5>2. QED BY <5>1, Zenon
        <4>4. h[n] = g[n - 1] \o s[n]
          <5> HIDE DEF g
          <5>1. QED BY <3>3
        <4> HIDE DEF g, h
        <4>5. QED BY <3>3, <4>2, <4>3, <4>4
      <3>4. QED BY <3>1, <3>2, <3>3
    <2>2. g = h
      BY <2>1
    <2> HIDE DEF g
    <2>3. QED BY <2>2 DEF Flattens
  <1> HIDE DEF S
  <1>3. L \in S
    BY <1>1, <1>2, InductionUpTo
  <1>4. QED BY <1>3 DEF S

LEMMA FlattenSeqFlattens ==
  ASSUME NEW s, Len(s) \in Nat \ {0}
  PROVE  \E f : Flattens(f, s, Len(s)) /\ Utf!FlattenSeq(s) = f[Len(s)]
  <1> DEFINE f == CHOOSE f : Flattens(f, s, Len(s))
  <1>1. Flattens(f, s, Len(s))
    BY FlattensExist
  <1>2. Utf!FlattenSeq(s) = f[Len(s)]
    BY DEF Utf!FlattenSeq, Flattens
  <1>3. QED BY <1>1, <1>2

SameUpTo(f, g, n) == \A p \in 1..n : f[p] = g[p]

LEMMA FlattensAgree ==
  ASSUME NEW s, NEW t, NEW L \in Nat, NEW M \in Nat, L <= M, SameUpTo(s, t, L),
         NEW f, Flattens(f, s, L), NEW g, Flattens(g, t, M)
  PROVE  SameUpTo(f, g, L)
  <1> USE DEF SameUpTo
  <1> DEFINE S == {n \in 0..L : n # 0 => f[n] = g[n]}
  <1>1. 0 \in S
    OBVIOUS
  <1>2. ASSUME NEW n \in 1..L, n - 1 \in S PROVE n \in S
    <2>1. n \in 0..L /\ n \in 1..M /\ s[n] = t[n]
      OBVIOUS
    <2>2. /\ f[n] = IF n = 1 THEN s[n] ELSE f[n - 1] \o s[n]
          /\ g[n] = IF n = 1 THEN t[n] ELSE g[n - 1] \o t[n]
      BY <2>1 DEF Flattens
    <2>3. n # 1 => f[n - 1] = g[n - 1]
      BY <1>2
    <2>4. QED BY <2>1, <2>2, <2>3
  <1> HIDE DEF S
  <1>3. \A n \in 0..L : n \in S
    BY <1>1, <1>2, InductionUpTo
  <1>4. QED BY <1>3 DEF S

LEMMA FlattenOfEmpty == Utf!FlattenSeq(<<>>) = <<>>
  BY DEF Utf!FlattenSeq

LEMMA FlattenOfLonger ==
  ASSUME NEW B, NEW s \in Seq(Seq(B)), NEW c \in Seq(B)
  PROVE  Utf!FlattenSeq(Append(s, c)) = Utf!FlattenSeq(s) \o c
  <1> DEFINE t == Append(s, c)
             L == Len(s)
  <1>1. L \in Nat /\ Len(t) = L + 1 /\ t[L + 1] = c /\ \A p \in 1..L : s[p] = t[p]
    OBVIOUS
  <1>2. CASE s = <<>>
    <2>1. L = 0 /\ Len(t) = 1 /\ t[1] = c
      BY <1>1, <1>2
    <2> HIDE DEF t, L
    <2>2. PICK g : Flattens(g, t, Len(t)) /\ Utf!FlattenSeq(t) = g[Len(t)]
      <3>1. Len(t) \in Nat \ {0}
        BY <2>1
      <3>2. QED BY <3>1, FlattenSeqFlattens
    <2>3. g[1] = t[1]
      BY <2>1, <2>2 DEF Flattens
    <2>4. Utf!FlattenSeq(t) = c /\ Utf!FlattenSeq(s) = <<>>
      BY <1>2, <2>1, <2>2, <2>3, FlattenOfEmpty
    <2>5. <<>> \o c = c
      OBVIOUS
    <2>6. QED BY <2>4, <2>5 DEF t
  <1>3. CASE s # <<>>
    <2>1. L \in Nat \ {0}
      BY <1>3, EmptySeq DEF L
    <2> HIDE DEF t, L
    <2>2. PICK f : Flattens(f, s, L) /\ Utf!FlattenSeq(s) = f[L]
      BY <2>1, FlattenSeqFlattens DEF L
    <2>3. PICK g : Flattens(g, t, L + 1) /\ Utf!FlattenSeq(t) = g[L + 1]
      <3>1. Len(t) \in Nat \ {0}
        BY <1>1, <2>1
      <3>2. QED BY <1>1, <3>1, FlattenSeqFlattens
    <2>4. f[L] = g[L]
      <3>1. L <= L + 1 /\ L + 1 \in Nat /\ L \in 1..L
        BY <2>1
      <3>2. SameUpTo(f, g, L)
        <4> DEFINE M == L + 1
        <4>1. L \in Nat /\ M \in Nat /\ L <= M
          BY <2>1, <3>1
        <4>2. SameUpTo(s, t, L) /\ Flattens(f, s, L) /\ Flattens(g, t, M)
          <5>1. SameUpTo(s, t, L)
            BY <1>1, SMTT(30) DEF SameUpTo
          <5>2. QED BY <2>2, <2>3, <5>1, Zenon
        <4> HIDE DEF M
        <4>3. QED BY <4>1, <4>2, FlattensAgree, Zenon
      <3>3. QED BY <3>1, <3>2, Zenon DEF SameUpTo
    <2>5. g[L + 1] = g[L] \o t[L + 1]
      <3>1. L + 1 \in 1..(L + 1) /\ L + 1 # 1 /\ (L + 1) - 1 = L
        BY <2>1
      <3>2. QED BY <2>3, <3>1 DEF Flattens
    <2>6. QED BY <1>1, <2>2, <2>3, <2>4, <2>5 DEF t
  <1>4. QED BY <1>2, <1>3
-----------------------------------------------------------------------------
(* Where the characters begin.                                              *)
Behind(s, k) == {p \in Utf!Starts(s) : Cardinality({q \in Utf!Starts(s) : q < p}) = k}
Counted(s, n) ==
    /\ IsFiniteSet(Utf!Starts(s)) /\ Cardinality(Utf!Starts(s)) = n
    /\ \A k \in Nat : Behind(s, k) = {} <=> k >= n

LEMMA SameCardinality == \A S : Utf!Cardinality(S) = Cardinality(S)
  BY DEF Utf!Cardinality, Cardinality

LEMMA CountedEmpty == Counted(<<>>, 0)
  <1>1. Utf!Starts(<<>>) = {}
    BY DEF Utf!Starts
  <1>2. QED BY <1>1, FS_EmptySet DEF Counted, Behind

LEMMA GoesOn ==
  ASSUME NEW s \in Seq(Nat), NEW c \in Nat, c \div 64 = 2
  PROVE  Utf!Starts(Append(s, c)) = Utf!Starts(s)
  <1> DEFINE t == Append(s, c)
  <1>1. /\ DOMAIN s = 1..Len(s) /\ DOMAIN t = 1..(Len(s) + 1) /\ Len(s) \in Nat
        /\ t[Len(s) + 1] = c /\ \A p \in 1..Len(s) : t[p] = s[p]
    OBVIOUS
  <1> HIDE DEF t
  <1>2. \A p : p \in 1..(Len(s) + 1) <=> p \in 1..Len(s) \/ p = Len(s) + 1
    BY <1>1
  <1>3. Len(s) + 1 \notin 1..Len(s)
    BY <1>1
  <1>4. Utf!Starts(t) = Utf!Starts(s)
    BY <1>1, <1>2, <1>3 DEF Utf!Starts
  <1>5. QED BY <1>4 DEF t

LEMMA BeginsAnother ==
  ASSUME NEW s \in Seq(Nat), NEW c \in Nat, c \div 64 # 2, NEW n \in Nat, Counted(s, n)
  PROVE  /\ Counted(Append(s, c), n + 1)
         /\ Behind(Append(s, c), n) = {Len(s) + 1}
         /\ \A k \in Nat : k # n => Behind(Append(s, c), k) = Behind(s, k)
  <1> DEFINE t == Append(s, c)
             e == Len(s) + 1
             S == Utf!Starts(s)
  <1>1. /\ DOMAIN s = 1..Len(s) /\ DOMAIN t = 1..e /\ Len(s) \in Nat
        /\ t[e] = c /\ \A p \in 1..Len(s) : t[p] = s[p]
    OBVIOUS
  <1>2. \A p : p \in 1..e <=> p \in 1..Len(s) \/ p = e
    BY <1>1
  <1>3. e \notin 1..Len(s)
    BY <1>1
  <1>4. S \subseteq 1..Len(s)
    BY <1>1 DEF Utf!Starts
  <1>5. Utf!Starts(t) = S \cup {e} /\ e \notin S
    <2> HIDE DEF t, e
    <2>1. \A p : p \in Utf!Starts(t) <=> p \in 1..e /\ t[p] \div 64 # 2
      BY <1>1 DEF Utf!Starts
    <2>2. \A p : p \in S <=> p \in 1..Len(s) /\ s[p] \div 64 # 2
      BY <1>1 DEF Utf!Starts
    <2> HIDE DEF S
    <2>3. \A p : p \in Utf!Starts(t) <=> p \in S \/ p = e
      BY <1>1, <1>2, <2>1, <2>2
    <2>4. e \notin S
      BY <1>3, <2>2, Zenon
    <2>5. QED BY <2>3, <2>4
  <1>6. IsFiniteSet(S) /\ Cardinality(S) = n
    BY DEF Counted
  <1>7. IsFiniteSet(Utf!Starts(t)) /\ Cardinality(Utf!Starts(t)) = n + 1
    <2> HIDE DEF t, e, S
    <2>1. QED BY <1>5, <1>6, FS_AddElement, SMTT(30)
  <1>8. {q \in Utf!Starts(t) : q < e} = S
    BY <1>1, <1>4, <1>5
  <1>9. \A p \in S : {q \in Utf!Starts(t) : q < p} = {q \in S : q < p}
    BY <1>1, <1>4, <1>5
  <1> HIDE DEF t, e, S
  <1>10. \A k \in Nat : Behind(t, k) = Behind(s, k) \cup (IF k = n THEN {e} ELSE {})
    <2> TAKE k \in Nat
    <2>1. \A p \in S : p \in Behind(t, k) <=> p \in Behind(s, k)
      BY <1>5, <1>9 DEF Behind, S
    <2>2. e \in Behind(t, k) <=> k = n
      BY <1>5, <1>6, <1>8 DEF Behind
    <2>3. Behind(t, k) \subseteq S \cup {e} /\ Behind(s, k) \subseteq S
      BY <1>5 DEF Behind, S
    <2>4. QED BY <1>5, <2>1, <2>2, <2>3
  <1>11. \A k \in Nat : Behind(s, k) = {} <=> k >= n
    BY DEF Counted
  <1>12. Behind(s, n) = {}
    BY <1>11
  <1>13. \A k \in Nat : Behind(t, k) = {} <=> k >= n + 1
    <2> TAKE k \in Nat
    <2>1. CASE k = n
      <3>1. ~(k >= n + 1)
        BY <2>1
      <3>2. e \in Behind(t, k)
        BY <1>10, <2>1
      <3>3. QED BY <3>1, <3>2
    <2>2. CASE k # n
      BY <1>10, <1>11, <2>2
    <2>3. QED BY <2>1, <2>2
  <1>14. Counted(t, n + 1)
    BY <1>7, <1>13 DEF Counted
  <1>15. Behind(t, n) = {e} /\ \A k \in Nat : k # n => Behind(t, k) = Behind(s, k)
    BY <1>10, <1>12
  <1>16. QED BY <1>14, <1>15 DEF t, e
-----------------------------------------------------------------------------
(* Where it is cut.                                                         *)
LEMMA CutWhole ==
  ASSUME NEW s, NEW k, Behind(s, k) = {}
  PROVE  Utf!utf8_substr_alloc(s, k) = s
  BY SameCardinality DEF Utf!utf8_substr_alloc, Behind

LEMMA CutBefore ==
  ASSUME NEW s, NEW k, Behind(s, k) # {}
  PROVE  Utf!utf8_substr_alloc(s, k) = SubSeq(s, 1, Utf!Min(Behind(s, k)) - 1)
  BY SameCardinality DEF Utf!utf8_substr_alloc, Behind

LEMMA MinOfBehind ==
  ASSUME NEW s \in Seq(Nat), NEW k, Behind(s, k) # {}
  PROVE  Utf!Min(Behind(s, k)) \in 1..Len(s)
  <1> DEFINE S == Behind(s, k)
  <1>1. S \subseteq 1..Len(s)
    BY DEF Behind, Utf!Starts
  <1>2. S \subseteq Nat /\ S # {}
    BY <1>1
  <1> HIDE DEF S
  <1>3. \E m \in S : \A j \in S : m =< j
    BY <1>2, Least
  <1>4. Utf!Min(S) \in S
    BY <1>3 DEF Utf!Min
  <1>5. QED BY <1>1, <1>4 DEF S

LEMMA SubSeqOfLonger ==
  ASSUME NEW B, NEW s \in Seq(B), NEW c \in B, NEW m \in 0..Len(s)
  PROVE  SubSeq(Append(s, c), 1, m) = SubSeq(s, 1, m)
  <1> DEFINE t == Append(s, c)
  <1>1. t \in Seq(B) /\ Len(t) = Len(s) + 1 /\ \A p \in 1..Len(s) : t[p] = s[p]
    BY AppendProperties
  <1>2. Len(s) \in Nat
    OBVIOUS
  <1>3. /\ SubSeq(s, 1, m) = [p \in 1..m |-> s[p]]
        /\ SubSeq(t, 1, m) = [p \in 1..m |-> t[p]]
    OBVIOUS
  <1> HIDE DEF t
  <1>4. \A p \in 1..m : t[p] = s[p]
    BY <1>1, <1>2
  <1>5. SubSeq(t, 1, m) = SubSeq(s, 1, m)
    BY <1>3, <1>4
  <1>6. QED BY <1>5 DEF t

LEMMA CutKept ==
  ASSUME NEW s \in Seq(Nat), NEW c \in Nat, NEW k,
         Behind(s, k) # {}, Behind(Append(s, c), k) = Behind(s, k)
  PROVE  Utf!utf8_substr_alloc(Append(s, c), k) = Utf!utf8_substr_alloc(s, k)
  <1> DEFINE m == Utf!Min(Behind(s, k)) - 1
  <1>1. Utf!Min(Behind(s, k)) \in 1..Len(s) /\ Len(s) \in Nat
    BY MinOfBehind
  <1>2. m \in 0..Len(s)
    BY <1>1
  <1>3. /\ Utf!utf8_substr_alloc(s, k) = SubSeq(s, 1, m)
        /\ Utf!utf8_substr_alloc(Append(s, c), k) = SubSeq(Append(s, c), 1, m)
    BY CutBefore
  <1> HIDE DEF m
  <1>4. QED BY <1>2, <1>3, SubSeqOfLonger

LEMMA CutThere ==
  ASSUME NEW s \in Seq(Nat), NEW c \in Nat, NEW k,
         Behind(Append(s, c), k) = {Len(s) + 1}
  PROVE  Utf!utf8_substr_alloc(Append(s, c), k) = s
  <1> DEFINE S == {Len(s) + 1}
  <1>1. Len(s) \in Nat /\ Len(s) + 1 \in S /\ \A x \in S : x = Len(s) + 1
    OBVIOUS
  <1>2. \E m \in S : \A j \in S : m =< j
    BY <1>1
  <1> HIDE DEF S
  <1>3. Utf!Min(S) \in S
    BY <1>2 DEF Utf!Min
  <1>4. Utf!Min(S) = Len(s) + 1 /\ Utf!Min(S) - 1 = Len(s)
    BY <1>1, <1>3
  <1>5. Utf!utf8_substr_alloc(Append(s, c), k) = SubSeq(Append(s, c), 1, Len(s))
    <2>1. S # {} /\ Behind(Append(s, c), k) = S
      BY <1>1 DEF S
    <2>2. QED BY <1>4, <2>1, CutBefore
  <1>6. Len(s) \in 0..Len(s)
    BY <1>1
  <1>7. SubSeq(Append(s, c), 1, Len(s)) = SubSeq(s, 1, Len(s))
    BY <1>6, SubSeqOfLonger
  <1>8. SubSeq(s, 1, Len(s)) = s
    OBVIOUS
  <1>9. QED BY <1>5, <1>7, <1>8

(* A text as it is split so far: where its characters begin, and that it is *)
(* cut between them.                                                        *)
Whole(s, split) ==
    LET chars == split.chars
        rest == split.rest
    IN  /\ chars \in Seq(Seq(Nat)) /\ rest \in Seq(Nat)
        /\ Utf!FlattenSeq(chars) \in Seq(Nat) /\ s = Utf!FlattenSeq(chars) \o rest
        /\ Counted(s, Len(chars) + (IF rest = <<>> THEN 0 ELSE 1))
        /\ \A k \in 0..Len(chars) :
            Utf!utf8_substr_alloc(s, k) = Utf!FlattenSeq(SubSeq(chars, 1, k))

LEMMA AppendedToText ==
  ASSUME NEW f \in Seq(Nat), NEW r \in Seq(Nat), NEW c \in Nat
  PROVE  /\ Append(f \o r, c) = f \o Append(r, c)
         /\ f \o Append(r, c) \in Seq(Nat)
         /\ f \o <<>> = f
  <1> DEFINE u == Append(f \o r, c)
             v == f \o Append(r, c)
  <1>1. f \o r \in Seq(Nat) /\ Len(f \o r) = Len(f) + Len(r)
    OBVIOUS
  <1>2. Len(u) = Len(f) + Len(r) + 1 /\ Len(v) = Len(f) + (Len(r) + 1)
    OBVIOUS
  <1>3. u \in Seq(Nat) /\ v \in Seq(Nat) /\ Len(u) = Len(v)
    BY <1>1, <1>2
  <1>4. ASSUME NEW p \in 1..Len(u) PROVE u[p] = v[p]
    OBVIOUS
  <1>5. u = v
    <2> HIDE DEF u, v
    <2>1. QED BY <1>3, <1>4, SeqEqual
  <1>6. QED BY <1>3, <1>5

(* The splits when a byte came and did not end, or ended, a character.      *)
LEMMA SplitOn ==
  ASSUME NEW split, NEW s \in Seq(Nat), Whole(s, split), NEW c \in Nat, NEW next,
         next = Utf!WithByte(split, c),
         split.rest = <<>> <=> c \div 64 # 2
  PROVE  /\ Whole(Append(s, c), next)
         /\ next.rest = IF Utf!IsChar(Append(split.rest, c)) THEN <<>> ELSE Append(split.rest, c)
  <1> DEFINE chars == split.chars
             rest == split.rest
             more == Append(rest, c)
             t == Append(s, c)
             L == Len(chars)
             n == L + (IF rest = <<>> THEN 0 ELSE 1)
  <1>1. /\ chars \in Seq(Seq(Nat)) /\ rest \in Seq(Nat)
        /\ Utf!FlattenSeq(chars) \in Seq(Nat) /\ s = Utf!FlattenSeq(chars) \o rest
        /\ Counted(s, n)
        /\ \A k \in 0..L : Utf!utf8_substr_alloc(s, k) = Utf!FlattenSeq(SubSeq(chars, 1, k))
    BY DEF Whole
  <1>2. /\ next.chars = IF Utf!IsChar(more) THEN Append(chars, more) ELSE chars
        /\ next.rest = IF Utf!IsChar(more) THEN <<>> ELSE more
    BY DEF Utf!WithByte
  <1>3. more \in Seq(Nat) /\ more # <<>> /\ L \in Nat /\ n \in Nat
    <2>1. more \in Seq(Nat) /\ Len(more) = Len(rest) + 1 /\ Len(rest) \in Nat
      BY <1>1
    <2>2. more # <<>>
      <3>1. Len(more) # 0
        BY <2>1, SMT
      <3>2. QED BY <3>1, NotEmpty, Zenon
    <2>3. L \in Nat
      BY <1>1
    <2>4. n = L + 0 \/ n = L + 1
      <3>1. CASE rest = <<>>
        BY <3>1
      <3>2. CASE rest # <<>>
        BY <3>2
      <3>3. QED BY <3>1, <3>2
    <2> HIDE DEF L, n
    <2>5. n \in Nat
      BY <2>3, <2>4
    <2>6. QED BY <2>1, <2>2, <2>3, <2>5
  <1>4. t = Utf!FlattenSeq(chars) \o more /\ t \in Seq(Nat)
    <2> DEFINE f == Utf!FlattenSeq(chars)
    <2>1. f \in Seq(Nat) /\ rest \in Seq(Nat) /\ s = f \o rest
      BY <1>1
    <2> HIDE DEF f, rest
    <2>2. Append(f \o rest, c) = f \o Append(rest, c) /\ f \o Append(rest, c) \in Seq(Nat)
      BY <2>1, AppendedToText
    <2>3. QED BY <2>1, <2>2 DEF f
  <1> HIDE DEF chars, rest, more, t, L, n
  (* It counts one more just when another character begins.                 *)
  <1>5. /\ Counted(t, L + 1)
        /\ \A k \in 0..L : Utf!utf8_substr_alloc(t, k) = Utf!FlattenSeq(SubSeq(chars, 1, k))
    <2>1. CASE rest = <<>>
      <3>1. n = L /\ c \div 64 # 2
        BY <1>3, <2>1 DEF n, rest
      <3>2. /\ Counted(t, L + 1) /\ Behind(t, L) = {Len(s) + 1}
            /\ \A k \in Nat : k # L => Behind(t, k) = Behind(s, k)
        <4>1. Counted(s, L) /\ L \in Nat /\ c \div 64 # 2
          BY <1>1, <1>3, <3>1
        <4>2. QED BY <4>1, BeginsAnother DEF t
      <3>3. Utf!utf8_substr_alloc(t, L) = s
        BY <3>2, CutThere DEF t
      <3>4. s = Utf!FlattenSeq(SubSeq(chars, 1, L))
        <4>1. Utf!FlattenSeq(chars) \o <<>> = Utf!FlattenSeq(chars)
          BY <1>1
        <4>2. SubSeq(chars, 1, L) = chars
          BY <1>1 DEF L
        <4>3. QED BY <1>1, <2>1, <4>1, <4>2
      <3>5. ASSUME NEW k \in 0..L, k # L
            PROVE  Utf!utf8_substr_alloc(t, k) = Utf!FlattenSeq(SubSeq(chars, 1, k))
        <4>1. k \in Nat /\ ~(k >= L)
          BY <1>3, <3>5
        <4>2. Behind(s, k) # {}
          BY <1>1, <3>1, <4>1 DEF Counted
        <4>3. Behind(t, k) = Behind(s, k)
          BY <3>2, <3>5, <4>1
        <4>4. Utf!utf8_substr_alloc(t, k) = Utf!utf8_substr_alloc(s, k)
          BY <4>2, <4>3, CutKept DEF t
        <4>5. QED BY <1>1, <4>4
      <3>6. QED BY <3>2, <3>3, <3>4, <3>5
    <2>2. CASE rest # <<>>
      <3>1. n = L + 1 /\ c \div 64 = 2
        BY <1>3, <2>2 DEF n, rest
      <3>2. Utf!Starts(t) = Utf!Starts(s)
        BY <3>1, GoesOn DEF t
      <3>3. \A k : Behind(t, k) = Behind(s, k)
        BY <3>2 DEF Behind
      <3>4. Counted(t, L + 1)
        BY <1>1, <3>1, <3>2, <3>3 DEF Counted
      <3>5. ASSUME NEW k \in 0..L
            PROVE  Utf!utf8_substr_alloc(t, k) = Utf!FlattenSeq(SubSeq(chars, 1, k))
        <4>1. k \in Nat /\ ~(k >= L + 1)
          BY <1>3
        <4>2. Behind(s, k) # {}
          BY <1>1, <3>1, <4>1 DEF Counted
        <4>3. Utf!utf8_substr_alloc(t, k) = Utf!utf8_substr_alloc(s, k)
          BY <3>3, <4>2, CutKept DEF t
        <4>4. QED BY <1>1, <4>3
      <3>6. QED BY <3>4, <3>5
    <2>3. QED BY <2>1, <2>2
  <1>6. CASE ~Utf!IsChar(more)
    <2>1. next.chars = chars /\ next.rest = more
      BY <1>2, <1>6
    <2>2. Whole(t, next)
      BY <1>1, <1>3, <1>4, <1>5, <2>1 DEF Whole, L
    <2>3. QED BY <1>2, <2>2 DEF t, more, rest
  <1>7. CASE Utf!IsChar(more)
    <2>1. next.chars = Append(chars, more) /\ next.rest = <<>>
      BY <1>2, <1>7
    <2> DEFINE new == Append(chars, more)
    <2>2. new \in Seq(Seq(Nat)) /\ Len(new) = L + 1 /\ Len(new) + 0 = L + 1
      BY <1>1, <1>3 DEF L
    <2>3. Utf!FlattenSeq(new) = t
      BY <1>1, <1>3, <1>4, FlattenOfLonger
    <2>4. t \o <<>> = t
      BY <1>4
    <2>5. \A k \in 0..L : SubSeq(new, 1, k) = SubSeq(chars, 1, k)
      BY <1>1, <1>3, SubSeqOfLonger DEF L
    <2>7. Utf!utf8_substr_alloc(t, L + 1) = t
      <3>1. Behind(t, L + 1) = {}
        <4>1. L + 1 \in Nat /\ L + 1 >= L + 1
          BY <1>3
        <4>2. QED BY <1>5, <4>1 DEF Counted
      <3>2. QED BY <3>1, CutWhole
    <2> HIDE DEF new
    <2>6. SubSeq(new, 1, L + 1) = new
      <3>1. SubSeq(new, 1, Len(new)) = new
        BY <2>2
      <3>2. QED BY <2>2, <3>1
    <2>8. \A k \in 0..(L + 1) : Utf!utf8_substr_alloc(t, k) = Utf!FlattenSeq(SubSeq(new, 1, k))
      <3> TAKE k \in 0..(L + 1)
      <3>1. k \in 0..L \/ k = L + 1
        BY <1>3
      <3>2. QED BY <1>5, <2>3, <2>5, <2>6, <2>7, <3>1
    <2>9. next.chars = new
      BY <2>1 DEF new
    <2>10. Whole(t, next)
      <3>1. <<>> \in Seq(Nat)
        OBVIOUS
      <3>2. Counted(t, Len(new) + 0)
        BY <1>5, <2>2
      <3>3. QED BY <1>4, <2>1, <2>2, <2>3, <2>4, <2>8, <2>9, <3>1, <3>2 DEF Whole
    <2>11. QED BY <1>2, <2>10 DEF t, more, rest
  <1>8. QED BY <1>6, <1>7
-----------------------------------------------------------------------------
(* utf8_valid() has split the text where the standard does.  What it knows  *)
(* of the last character is what it has read of it.                         *)
Utf8Inv ==
    /\ utf8_pc \in {"idle", "lead", "tail", "valid", "invalid"}
    /\ utf8_pc = "idle" => bytes = <<>>
    /\ utf8_pc # "invalid" => bytes \in Seq(Byte) /\ Whole(bytes, Utf!Chars(bytes))
    /\ utf8_pc \in {"lead", "valid"} => Utf!Chars(bytes).rest = <<>>
    /\ utf8_pc = "tail" => UnderWay(Utf!Chars(bytes).rest, left, cp, min_cp)
    /\ utf8_pc = "invalid" =>
        IF Utf!Last(bytes) = 0 THEN ~Utf!WellFormed(Utf!Front(bytes))
                           ELSE ~Utf!BeginsChar(Utf!Chars(bytes).rest)

LEMMA EmptyIsWhole == Whole(<<>>, Utf!Chars(<<>>)) /\ Utf!Chars(<<>>).rest = <<>>
  <1>1. Utf!Chars(<<>>).chars = <<>> /\ Utf!Chars(<<>>).rest = <<>>
    BY CharsOfEmpty DEF Utf!NoChars
  <1>2. Len(<<>>) + (IF <<>> = <<>> THEN 0 ELSE 1) = 0 /\ Len(<<>>) = 0
    OBVIOUS
  <1>3. Counted(<<>>, Len(<<>>) + (IF <<>> = <<>> THEN 0 ELSE 1))
    BY <1>2, CountedEmpty
  <1>4. /\ <<>> \in Seq(Nat) /\ <<>> \in Seq(Seq(Nat)) /\ <<>> = <<>> \o <<>>
        /\ \A k : SubSeq(<<>>, 1, 0) = <<>>
    OBVIOUS
  <1>5. Utf!utf8_substr_alloc(<<>>, 0) = <<>>
    <2>1. Behind(<<>>, 0) = {}
      BY CountedEmpty DEF Counted
    <2>2. QED BY <2>1, CutWhole
  <1>6. \A k \in 0..Len(<<>>) : Utf!utf8_substr_alloc(<<>>, k) = Utf!FlattenSeq(SubSeq(<<>>, 1, k))
    <2>1. \A k \in 0..Len(<<>>) : k = 0
      BY <1>2
    <2>2. QED BY <1>4, <1>5, <2>1, FlattenOfEmpty
  <1>7. QED BY <1>1, <1>3, <1>4, <1>6, FlattenOfEmpty DEF Whole

LEMMA ByteFacts ==
  ASSUME Utf!Utf8Constants
  PROVE  /\ \A c \in Byte : c \in Nat /\ c >= 1 /\ c <= 255
         /\ Byte \subseteq Nat
         /\ \A c \in Byte \cup {0} : c \in Nat /\ c <= 255
  BY SMT DEF Utf!Utf8Constants

LEMMA LastOfLonger ==
  ASSUME NEW B, NEW s \in Seq(B), NEW c \in B
  PROVE  Utf!Last(Append(s, c)) = c /\ Utf!Front(Append(s, c)) = s
  <1> DEFINE t == Append(s, c)
  <1>1. Len(t) = Len(s) + 1 /\ Len(s) \in Nat /\ t[Len(s) + 1] = c
    OBVIOUS
  <1>2. Len(t) - 1 = Len(s)
    BY <1>1
  <1>3. SubSeq(t, 1, Len(s)) = SubSeq(s, 1, Len(s))
    BY <1>1, SubSeqOfLonger
  <1>4. SubSeq(s, 1, Len(s)) = s
    OBVIOUS
  <1> HIDE DEF t
  <1>5. Utf!Last(t) = c /\ Utf!Front(t) = s
    BY <1>1, <1>2, <1>3, <1>4 DEF Utf!Last, Utf!Front
  <1>6. QED BY <1>5 DEF t

LEMMA RestOfLonger ==
  ASSUME NEW B, NEW s \in Seq(B), NEW c \in B
  PROVE  Utf!Chars(Append(s, c)).rest =
           IF Utf!IsChar(Append(Utf!Chars(s).rest, c)) THEN <<>> ELSE Append(Utf!Chars(s).rest, c)
  <1>1. Utf!Chars(Append(s, c)) = Utf!WithByte(Utf!Chars(s), c)
    BY CharsOfLonger
  <1>2. QED BY <1>1 DEF Utf!WithByte

LEMMA SeqOfWider ==
  ASSUME NEW A, NEW B, A \subseteq B, NEW s \in Seq(A)
  PROVE  s \in Seq(B)
  OBVIOUS

LEMMA LeadKeeps ==
  ASSUME Utf!Utf8Constants, Utf8Inv, Utf!Lead
  PROVE  Utf8Inv'
  <1> DEFINE s == bytes
             split == Utf!Chars(s)
  <1>1. PICK c \in Byte :
        /\ utf8_pc = "lead"
        /\ bytes' = Append(bytes, c)
        /\ IF c < 128 THEN UNCHANGED <<utf8_pc, cp, left, min_cp>>
           ELSE IF c \div 32 = 6 THEN Utf!Leads(c, 1, c % 32, 128)
           ELSE IF c \div 16 = 14 THEN Utf!Leads(c, 2, c % 16, 2048)
           ELSE IF c \div 8 = 30 THEN Utf!Leads(c, 3, c % 8, 65536)
           ELSE utf8_pc' = "invalid" /\ UNCHANGED <<cp, left, min_cp>>
    BY DEF Utf!Lead
  <1>2. c \in Nat /\ 1 <= c /\ c <= 255 /\ c # 0 /\ Byte \subseteq Nat
    BY ByteFacts, SMT
  <1>3. s \in Seq(Byte) /\ s \in Seq(Nat) /\ Whole(s, split) /\ split.rest = <<>>
    <2>1. s \in Seq(Byte) /\ Whole(s, split) /\ split.rest = <<>>
      BY <1>1 DEF Utf8Inv
    <2> HIDE DEF s, split
    <2>2. s \in Seq(Nat)
      BY <1>2, <2>1, SeqOfWider
    <2>3. QED BY <2>1, <2>2
  <1> DEFINE one == Append(<<>>, c)
             t == Append(s, c)
             next == Utf!Chars(t)
  <1>4. one \in Seq(Nat) /\ Len(one) = 1 /\ one[1] = c
    BY <1>2
  <1>5. /\ next = Utf!WithByte(split, c)
        /\ next.rest = IF Utf!IsChar(one) THEN <<>> ELSE one
    BY <1>3, CharsOfLonger, RestOfLonger
  <1>6. t \in Seq(Byte) /\ Utf!Last(t) = c
    BY <1>3, LastOfLonger
  <1> HIDE DEF one, next, split
  <1>7. c \div 64 # 2 => Whole(t, next)
    BY <1>2, <1>3, <1>5, SplitOn
  <1> HIDE DEF t
  <1>8. bytes' = t /\ Utf!Chars(bytes') = next
    BY <1>1 DEF t, next
  <1>9. /\ Utf!IsChar(one) <=> 1 <= c /\ c <= 127
        /\ Utf!BeginsChar(one) <=> (1 <= c /\ c <= 127) \/ (194 <= c /\ c <= 244)
    BY <1>4, CharOfOne
  <1>10. /\ c \div 32 = 6 <=> 192 <= c /\ c <= 223
         /\ c \div 32 = 6 => c % 32 = c - 192
         /\ c \div 16 = 14 <=> 224 <= c /\ c <= 239
         /\ c \div 16 = 14 => c % 16 = c - 224
         /\ c \div 8 = 30 <=> 240 <= c /\ c <= 247
         /\ c \div 8 = 30 => c % 8 = c - 240
         /\ c \div 64 = 2 <=> 128 <= c /\ c <= 191
    BY <1>2, Bits
  <1>11. CASE c < 128
    <2>1. Utf!IsChar(one) /\ c \div 64 # 2
      BY <1>2, <1>9, <1>10, <1>11, SMT
    <2>2. utf8_pc' = "lead"
      BY <1>1, <1>11
    <2>3. next.rest = <<>> /\ Whole(t, next)
      BY <1>5, <1>7, <2>1
    <2>4. QED BY <1>6, <1>8, <2>2, <2>3 DEF Utf8Inv
  <1>12. CASE ~(c < 128) /\ c \div 32 = 6
    <2>1. ~Utf!IsChar(one) /\ c \div 64 # 2 /\ 192 <= c /\ c <= 223 /\ c % 32 = c - 192
      BY <1>2, <1>9, <1>10, <1>12, SMT
    <2>2. utf8_pc' = "tail" /\ left' = 1 /\ cp' = c % 32 /\ min_cp' = 128
      BY <1>1, <1>12 DEF Utf!Leads
    <2>3. OfTwo(one, left', cp', min_cp')
      BY <1>4, <2>1, <2>2, SMT DEF OfTwo
    <2>4. next.rest = one /\ Whole(t, next)
      BY <1>5, <1>7, <2>1
    <2>5. UnderWay(next.rest, left', cp', min_cp')
      BY <1>4, <2>3, <2>4, Zenon DEF UnderWay
    <2>6. QED BY <1>6, <1>8, <2>2, <2>4, <2>5, Zenon DEF Utf8Inv
  <1>13. CASE ~(c < 128) /\ c \div 32 # 6 /\ c \div 16 = 14
    <2>1. ~Utf!IsChar(one) /\ c \div 64 # 2 /\ 224 <= c /\ c <= 239 /\ c % 16 = c - 224
      BY <1>2, <1>9, <1>10, <1>13, SMT
    <2>2. utf8_pc' = "tail" /\ left' = 2 /\ cp' = c % 16 /\ min_cp' = 2048
      BY <1>1, <1>13 DEF Utf!Leads
    <2>3. OfThree(one, left', cp', min_cp')
      BY <1>4, <2>1, <2>2, SMT DEF OfThree
    <2>4. next.rest = one /\ Whole(t, next)
      BY <1>5, <1>7, <2>1
    <2>5. UnderWay(next.rest, left', cp', min_cp')
      BY <1>4, <2>3, <2>4 DEF UnderWay
    <2>6. utf8_pc' = "tail"
      BY <2>2
    <2>7. QED BY <1>6, <1>8, <2>4, <2>5, <2>6, Zenon DEF Utf8Inv
  <1>14. CASE ~(c < 128) /\ c \div 32 # 6 /\ c \div 16 # 14 /\ c \div 8 = 30
    <2>1. ~Utf!IsChar(one) /\ c \div 64 # 2 /\ 240 <= c /\ c <= 247 /\ c % 8 = c - 240
      BY <1>2, <1>9, <1>10, <1>14, SMT
    <2>2. utf8_pc' = "tail" /\ left' = 3 /\ cp' = c % 8 /\ min_cp' = 65536
      BY <1>1, <1>14, SMT DEF Utf!Leads
    <2>3. OfFour(one, left', cp', min_cp')
      BY <1>4, <2>1, <2>2, SMT DEF OfFour
    <2>4. next.rest = one /\ Whole(t, next)
      BY <1>5, <1>7, <2>1
    <2>5. UnderWay(next.rest, left', cp', min_cp')
      BY <1>4, <2>3, <2>4 DEF UnderWay
    <2>6. utf8_pc' = "tail"
      BY <2>2, SMT
    <2>7. QED BY <1>6, <1>8, <2>4, <2>5, <2>6, Zenon DEF Utf8Inv
  <1>15. CASE ~(c < 128) /\ c \div 32 # 6 /\ c \div 16 # 14 /\ c \div 8 # 30
    <2>1. ~Utf!IsChar(one) /\ ~Utf!BeginsChar(one)
      BY <1>2, <1>9, <1>10, <1>15, SMT
    <2>2. utf8_pc' = "invalid"
      BY <1>1, <1>15
    <2>3. next.rest = one
      BY <1>5, <2>1
    <2>4. QED BY <1>2, <1>6, <1>8, <2>1, <2>2, <2>3 DEF Utf8Inv
  <1>16. QED BY <1>11, <1>12, <1>13, <1>14, <1>15, Zenon

LEMMA FollowKeeps ==
  ASSUME Utf!Utf8Constants, Utf8Inv, Utf!Follow
  PROVE  Utf8Inv'
  <1> DEFINE s == bytes
             split == Utf!Chars(s)
             rest == split.rest
  <1>1. PICK c \in Byte \cup {0} :
        /\ utf8_pc = "tail"
        /\ bytes' = Append(bytes, c)
        /\ IF c \div 64 # 2
           THEN utf8_pc' = "invalid" /\ UNCHANGED <<cp, left>>
           ELSE /\ cp' = cp * 64 + (c % 64)
                /\ left' = left - 1
                /\ utf8_pc' = IF left > 1 THEN "tail"
                              ELSE IF Utf!OutOfRange(cp') THEN "invalid" ELSE "lead"
        /\ min_cp' = min_cp
    BY DEF Utf!Follow
  <1>2. c \in Nat /\ c <= 255 /\ Byte \subseteq Nat
    BY ByteFacts, SMT
  <1>3. /\ s \in Seq(Byte) /\ s \in Seq(Nat) /\ s \in Seq(Byte \cup {0})
        /\ Whole(s, split) /\ UnderWay(rest, left, cp, min_cp)
    <2>1. s \in Seq(Byte) /\ Whole(s, split) /\ UnderWay(rest, left, cp, min_cp)
      BY <1>1 DEF Utf8Inv
    <2> HIDE DEF s, split, rest
    <2>2. s \in Seq(Nat)
      BY <1>2, <2>1, SeqOfWider
    <2>3. s \in Seq(Byte \cup {0})
      <3>1. Byte \subseteq Byte \cup {0}
        OBVIOUS
      <3>2. QED BY <2>1, <3>1, SeqOfWider
    <2>4. QED BY <2>1, <2>2, <2>3
  <1> DEFINE more == Append(rest, c)
             t == Append(s, c)
             next == Utf!Chars(t)
  <1>4. /\ next = Utf!WithByte(split, c)
        /\ next.rest = IF Utf!IsChar(more) THEN <<>> ELSE more
    BY <1>3, CharsOfLonger, RestOfLonger
  <1>5. Utf!Last(t) = c /\ Utf!Front(t) = s
    BY <1>3, LastOfLonger
  <1>6. rest # <<>>
    BY <1>3, EmptySeq, SMT DEF UnderWay, OfTwo, OfThree, OfFour
  <1>7. Followed(more, left, cp * 64 + (c - 128), min_cp, c)
    <2> HIDE DEF rest
    <2>1. QED BY <1>2, <1>3, ByteFollows
  <1>8. /\ c \div 64 = 2 <=> Tailing(c)
        /\ Tailing(c) => c % 64 = c - 128 /\ c # 0
    BY <1>2, Bits, SMT DEF Tailing
  <1> HIDE DEF more, next, rest, split
  <1>9. c \div 64 = 2 => Whole(t, next)
    <2>1. split.rest # <<>>
      BY <1>6 DEF rest
    <2>2. QED BY <1>2, <1>3, <1>4, <2>1, SplitOn
  <1>10. c # 0 => t \in Seq(Byte)
    BY <1>3
  <1> HIDE DEF t
  <1>11. bytes' = t /\ Utf!Chars(bytes') = next
    BY <1>1 DEF t, next
  <1>12. CASE ~Tailing(c)
    <2>1. utf8_pc' = "invalid" /\ ~Utf!IsChar(more) /\ ~Utf!BeginsChar(more)
      BY <1>1, <1>7, <1>8, <1>12, Zenon DEF Followed
    <2>2. next.rest = more
      BY <1>4, <2>1
    <2>3. ~Utf!WellFormed(s)
      BY <1>6 DEF Utf!WellFormed, rest, split
    <2>4. QED BY <1>5, <1>11, <2>1, <2>2, <2>3 DEF Utf8Inv
  <1>13. CASE Tailing(c) /\ left > 1
    <2>1. /\ utf8_pc' = "tail" /\ left' = left - 1 /\ cp' = cp * 64 + (c - 128)
          /\ min_cp' = min_cp
      BY <1>1, <1>8, <1>13
    <2>2. ~Utf!IsChar(more) /\ UnderWay(more, left', cp', min_cp')
      BY <1>7, <1>13, <2>1, Zenon DEF Followed
    <2>3. next.rest = more
      BY <1>4, <2>2
    <2>4. t \in Seq(Byte) /\ Whole(t, next)
      BY <1>8, <1>9, <1>10, <1>13, Zenon
    <2>5. QED BY <1>11, <2>1, <2>2, <2>3, <2>4 DEF Utf8Inv
  <1>14. CASE Tailing(c) /\ ~(left > 1)
    <2>1. /\ cp' = cp * 64 + (c - 128)
          /\ utf8_pc' = IF Utf!OutOfRange(cp') THEN "invalid" ELSE "lead"
      BY <1>1, <1>8, <1>14
    <2>2. (Utf!IsChar(more) <=> Allowed(cp', min_cp)) /\ (Utf!BeginsChar(more) => Utf!IsChar(more))
      BY <1>7, <1>14, <2>1, Zenon DEF Followed
    <2>3. Utf!OutOfRange(cp') <=> ~Allowed(cp', min_cp)
      <3>1. cp' \in Int /\ min_cp \in Int
        <4>1. cp \in Int /\ min_cp \in Int
          BY <1>3, UnderWayIsCode
        <4>2. QED BY <1>2, <2>1, <4>1
      <3>2. QED BY <3>1, SMT DEF Utf!OutOfRange, Allowed
    <2>4. t \in Seq(Byte) /\ Whole(t, next) /\ c # 0
      BY <1>8, <1>9, <1>10, <1>14, Zenon
    <2>5. CASE Utf!OutOfRange(cp')
      <3>1. utf8_pc' = "invalid" /\ ~Utf!IsChar(more) /\ ~Utf!BeginsChar(more)
        BY <2>1, <2>2, <2>3, <2>5, Zenon
      <3>2. next.rest = more
        BY <1>4, <3>1
      <3>3. QED BY <1>5, <1>11, <2>4, <3>1, <3>2 DEF Utf8Inv
    <2>6. CASE ~Utf!OutOfRange(cp')
      <3>1. utf8_pc' = "lead" /\ Utf!IsChar(more)
        BY <2>1, <2>2, <2>3, <2>6, Zenon
      <3>2. next.rest = <<>>
        BY <1>4, <3>1
      <3>3. QED BY <1>11, <2>4, <3>1, <3>2 DEF Utf8Inv
    <2>7. QED BY <2>5, <2>6
  <1>15. QED BY <1>12, <1>13, <1>14, Zenon

LEMMA StepKeepsUtf8Inv ==
  ASSUME Utf!Utf8Constants, Utf8Inv, [Utf!Next]_utf8Vars
  PROVE  Utf8Inv'
  <1>1. CASE Utf!Call
    BY <1>1, EmptyIsWhole DEF Utf!Call, Utf8Inv
  <1>2. CASE Utf!Lead
    BY <1>2, LeadKeeps
  <1>3. CASE Utf!Follow
    BY <1>3, FollowKeeps
  <1>4. CASE Utf!End
    BY <1>4 DEF Utf!End, Utf8Inv
  <1>5. CASE Utf!Free
    BY <1>5, EmptyIsWhole DEF Utf!Free, Utf8Inv
  <1>6. CASE UNCHANGED utf8Vars
    BY <1>6 DEF utf8Vars, Utf8Inv
  <1>7. QED BY <1>1, <1>2, <1>3, <1>4, <1>5, <1>6 DEF Utf!Next

LEMMA InvGivesExact ==
  ASSUME Utf8Inv
  PROVE  Utf!Utf8Exact
  <1>1. CASE utf8_pc = "valid"
    <2> DEFINE chars == Utf!Chars(bytes).chars
    <2>1. Whole(bytes, Utf!Chars(bytes)) /\ Utf!Chars(bytes).rest = <<>>
      BY <1>1 DEF Utf8Inv
    <2>2. /\ chars \in Seq(Seq(Nat)) /\ Counted(bytes, Len(chars) + 0)
          /\ \A k \in 0..Len(chars) :
               Utf!utf8_substr_alloc(bytes, k) = Utf!FlattenSeq(SubSeq(chars, 1, k))
      BY <2>1 DEF Whole
    <2>3. Len(chars) + 0 = Len(chars)
      BY <2>2
    <2>4. Utf!utf8_strlen(bytes) = Len(chars)
      BY <2>2, <2>3, SameCardinality DEF Counted, Utf!utf8_strlen
    <2>5. QED BY <1>1, <2>1, <2>2, <2>4 DEF Utf!Utf8Exact, Utf!WellFormed
  <1>2. CASE utf8_pc = "invalid"
    BY <1>2 DEF Utf8Inv, Utf!Utf8Exact
  <1>3. QED BY <1>1, <1>2 DEF Utf!Utf8Exact

(* utf8_valid() accepts the texts of table 3-7 of the standard and no other, *)
(* rejects one only where none goes on so, and what it accepts is counted    *)
(* and cut by characters: for texts of every length and of all bytes.        *)
THEOREM Utf8IsExact == Spec => []Utf8Exact
  <1>1. Utf!Utf8Constants
    BY LibraryAssumption
  <1>2. Init => Utf8Inv
    BY EmptyIsWhole DEF Init, Utf!Init, Utf8Inv
  <1>3. Utf8Inv /\ [Next]_vars => Utf8Inv'
    BY <1>1, StepOfPart, StepKeepsUtf8Inv
  <1>4. Utf8Inv => Utf8Exact
    BY InvGivesExact DEF Utf8Exact
  <1>5. QED BY <1>2, <1>3, <1>4, PTL DEF Spec
-----------------------------------------------------------------------------
(* parse_string() and json_escape_alloc().  The bytes of a code point and   *)
(* of an escape.                                                            *)
CharByte == 1..255

LEMMA CharByteFacts == \A n : n \in CharByte <=> n \in Nat /\ 1 <= n /\ n <= 255
  BY SMT DEF CharByte

Escape == {34, 92, 47, 98, 102, 110, 114, 116}

LEMMA UnescapedFacts ==
  /\ DOMAIN Jst!Unescaped = Escape
  /\ \A c \in Escape : Jst!Unescaped[c] =
       IF c = 98 THEN 8 ELSE IF c = 102 THEN 12 ELSE IF c = 110 THEN 10
       ELSE IF c = 114 THEN 13 ELSE IF c = 116 THEN 9 ELSE c
  BY SMT DEF Jst!Unescaped, Escape

LEMMA UnescapedByte ==
  \A c \in Escape : Jst!Unescaped[c] \in Nat /\ 8 <= Jst!Unescaped[c] /\ Jst!Unescaped[c] <= 92
  BY UnescapedFacts, SMT DEF Escape

(* utf8_of() by the length of what it yields. *)
Code == {n \in Nat : 1 <= n /\ n <= 1114111}
Below2(n) == n < 128
Below3(n) == n < 2048
Below4(n) == n < 65536

OneByte(s, n) == Len(s) = 1 /\ s[1] = n
TwoBytes(s, n) == /\ Len(s) = 2 /\ s[1] = 192 + n \div 64 /\ s[2] = 128 + (n % 64)
ThreeBytes(s, n) == /\ Len(s) = 3 /\ s[1] = 224 + n \div 4096
                    /\ s[2] = 128 + ((n \div 64) % 64) /\ s[3] = 128 + (n % 64)
FourBytes(s, n) == /\ Len(s) = 4 /\ s[1] = 240 + n \div 262144
                   /\ s[2] = 128 + ((n \div 4096) % 64)
                   /\ s[3] = 128 + ((n \div 64) % 64) /\ s[4] = 128 + (n % 64)

LEMMA BytesOfCode ==
  ASSUME NEW n \in Code
  PROVE  /\ 128 + (n % 64) \in CharByte
         /\ 128 + ((n \div 64) % 64) \in CharByte
         /\ 128 + ((n \div 4096) % 64) \in CharByte
         /\ Below2(n) => n \in CharByte
         /\ Below3(n) => 192 + n \div 64 \in CharByte
         /\ Below4(n) => 224 + n \div 4096 \in CharByte
         /\ 240 + n \div 262144 \in CharByte
  <1>1. n \in Nat /\ 1 <= n /\ n <= 1114111
    BY DEF Code
  <1>2. /\ 128 + (n % 64) \in CharByte
        /\ 128 + ((n \div 64) % 64) \in CharByte
        /\ 128 + ((n \div 4096) % 64) \in CharByte
    BY <1>1, CharByteFacts, SMT
  <1>3. /\ Below2(n) => n \in CharByte
        /\ Below3(n) => 192 + n \div 64 \in CharByte
        /\ Below4(n) => 224 + n \div 4096 \in CharByte
        /\ 240 + n \div 262144 \in CharByte
    BY <1>1, CharByteFacts, SMT DEF Below2, Below3, Below4
  <1>4. QED BY <1>2, <1>3, SMT

LEMMA Utf8OfFacts ==
  ASSUME NEW n \in Code
  PROVE  /\ Jst!utf8_of(n) \in Seq(CharByte)
         /\ Below2(n) => OneByte(Jst!utf8_of(n), n)
         /\ ~Below2(n) /\ Below3(n) => TwoBytes(Jst!utf8_of(n), n)
         /\ ~Below3(n) /\ Below4(n) => ThreeBytes(Jst!utf8_of(n), n)
         /\ ~Below4(n) => FourBytes(Jst!utf8_of(n), n)
  <1> DEFINE a == 128 + (n % 64)
             b == 128 + ((n \div 64) % 64)
             c == 128 + ((n \div 4096) % 64)
             two == 192 + n \div 64
             three == 224 + n \div 4096
             four == 240 + n \div 262144
  <1>1. /\ a \in CharByte /\ b \in CharByte /\ c \in CharByte
        /\ Below2(n) => n \in CharByte
        /\ Below3(n) => two \in CharByte
        /\ Below4(n) => three \in CharByte
        /\ four \in CharByte
    BY BytesOfCode, SMT
  <1>2. (Below2(n) => Below3(n)) /\ (Below3(n) => Below4(n))
    BY SMT DEF Code, Below2, Below3, Below4
  <1>3. Jst!utf8_of(n) = IF Below2(n) THEN <<n>> ELSE IF Below3(n) THEN <<two, a>>
                         ELSE IF Below4(n) THEN <<three, b, a>> ELSE <<four, c, b, a>>
    BY SMT DEF Jst!utf8_of, Below2, Below3, Below4
  <1>4. /\ OneByte(<<n>>, n)
        /\ TwoBytes(<<two, a>>, n)
        /\ ThreeBytes(<<three, b, a>>, n)
        /\ FourBytes(<<four, c, b, a>>, n)
    BY SMT DEF OneByte, TwoBytes, ThreeBytes, FourBytes
  <1> HIDE DEF a, b, c, two, three, four
  <1>5. /\ Below2(n) => <<n>> \in Seq(CharByte)
        /\ Below3(n) => <<two, a>> \in Seq(CharByte)
        /\ Below4(n) => <<three, b, a>> \in Seq(CharByte)
        /\ <<four, c, b, a>> \in Seq(CharByte)
    BY <1>1, SMT
  <1>6. QED BY <1>2, <1>3, <1>4, <1>5, Zenon

(* Both modules read text with the same functions. *)
LEMMA SameChars == \A s : Jst!Chars(s) = Utf!Chars(s)
  BY DEF Jst!Chars, Utf!Chars, Jst!CharsUpTo, Utf!CharsUpTo, Jst!WithByte, Utf!WithByte,
         Jst!IsChar, Utf!IsChar, Jst!BeginsChar, Utf!BeginsChar, Jst!CharLen,
         Utf!CharLen, Jst!SecondByte, Utf!SecondByte, Jst!NoChars, Utf!NoChars

(* A text that ends with a character, and one with which none begins.       *)
Closed(t) == Utf!Chars(t).rest = <<>> /\ Utf!Chars(t).chars \in Seq(Seq(Nat))
Stuck(t) == /\ Utf!Chars(t).rest \in Seq(Nat) /\ Utf!Chars(t).rest # <<>>
            /\ ~Utf!BeginsChar(Utf!Chars(t).rest)

LEMMA CharByteIsNat == CharByte \subseteq Nat
  BY CharByteFacts

LEMMA UpToOne ==
  ASSUME NEW B, NEW s \in Seq(B), NEW k \in 1..Len(s)
  PROVE  /\ SubSeq(s, 1, k) = Append(SubSeq(s, 1, k - 1), s[k])
         /\ SubSeq(s, 1, k - 1) \in Seq(B) /\ s[k] \in B
         /\ Len(SubSeq(s, 1, k - 1)) = k - 1
  OBVIOUS

LEMMA UpToEnds ==
  ASSUME NEW B, NEW s \in Seq(B)
  PROVE  SubSeq(s, 1, 0) = <<>> /\ SubSeq(s, 1, Len(s)) = s
  OBVIOUS

(* What begins no character does not when it goes on. *)
LEMMA StuckGoesOn ==
  ASSUME NEW r \in Seq(Nat), r # <<>>, ~Utf!BeginsChar(r), NEW c \in Nat
  PROVE  ~Utf!BeginsChar(Append(r, c))
  <1> DEFINE t == Append(r, c)
  <1> SUFFICES ASSUME Utf!BeginsChar(t) PROVE FALSE
    OBVIOUS
  <1>1. /\ Len(t) = Len(r) + 1 /\ Len(r) \in Nat /\ Len(r) # 0 /\ t # <<>>
        /\ \A k \in 1..Len(r) : t[k] = r[k]
    OBVIOUS
  <1>2. 1 \in 1..Len(r)
    BY <1>1
  <1>3. t[1] = r[1]
    BY <1>1, <1>2
  <1> HIDE DEF t
  <1> DEFINE Tails == 128..191
  <1>4. /\ Len(t) <= Utf!CharLen(t[1])
        /\ Len(t) >= 2 => t[2] \in Utf!SecondByte(t[1])
        /\ \A p \in 3..Len(t) : t[p] \in Tails
    BY <1>1, Zenon DEF Utf!BeginsChar
  <1>5. Utf!CharLen(r[1]) \in Nat
    BY SMT DEF Utf!CharLen
  <1> HIDE DEF Tails
  <1>6. Len(r) <= Utf!CharLen(r[1])
    BY <1>1, <1>3, <1>4, <1>5, SMT
  <1>7. Len(r) >= 2 => r[2] \in Utf!SecondByte(r[1])
    BY <1>1, <1>3, <1>4, SMT
  <1>8. \A p \in 3..Len(r) : r[p] \in Tails
    BY <1>1, <1>4, SMT
  <1>9. QED BY <1>6, <1>7, <1>8, Zenon DEF Utf!BeginsChar, Tails

LEMMA StuckKept ==
  ASSUME NEW t \in Seq(CharByte), Stuck(t), NEW c \in CharByte
  PROVE  Stuck(Append(t, c))
  <1> DEFINE r == Utf!Chars(t).rest
             u == Append(r, c)
  <1>1. r \in Seq(Nat) /\ r # <<>> /\ ~Utf!BeginsChar(r) /\ c \in Nat
    BY CharByteIsNat DEF Stuck
  <1>2. Utf!Chars(Append(t, c)).rest = IF Utf!IsChar(u) THEN <<>> ELSE u
    BY RestOfLonger
  <1> HIDE DEF r
  <1>3. ~Utf!BeginsChar(u) /\ u \in Seq(Nat) /\ u # <<>>
    BY <1>1, StuckGoesOn
  <1>4. ~Utf!IsChar(u)
    BY <1>3 DEF Utf!IsChar
  <1> HIDE DEF u
  <1>5. QED BY <1>2, <1>3, <1>4 DEF Stuck

LEMMA StuckStays ==
  ASSUME NEW t \in Seq(CharByte), Stuck(t), NEW s \in Seq(CharByte)
  PROVE  Stuck(t \o s)
  <1> DEFINE L == Len(s)
             S == {k \in 0..L : Stuck(t \o SubSeq(s, 1, k))}
  <1>1. L \in Nat
    OBVIOUS
  <1>2. 0 \in S
    <2>1. t \o SubSeq(s, 1, 0) = t
      BY UpToEnds
    <2>2. 0 \in 0..L
      BY <1>1
    <2>3. Stuck(t \o SubSeq(s, 1, 0))
      BY <2>1, Zenon
    <2>4. QED BY <2>2, <2>3, Zenon
  <1>3. ASSUME NEW k \in 1..L, k - 1 \in S PROVE k \in S
    <2> DEFINE u == SubSeq(s, 1, k - 1)
    <2>1. SubSeq(s, 1, k) = Append(u, s[k]) /\ u \in Seq(CharByte) /\ s[k] \in CharByte
      BY UpToOne
    <2>2. Stuck(t \o u) /\ k \in 0..L
      BY <1>3
    <2> HIDE DEF u
    <2>3. t \o u \in Seq(CharByte) /\ Append(t \o u, s[k]) = t \o Append(u, s[k])
      <3>1. t \in Seq(Nat) /\ u \in Seq(Nat) /\ s[k] \in Nat
        BY <2>1, CharByteIsNat, SeqOfWider
      <3>2. t \o u \in Seq(CharByte)
        BY <2>1
      <3>3. QED BY <3>1, <3>2, AppendedToText
    <2>4. Stuck(t \o Append(u, s[k]))
      BY <2>1, <2>2, <2>3, StuckKept
    <2>5. QED BY <2>1, <2>2, <2>4
  <1> HIDE DEF S, L
  <1>4. \A k \in 0..L : k \in S
    BY <1>1, <1>2, <1>3, InductionUpTo
  <1>5. L \in S
    BY <1>1, <1>4
  <1>6. QED BY <1>5, UpToEnds DEF S, L

(* One more character behind a text that ends with one. *)
LEMMA CharAdded ==
  ASSUME NEW t \in Seq(CharByte), Closed(t), NEW ch \in Seq(CharByte), Utf!IsChar(ch)
  PROVE  /\ Closed(t \o ch)
         /\ Utf!Chars(t \o ch).chars = Append(Utf!Chars(t).chars, ch)
  <1> DEFINE L == Len(ch)
             S == {k \in 0..(L - 1) :
                    /\ Utf!Chars(t \o SubSeq(ch, 1, k)).chars = Utf!Chars(t).chars
                    /\ Utf!Chars(t \o SubSeq(ch, 1, k)).rest = SubSeq(ch, 1, k)}
  <1>1. L \in Nat /\ L # 0 /\ L = Utf!CharLen(ch[1])
    BY EmptySeq DEF Utf!IsChar
  <1>2. t \in Seq(Nat) /\ ch \in Seq(Nat)
    BY CharByteIsNat, SeqOfWider
  <1>3. \A k \in 1..L : /\ t \o SubSeq(ch, 1, k) = Append(t \o SubSeq(ch, 1, k - 1), ch[k])
                        /\ t \o SubSeq(ch, 1, k - 1) \in Seq(CharByte)
                        /\ ch[k] \in CharByte
    <2> TAKE k \in 1..L
    <2> DEFINE u == SubSeq(ch, 1, k - 1)
    <2>1. SubSeq(ch, 1, k) = Append(u, ch[k]) /\ u \in Seq(CharByte) /\ ch[k] \in CharByte
      BY UpToOne
    <2> HIDE DEF u
    <2>2. u \in Seq(Nat) /\ ch[k] \in Nat
      BY <2>1, CharByteIsNat, SeqOfWider
    <2>3. t \o u \in Seq(CharByte)
      BY <2>1
    <2>4. t \o Append(u, ch[k]) = Append(t \o u, ch[k])
      BY <1>2, <2>2, AppendedToText
    <2>5. QED BY <2>1, <2>3, <2>4 DEF u
  <1>4. 0 \in S
    <2>1. t \o SubSeq(ch, 1, 0) = t /\ SubSeq(ch, 1, 0) = <<>>
      BY UpToEnds
    <2>2. 0 \in 0..(L - 1)
      BY <1>1
    <2>3. QED BY <2>1, <2>2 DEF Closed
  <1>5. ASSUME NEW k \in 1..(L - 1), k - 1 \in S PROVE k \in S
    <2> DEFINE u == SubSeq(ch, 1, k - 1)
               v == SubSeq(ch, 1, k)
    <2>1. /\ Utf!Chars(t \o u).chars = Utf!Chars(t).chars
          /\ Utf!Chars(t \o u).rest = u
      BY <1>5
    <2>2. k \in 1..L /\ k \in 0..(L - 1) /\ k \in Nat /\ k # 0 /\ k # L /\ 1 \in 1..k
      BY <1>1
    <2>3. /\ v = Append(u, ch[k])
          /\ Utf!Chars(t \o v) = Utf!WithByte(Utf!Chars(t \o u), ch[k])
      <3>1. v = Append(u, ch[k])
        BY <2>2, UpToOne
      <3>2. QED BY <1>3, <2>2, <3>1, CharsOfLonger
    <2>4. ~Utf!IsChar(v)
      <3>1. Len(v) = k /\ v[1] = ch[1]
        BY <2>2
      <3>2. QED BY <1>1, <2>2, <3>1 DEF Utf!IsChar
    <2> HIDE DEF u, v
    <2>5. Utf!Chars(t \o v).chars = Utf!Chars(t).chars /\ Utf!Chars(t \o v).rest = v
      BY <2>1, <2>3, <2>4 DEF Utf!WithByte
    <2>6. QED BY <2>2, <2>5 DEF v
  <1> HIDE DEF S
  <1>6. L - 1 \in S
    <2> DEFINE M == L - 1
    <2>1. M \in Nat
      BY <1>1
    <2>2. 0 \in S /\ \A k \in 1..M : k - 1 \in S => k \in S
      BY <1>4, <1>5
    <2> HIDE DEF M
    <2>3. \A k \in 0..M : k \in S
      BY <2>1, <2>2, InductionUpTo
    <2>4. M \in 0..M
      BY <2>1
    <2>5. QED BY <2>3, <2>4 DEF M
  <1> DEFINE u == SubSeq(ch, 1, L - 1)
  <1>7. /\ Utf!Chars(t \o u).chars = Utf!Chars(t).chars
        /\ Utf!Chars(t \o u).rest = u
    BY <1>6 DEF S
  <1>8. /\ Utf!Chars(t \o ch) = Utf!WithByte(Utf!Chars(t \o u), ch[L])
        /\ ch = Append(u, ch[L])
    <2>1. L \in 1..L /\ SubSeq(ch, 1, L) = ch
      BY <1>1, UpToEnds
    <2>2. ch = Append(u, ch[L])
      BY <2>1, UpToOne
    <2>3. QED BY <1>3, <2>1, <2>2, CharsOfLonger
  <1> HIDE DEF u, L
  <1>9. /\ Utf!Chars(t \o ch).chars = Append(Utf!Chars(t).chars, ch)
        /\ Utf!Chars(t \o ch).rest = <<>>
    <2> DEFINE c == ch[L]
               split == Utf!Chars(t \o u)
    <2>1. Append(split.rest, c) = ch
      BY <1>7, <1>8, Zenon
    <2>2. split.chars = Utf!Chars(t).chars
      BY <1>7, Zenon
    <2>3. Utf!Chars(t \o ch) = Utf!WithByte(split, c)
      BY <1>8, Zenon
    <2> HIDE DEF split, c
    <2>4. Utf!WithByte(split, c) = [chars |-> Append(split.chars, ch), rest |-> <<>>]
      BY <2>1 DEF Utf!WithByte
    <2>5. QED BY <2>2, <2>3, <2>4
  <1>10. QED BY <1>2, <1>9 DEF Closed

(* A code point but no surrogate: its bytes are a character, and read as it. *)
Surrogate(n) == n \in Nat /\ 55296 <= n /\ n <= 57343
Scalar(n) == n \in Code /\ ~Surrogate(n)

DigitsOf(n, a, b, c, d) ==
    /\ a = n \div 262144 /\ b = (n \div 4096) % 64 /\ c = (n \div 64) % 64 /\ d = n % 64
    /\ b <= 63 /\ c <= 63 /\ d <= 63
    /\ n \div 64 = (a * 64 + b) * 64 + c
    /\ n \div 4096 = a * 64 + b
    /\ n = ((a * 64 + b) * 64 + c) * 64 + d

LEMMA DigitsOfCode ==
  ASSUME NEW n \in Code
  PROVE  \E a, b, c, d \in Nat : DigitsOf(n, a, b, c, d)
  <1> DEFINE a == n \div 262144
             b == (n \div 4096) % 64
             c == (n \div 64) % 64
             d == n % 64
             p == n \div 64
             q == n \div 4096
  <1>1. n \in Nat
    BY DEF Code
  <1>2. d \in Nat /\ d <= 63 /\ p \in Nat /\ n = p * 64 + d
    BY <1>1, SMT
  <1>3. c \in Nat /\ c <= 63 /\ q \in Nat /\ p = q * 64 + c
    BY <1>1, SMT
  <1>4. b \in Nat /\ b <= 63 /\ a \in Nat /\ q = a * 64 + b
    BY <1>1, SMT
  <1> HIDE DEF a, b, c, d, p, q
  <1>5. /\ p = (a * 64 + b) * 64 + c
        /\ n = ((a * 64 + b) * 64 + c) * 64 + d
    BY <1>2, <1>3, <1>4
  <1>6. DigitsOf(n, a, b, c, d)
    BY <1>2, <1>3, <1>4, <1>5, SMT DEF DigitsOf, a, b, c, d, p, q
  <1>7. a \in Nat /\ b \in Nat /\ c \in Nat /\ d \in Nat
    BY <1>2, <1>3, <1>4, SMT
  <1>8. QED BY <1>6, <1>7, Zenon

LEMMA CodeByLength ==
  ASSUME NEW s
  PROVE  /\ Len(s) = 1 => Jst!CodeOf(s) = s[1]
         /\ Len(s) = 2 => Jst!CodeOf(s) = (s[1] - 192) * 64 + s[2] - 128
         /\ Len(s) = 3 =>
              Jst!CodeOf(s) = ((s[1] - 224) * 64 + s[2] - 128) * 64 + s[3] - 128
         /\ Len(s) = 4 =>
              Jst!CodeOf(s) = (((s[1] - 240) * 64 + s[2] - 128) * 64 + s[3] - 128) * 64
                              + s[4] - 128
  BY SMT DEF Jst!CodeOf

LEMMA ScalarIsChar ==
  ASSUME NEW n, Scalar(n)
  PROVE  Utf!IsChar(Jst!utf8_of(n)) /\ Jst!CodeOf(Jst!utf8_of(n)) = n
  <1> DEFINE s == Jst!utf8_of(n)
  <1>1. /\ n \in Nat /\ 1 <= n /\ n <= 1114111
        /\ ~(55296 <= n /\ n <= 57343)
    BY SMT DEF Scalar, Surrogate, Code
  <1>10. n \in Code
    BY SMT DEF Scalar
  <1>2. s \in Seq(CharByte) /\ s \in Seq(Nat)
    <2>1. s \in Seq(CharByte)
      BY <1>10, Utf8OfFacts
    <2>2. QED BY <2>1, CharByteIsNat, SeqOfWider
  <1>11. PICK a, b, c, d \in Nat : DigitsOf(n, a, b, c, d)
    BY <1>10, DigitsOfCode, Zenon
  <1>3. /\ a = n \div 262144 /\ b = (n \div 4096) % 64 /\ c = (n \div 64) % 64 /\ d = n % 64
        /\ b <= 63 /\ c <= 63 /\ d <= 63
        /\ n \div 64 = (a * 64 + b) * 64 + c
        /\ n \div 4096 = a * 64 + b
        /\ n = ((a * 64 + b) * 64 + c) * 64 + d
    BY <1>11, SMT DEF DigitsOf
  <1>12. n = ((a * 64 + b) * 64 + c) * 64 + d
    BY <1>3, SMT
  <1>4. /\ Below2(n) => OneByte(s, n)
        /\ ~Below2(n) /\ Below3(n) => TwoBytes(s, n)
        /\ ~Below3(n) /\ Below4(n) => ThreeBytes(s, n)
        /\ ~Below4(n) => FourBytes(s, n)
    BY <1>10, Utf8OfFacts, SMT
  <1> HIDE DEF s
  <1>5. CASE Below2(n)
    <2>1. Len(s) = 1 /\ s[1] = n /\ n <= 127
      BY <1>1, <1>4, <1>5, SMT DEF Below2, OneByte
    <2>2. Utf!IsChar(s)
      BY <1>1, <1>2, <2>1, CharOfOne, SMT
    <2>3. Jst!CodeOf(s) = n
      BY <2>1, CodeByLength, SMT
    <2>4. QED BY <2>2, <2>3 DEF s
  <1>6. CASE ~Below2(n) /\ Below3(n)
    <2>1. Len(s) = 2 /\ s[1] = 192 + (a * 64 + b) * 64 + c /\ s[2] = 128 + d
      BY <1>3, <1>4, <1>6, SMT DEF TwoBytes
    <2>2. n >= 128 /\ n < 2048
      BY <1>1, <1>6, SMT DEF Below2, Below3
    <2>3. Tailing(s[2]) /\ 194 <= s[1] /\ s[1] <= 223
      BY <1>3, <2>1, <2>2, SMT DEF Tailing
    <2>4. Utf!IsChar(s)
      BY <1>2, <2>1, <2>3, CharOfTwo, SMT
    <2> DEFINE x == (a * 64 + b) * 64 + c
    <2>5. x \in Nat /\ s[1] = 192 + x /\ n = x * 64 + d
      BY <1>12, <2>1, SMT
    <2> HIDE DEF x
    <2>9. Len(s) = 2
      BY <2>1, SMT
    <2>6. Jst!CodeOf(s) = (s[1] - 192) * 64 + s[2] - 128
      BY <2>9, CodeByLength, SMT
    <2>7. Jst!CodeOf(s) = n
      BY <2>1, <2>5, <2>6, SMT
    <2>8. QED BY <2>4, <2>7 DEF s
  <1>7. CASE ~Below3(n) /\ Below4(n)
    <2>1. Len(s) = 3 /\ s[1] = 224 + a * 64 + b /\ s[2] = 128 + c /\ s[3] = 128 + d
      BY <1>3, <1>4, <1>7, SMT DEF ThreeBytes
    <2>2. n >= 2048 /\ n < 65536
      BY <1>1, <1>7, SMT DEF Below3, Below4
    <2>3. /\ Tailing(s[2]) /\ Tailing(s[3]) /\ 224 <= s[1] /\ s[1] <= 239
          /\ s[1] = 224 => 160 <= s[2]
          /\ s[1] = 237 => s[2] <= 159
      BY <1>1, <1>3, <2>1, <2>2, SMT DEF Tailing
    <2>4. Utf!IsChar(s)
      BY <1>2, <2>1, <2>3, CharOfThree, SMT
    <2>5. Jst!CodeOf(s) = n
      BY <1>12, <2>1, CodeByLength, SMT
    <2>6. QED BY <2>4, <2>5 DEF s
  <1>8. CASE ~Below4(n)
    <2>1. /\ Len(s) = 4 /\ s[1] = 240 + a /\ s[2] = 128 + b
          /\ s[3] = 128 + c /\ s[4] = 128 + d
      BY <1>3, <1>4, <1>8, SMT DEF FourBytes
    <2>2. n >= 65536
      BY <1>1, <1>8, SMT DEF Below4
    <2>3. /\ Tailing(s[2]) /\ Tailing(s[3]) /\ Tailing(s[4])
          /\ 240 <= s[1] /\ s[1] <= 244
          /\ s[1] = 240 => 144 <= s[2]
          /\ s[1] = 244 => s[2] <= 143
      BY <1>1, <1>3, <2>1, <2>2, SMT DEF Tailing
    <2>4. Utf!IsChar(s)
      BY <1>2, <2>1, <2>3, CharOfFour, SMT
    <2>5. Jst!CodeOf(s) = n
      BY <1>12, <2>1, CodeByLength, SMT
    <2>6. QED BY <2>4, <2>5 DEF s
  <1>9. QED BY <1>5, <1>6, <1>7, <1>8, Zenon

(* A surrogate by itself is no character, whatever comes behind it. *)
LEMMA LowIsStuck ==
  ASSUME NEW t \in Seq(CharByte), Closed(t), NEW n, Surrogate(n)
  PROVE  Stuck(t \o Jst!utf8_of(n))
  <1> DEFINE s == Jst!utf8_of(n)
             one == Append(<<>>, s[1])
             two == Append(one, s[2])
             u == Append(t, s[1])
             v == Append(u, s[2])
  <1>1. n \in Code /\ ~Below3(n) /\ Below4(n)
    BY SMT DEF Code, Below3, Below4, Surrogate
  <1>2. s \in Seq(CharByte) /\ ThreeBytes(s, n)
    BY <1>1, Utf8OfFacts, Zenon
  <1>3. Len(s) = 3
    BY <1>2 DEF ThreeBytes
  <1>4. s[1] = 237 /\ s[2] \in Nat /\ 160 <= s[2] /\ s[2] <= 191
    BY <1>2, SMT DEF ThreeBytes, Surrogate
  <1> HIDE DEF s
  <1>5. s[1] \in CharByte /\ s[2] \in CharByte /\ s[3] \in CharByte
    <2>1. 1 \in 1..Len(s) /\ 2 \in 1..Len(s) /\ 3 \in 1..Len(s)
      BY <1>3
    <2>2. QED BY <1>2, <2>1, ElementOfSeq, Zenon
  <1>6. t \o s = Append(v, s[3])
    <2>1. 1 \in 1..Len(s) /\ 2 \in 1..Len(s) /\ 3 \in 1..Len(s) /\ 1 - 1 = 0
          /\ 2 - 1 = 1 /\ 3 - 1 = 2
      BY <1>3, SMT
    <2>2. one = SubSeq(s, 1, 1)
      BY <1>2, <2>1, UpToOne, UpToEnds
    <2>3. two = SubSeq(s, 1, 2)
      BY <1>2, <2>1, <2>2, UpToOne
    <2>4. s = Append(two, s[3])
      BY <1>2, <1>3, <2>1, <2>3, UpToOne, UpToEnds
    <2>5. t \in Seq(Nat) /\ s[1] \in Nat /\ s[2] \in Nat /\ s[3] \in Nat
      BY <1>5, CharByteIsNat, SeqOfWider
    <2>6. <<>> \in Seq(Nat) /\ one \in Seq(Nat) /\ two \in Seq(Nat)
      BY <2>5
    <2> HIDE DEF one, two, u, v
    <2>7. Append(t \o <<>>, s[1]) = t \o one /\ t \o <<>> = t
      BY <2>5, <2>6, AppendedToText DEF one
    <2>8. Append(t \o one, s[2]) = t \o two
      BY <2>5, <2>6, AppendedToText DEF two
    <2>9. Append(t \o two, s[3]) = t \o s
      <3>1. Append(t \o two, s[3]) = t \o Append(two, s[3])
        BY <2>5, <2>6, AppendedToText
      <3>2. QED BY <2>4, <3>1, Zenon
    <2>10. QED BY <2>7, <2>8, <2>9, Zenon DEF u, v
  <1>7. Utf!Chars(u).rest = one
    <2>1. one \in Seq(Nat) /\ Len(one) = 1 /\ one[1] = 237
      BY <1>4
    <2> HIDE DEF one
    <2>2. ~Utf!IsChar(one)
      BY <2>1, CharOfOne, SMT
    <2>3. QED BY <1>5, <2>2, RestOfLonger DEF Closed, one
  <1>8. u \in Seq(CharByte) /\ v \in Seq(CharByte)
    BY <1>5
  <1>9. two \in Seq(Nat) /\ Len(two) = 2 /\ two[1] = 237 /\ two[2] = s[2]
    BY <1>4
  <1> HIDE DEF one, two, u
  <1>10. ~Utf!BeginsChar(two) /\ ~Utf!IsChar(two)
    <2>1. ~Utf!BeginsChar(two)
      <3>1. Utf!CharLen(two[1]) = 3
        BY <1>9, FirstByteTells, SMT
      <3>2. two[2] \notin Utf!SecondByte(two[1])
        BY <1>4, <1>9, SecondByteTells, SMT
      <3>3. QED BY <1>9, <3>2, SMT DEF Utf!BeginsChar
    <2>2. QED BY <2>1 DEF Utf!IsChar
  <1>11. Utf!Chars(v).rest = two
    BY <1>5, <1>7, <1>8, <1>10, RestOfLonger DEF two, v
  <1>12. Stuck(v)
    <2>1. two # <<>>
      <3>1. Len(two) # 0
        BY <1>9, SMT
      <3>2. QED BY <3>1, NotEmpty, Zenon
    <2>2. QED BY <1>9, <1>10, <1>11, <2>1 DEF Stuck
  <1> HIDE DEF v
  <1>13. Stuck(Append(v, s[3]))
    BY <1>5, <1>8, <1>12, StuckKept DEF v
  <1>14. QED BY <1>6, <1>13 DEF s

(* The codes of one more character. *)
LEMMA CodesOfLonger ==
  ASSUME NEW chars \in Seq(Seq(Nat)), NEW ch \in Seq(Nat)
  PROVE  Jst!CodesOf(Append(chars, ch)) = Append(Jst!CodesOf(chars), Jst!CodeOf(ch))
  BY DEF Jst!CodesOf

(* A recursive definition whose values lie in a set has a value. *)
Follows(f, G, V, base, n) ==
    /\ f \in [0..n -> V] /\ f[0] = base
    /\ \A m \in 1..n : f[m] = G[m, f[m - 1]]

LEMMA RecursionUpTo ==
  ASSUME NEW V, NEW base \in V, NEW L \in Nat, NEW G \in [(1..L) \X V -> V]
  PROVE  \E f : Follows(f, G, V, base, L)
  <1> DEFINE S == {n \in 0..L : \E f : Follows(f, G, V, base, n)}
  <1>1. 0 \in S
    <2> DEFINE f == [m \in 0..0 |-> base]
    <2>1. f \in [0..0 -> V] /\ f[0] = base /\ (\A m : m \notin 1..0) /\ 0 \in 0..L
      OBVIOUS
    <2> HIDE DEF f
    <2>2. Follows(f, G, V, base, 0)
      BY <2>1, Zenon DEF Follows
    <2>3. QED BY <2>1, <2>2, Zenon
  <1>2. ASSUME NEW n \in 1..L, n - 1 \in S PROVE n \in S
    <2>1. PICK f : Follows(f, G, V, base, n - 1)
      BY <1>2, Zenon
    <2>2. /\ f \in [0..(n - 1) -> V] /\ f[0] = base
          /\ \A m \in 1..(n - 1) : f[m] = G[m, f[m - 1]]
      BY <2>1, Zenon DEF Follows
    <2> DEFINE v == G[n, f[n - 1]]
               g == [m \in 0..n |-> IF m < n THEN f[m] ELSE v]
    <2>3. v \in V
      <3>1. n - 1 \in 0..(n - 1)
        OBVIOUS
      <3>2. f[n - 1] \in V
        BY <2>2, <3>1, Zenon
      <3>3. <<n, f[n - 1]>> \in (1..L) \X V
        BY <3>2, Zenon
      <3>4. QED BY <3>3, Zenon
    <2>10. \A m \in 0..n : m < n => m \in 0..(n - 1)
      OBVIOUS
    <2>11. f[n - 1] = f[n - 1] /\ v = G[n, f[n - 1]]
      OBVIOUS
    <2> HIDE DEF v
    <2>4. /\ \A m \in 0..(n - 1) : g[m] = f[m]
          /\ g[n] = v
      OBVIOUS
    <2>5. g \in [0..n -> V]
      <3>1. \A m \in 0..n : (IF m < n THEN f[m] ELSE v) \in V
        BY <2>2, <2>3, <2>10, Zenon
      <3>2. QED BY <3>1, Zenon
    <2> HIDE DEF g
    <2>6. g[0] = base
      <3>1. 0 \in 0..(n - 1)
        OBVIOUS
      <3>2. QED BY <2>2, <2>4, <3>1, Zenon
    <2>7. ASSUME NEW m \in 1..n PROVE g[m] = G[m, g[m - 1]]
      <3>1. CASE m = n
        <4>1. n - 1 \in 0..(n - 1)
          OBVIOUS
        <4>2. QED BY <2>4, <2>11, <3>1, <4>1, Zenon
      <3>2. CASE m # n
        <4>1. m \in 1..(n - 1) /\ m - 1 \in 0..(n - 1) /\ m \in 0..(n - 1)
          BY <3>2
        <4>2. QED BY <2>2, <2>4, <4>1, Zenon
      <3>3. QED BY <3>1, <3>2, Zenon
    <2>8. Follows(g, G, V, base, n)
      BY <2>5, <2>6, <2>7, Zenon DEF Follows
    <2>12. n \in 0..L
      OBVIOUS
    <2>9. QED BY <2>8, <2>12, Zenon
  <1> HIDE DEF S
  <1>3. \A n \in 0..L : n \in S
    BY <1>1, <1>2, InductionUpTo
  <1>4. L \in S
    BY <1>3
  <1>5. QED BY <1>4, Zenon DEF S

(* A code point as it is pushed, by what the text ends with. *)
Codes(t) == Jst!CodesOf(Utf!Chars(t).chars)

LEMMA PushedText ==
  ASSUME NEW t \in Seq(CharByte), NEW n, n = 0 \/ n \in Code
  PROVE  Jst!Pushed(t, n) \in Seq(CharByte)
  <1>1. CASE n = 0
    BY <1>1 DEF Jst!Pushed
  <1>2. CASE n # 0
    <2>1. Jst!utf8_of(n) \in Seq(CharByte)
      BY <1>2, Utf8OfFacts
    <2>2. t \o Jst!utf8_of(n) \in Seq(CharByte)
      BY <2>1
    <2>3. QED BY <1>2, <2>2 DEF Jst!Pushed
  <1>3. QED BY <1>1, <1>2

LEMMA ScalarPushed ==
  ASSUME NEW t \in Seq(CharByte), Closed(t), NEW n, n = 0 \/ Scalar(n)
  PROVE  /\ Closed(Jst!Pushed(t, n))
         /\ Codes(Jst!Pushed(t, n)) = IF n = 0 THEN Codes(t) ELSE Append(Codes(t), n)
  <1>1. CASE n = 0
    BY <1>1 DEF Jst!Pushed
  <1>2. CASE n # 0
    <2> DEFINE ch == Jst!utf8_of(n)
    <2>1. Scalar(n) /\ n \in Code
      BY <1>2 DEF Scalar
    <2>2. ch \in Seq(CharByte) /\ ch \in Seq(Nat) /\ Utf!IsChar(ch) /\ Jst!CodeOf(ch) = n
      <3>1. ch \in Seq(CharByte)
        BY <2>1, Utf8OfFacts
      <3>2. Utf!IsChar(ch) /\ Jst!CodeOf(ch) = n
        BY <2>1, ScalarIsChar
      <3>3. QED BY <3>1, <3>2, CharByteIsNat, SeqOfWider
    <2>3. Jst!Pushed(t, n) = t \o ch
      BY <1>2 DEF Jst!Pushed
    <2> HIDE DEF ch
    <2>4. Closed(t \o ch) /\ Utf!Chars(t \o ch).chars = Append(Utf!Chars(t).chars, ch)
      BY <2>2, CharAdded
    <2>5. Utf!Chars(t).chars \in Seq(Seq(Nat))
      BY DEF Closed
    <2>6. Codes(t \o ch) = Append(Codes(t), n)
      BY <2>2, <2>4, <2>5, CodesOfLonger DEF Codes
    <2>7. QED BY <1>2, <2>3, <2>4, <2>6
  <1>3. QED BY <1>1, <1>2

LEMMA SurrogatePushed ==
  ASSUME NEW t \in Seq(CharByte), Closed(t), NEW n, Surrogate(n)
  PROVE  Stuck(Jst!Pushed(t, n))
  <1>1. n # 0
    BY SMT DEF Surrogate
  <1>2. QED BY <1>1, LowIsStuck DEF Jst!Pushed

LEMMA StuckPushed ==
  ASSUME NEW t \in Seq(CharByte), Stuck(t), NEW n, n = 0 \/ n \in Code
  PROVE  Stuck(Jst!Pushed(t, n))
  <1>1. CASE n = 0
    BY <1>1 DEF Jst!Pushed
  <1>2. CASE n # 0
    <2>1. Jst!utf8_of(n) \in Seq(CharByte)
      BY <1>2, Utf8OfFacts
    <2>2. QED BY <1>2, <2>1, StuckStays DEF Jst!Pushed
  <1>3. QED BY <1>1, <1>2

LEMMA BytePushed ==
  ASSUME NEW t \in Seq(CharByte), NEW n \in CharByte, Below2(n)
  PROVE  Append(t, n) = Jst!Pushed(t, n) /\ Scalar(n) /\ n \in Code
  <1>1. n \in Nat /\ n # 0
    BY CharByteFacts
  <1>2. Jst!utf8_of(n) = <<n>>
    BY SMT DEF Jst!utf8_of, Below2
  <1>3. t \o <<n>> = Append(t, n)
    OBVIOUS
  <1>4. Scalar(n) /\ n \in Code
    BY <1>1, CharByteFacts, SMT DEF Scalar, Surrogate, Code, Below2
  <1>5. QED BY <1>1, <1>2, <1>3, <1>4 DEF Jst!Pushed
-----------------------------------------------------------------------------
(* The pieces of a string by what a turn of the loop makes of them. *)
IsUnit(x) == x.kind = "unit"
IsHigh(x) == IsUnit(x) /\ Jst!High(x.n)
IsLow(x) == IsUnit(x) /\ Jst!Low(x.n)
IsQuote(x) == x.kind = "byte" /\ x.n = Jst!Quote
Inner(x) == ~Jst!Bad(x) /\ ~IsQuote(x)
Plain(x) == Inner(x) /\ ~IsHigh(x)
AsciiByte(x) == x.kind = "byte" => Below2(x.n)
PieceCode(x) == IF x.kind = "escape" THEN Jst!Unescaped[x.n] ELSE x.n

LEMMA PieceFacts ==
  ASSUME Jst!StringConstants, NEW x \in Pieces
  PROVE  /\ x.kind \in {"byte", "escape", "unit", "end"} /\ x.n \in Int
         /\ x.kind = "byte" => x.n \in CharByte
         /\ IsUnit(x) /\ x.n # -1 => x.n = 0 \/ x.n \in Code
         /\ IsUnit(x) /\ x.n # -1 => Jst!High(x.n) \/ Jst!Low(x.n) \/ x.n = 0 \/ Scalar(x.n)
         /\ IsUnit(x) /\ x.n # -1 => x.n >= 0
         /\ IsHigh(x) => x.n # -1
         /\ Jst!High(x.n) => Surrogate(x.n) /\ ~Jst!Low(x.n)
         /\ Jst!Low(x.n) => Surrogate(x.n)
  <1>1. x \in [kind : {"byte", "escape", "unit", "end"}, n : Int]
    BY SMT DEF Jst!StringConstants
  <1>2. x.kind = "byte" => x.n \in CharByte
    BY SMT DEF Jst!StringConstants, CharByte
  <1>3. x.n >= -1 /\ x.n <= 65535
    BY SMT DEF Jst!StringConstants
  <1>4. x.kind \in {"byte", "escape", "unit", "end"} /\ x.n \in Int /\ -1 <= x.n /\ x.n <= 65535
    BY <1>1, <1>3, SMT
  <1>5. \A n \in Int : /\ Jst!High(n) <=> 55296 <= n /\ n <= 56319
                       /\ Jst!Low(n) <=> 56320 <= n /\ n <= 57343
    BY SMT DEF Jst!High, Jst!Low
  <1>6. /\ Jst!High(x.n) => Surrogate(x.n) /\ ~Jst!Low(x.n) /\ x.n # -1
        /\ Jst!Low(x.n) => Surrogate(x.n)
    BY <1>4, <1>5, SMT DEF Surrogate
  <1>7. x.n # -1 => /\ x.n >= 0
                    /\ x.n = 0 \/ x.n \in Code
                    /\ Jst!High(x.n) \/ Jst!Low(x.n) \/ x.n = 0 \/ Scalar(x.n)
    BY <1>4, <1>5, SMT DEF Surrogate, Scalar, Code
  <1>8. IsHigh(x) => Jst!High(x.n)
    BY DEF IsHigh
  <1>9. QED
    BY <1>2, <1>3, <1>4, <1>6, <1>7, <1>8, SMT

LEMMA TurnFacts ==
  ASSUME Jst!StringConstants, NEW x \in Pieces, NEW t \in Seq(CharByte)
  PROVE  /\ Jst!Bad(x) => Jst!Turn(t, x) = Jst!Goes("failed", t, 0)
         /\ IsQuote(x) => Jst!Turn(t, x) = Jst!Goes("returned", t, 0)
         /\ IsHigh(x) => Jst!Turn(t, x) = Jst!Goes("low", t, x.n)
         /\ Plain(x) /\ x.kind # "byte" =>
              Jst!Turn(t, x) = Jst!Goes("read", Jst!Pushed(t, PieceCode(x)), 0)
         /\ Plain(x) /\ x.kind = "byte" =>
              Jst!Turn(t, x) = Jst!Goes("read", Append(t, x.n), 0)
  <1>1. /\ x.kind \in {"byte", "escape", "unit", "end"} /\ x.n \in Int
        /\ x.kind = "byte" => x.n \in CharByte
        /\ IsUnit(x) /\ x.n # -1 => x.n >= 0
        /\ IsHigh(x) => x.n # -1
        /\ x.kind = "unit" => IsUnit(x)
    BY PieceFacts, SMT DEF IsUnit
  <1>2. x.kind = "escape" /\ x.n \in DOMAIN Jst!Unescaped =>
          Append(t, Jst!Unescaped[x.n]) = Jst!Pushed(t, Jst!Unescaped[x.n])
    <2> SUFFICES ASSUME x.n \in Escape PROVE Append(t, Jst!Unescaped[x.n]) = Jst!Pushed(t, Jst!Unescaped[x.n])
      BY UnescapedFacts, SMT
    <2> DEFINE c == Jst!Unescaped[x.n]
    <2>1. c \in CharByte /\ Below2(c)
      BY UnescapedByte, CharByteFacts, SMT DEF Below2
    <2> HIDE DEF c
    <2>2. Append(t, c) = Jst!Pushed(t, c)
      BY <2>1, BytePushed
    <2>3. QED BY <2>2 DEF c
  <1> DEFINE dom == DOMAIN Jst!Unescaped
             esc == Jst!Unescaped[x.n]
             pushed == Jst!Pushed(t, x.n)
             escaped == Jst!Pushed(t, esc)
             added == Append(t, x.n)
             isHigh == Jst!High(x.n)
  <1>3. Jst!Turn(t, x) =
          CASE x.kind = "byte" /\ x.n = 34 -> Jst!Goes("returned", t, 0)
            [] x.kind = "byte" /\ x.n # 34 /\ x.n >= 32 -> Jst!Goes("read", added, 0)
            [] x.kind = "escape" /\ x.n \in dom -> Jst!Goes("read", Append(t, esc), 0)
            [] x.kind = "unit" /\ isHigh -> Jst!Goes("low", t, x.n)
            [] x.kind = "unit" /\ x.n >= 0 /\ ~isHigh -> Jst!Goes("read", pushed, 0)
            [] OTHER -> Jst!Goes("failed", t, 0)
    BY DEF Jst!Turn, Jst!Quote
  <1>4. /\ Jst!Bad(x) <=> \/ x.kind = "end" \/ x.n = -1
                          \/ x.kind = "byte" /\ x.n < 32
                          \/ x.kind = "escape" /\ x.n \notin dom
        /\ IsQuote(x) <=> x.kind = "byte" /\ x.n = 34
        /\ IsHigh(x) <=> x.kind = "unit" /\ isHigh
        /\ PieceCode(x) = IF x.kind = "escape" THEN esc ELSE x.n
        /\ Plain(x) <=> ~Jst!Bad(x) /\ ~IsQuote(x) /\ ~IsHigh(x)
    BY DEF Jst!Bad, IsQuote, Jst!Quote, IsHigh, IsUnit, PieceCode, Plain, Inner
  <1>6. -1 \notin dom
    BY UnescapedFacts, SMT DEF Escape
  <1>7. x.kind = "escape" /\ x.n \in dom => Append(t, esc) = escaped
    BY <1>2, Zenon
  <1>8. /\ x.kind = "escape" => Jst!Pushed(t, PieceCode(x)) = escaped
        /\ x.kind # "escape" => Jst!Pushed(t, PieceCode(x)) = pushed
    BY <1>4, Zenon
  <1> HIDE DEF dom, esc, pushed, escaped, added, isHigh
  <1> DEFINE turn == Jst!Turn(t, x)
             byte == x.kind = "byte"
             escape == x.kind = "escape"
             unit == x.kind = "unit"
             end == x.kind = "end"
  <1>9. /\ (byte \/ escape \/ unit \/ end) /\ ~(byte /\ escape) /\ ~(byte /\ unit)
        /\ ~(byte /\ end) /\ ~(escape /\ unit) /\ ~(escape /\ end) /\ ~(unit /\ end)
    BY <1>1
  <1>10. /\ byte /\ x.n = 34 => turn = Jst!Goes("returned", t, 0)
         /\ byte /\ x.n # 34 /\ x.n >= 32 => turn = Jst!Goes("read", added, 0)
         /\ escape /\ x.n \in dom => turn = Jst!Goes("read", Append(t, esc), 0)
         /\ unit /\ isHigh => turn = Jst!Goes("low", t, x.n)
         /\ unit /\ x.n >= 0 /\ ~isHigh => turn = Jst!Goes("read", pushed, 0)
         /\ \/ byte /\ x.n # 34 /\ ~(x.n >= 32)
            \/ escape /\ x.n \notin dom
            \/ unit /\ ~isHigh /\ ~(x.n >= 0)
            \/ end
            => turn = Jst!Goes("failed", t, 0)
    BY <1>3, <1>9, Zenon
  <1>11. ~(-1 >= 0) /\ ~(34 < 32) /\ ~(-1 >= 32)
         /\ (x.n >= 32 <=> ~(x.n < 32)) /\ (x.n = 34 => x.n # -1)
    BY <1>1
  <1>12. unit => (x.n # -1 => x.n >= 0) /\ (isHigh => x.n # -1)
    BY <1>1, <1>4, Zenon
  <1>13. byte => x.n # -1
    BY <1>1, CharByteFacts
  <1> HIDE DEF turn, byte, escape, unit, end
  <1>14. /\ Jst!Bad(x) <=> end \/ x.n = -1 \/ (byte /\ x.n < 32) \/ (escape /\ x.n \notin dom)
         /\ IsQuote(x) <=> byte /\ x.n = 34
         /\ IsHigh(x) <=> unit /\ isHigh
         /\ escape => Jst!Pushed(t, PieceCode(x)) = escaped
         /\ ~escape => Jst!Pushed(t, PieceCode(x)) = pushed
         /\ escape /\ x.n \in dom => Append(t, esc) = escaped
    BY <1>4, <1>7, <1>8, Zenon DEF byte, escape, unit, end
  <1>15. Jst!Bad(x) => turn = Jst!Goes("failed", t, 0)
    BY <1>6, <1>9, <1>10, <1>11, <1>12, <1>13, <1>14, Zenon
  <1>16. Plain(x) /\ ~byte => turn = Jst!Goes("read", Jst!Pushed(t, PieceCode(x)), 0)
    BY <1>4, <1>9, <1>10, <1>12, <1>14, Zenon
  <1>17. Plain(x) /\ byte => turn = Jst!Goes("read", added, 0)
    BY <1>4, <1>9, <1>10, <1>11, <1>14, Zenon
  <1>18. IsHigh(x) => turn = Jst!Goes("low", t, x.n)
    BY <1>10, <1>14, Zenon
  <1>19. IsQuote(x) => turn = Jst!Goes("returned", t, 0)
    BY <1>10, <1>14, Zenon
  <1>5. QED
    BY <1>15, <1>16, <1>17, <1>18, <1>19, Zenon DEF turn, byte, added

LEMMA PlainCode ==
  ASSUME Jst!StringConstants, NEW x \in Pieces, Plain(x), AsciiByte(x)
  PROVE  /\ PieceCode(x) = 0 \/ PieceCode(x) \in Code
         /\ IsLow(x) => Surrogate(PieceCode(x))
         /\ ~IsLow(x) => PieceCode(x) = 0 \/ Scalar(PieceCode(x))
  <1>1. x.kind # "end" /\ x.n # -1 /\ ~IsHigh(x)
        /\ (x.kind = "escape" => x.n \in DOMAIN Jst!Unescaped)
    BY DEF Plain, Inner, Jst!Bad
  <1>2. CASE x.kind = "byte"
    <2>1. x.n \in CharByte /\ Below2(x.n) /\ PieceCode(x) = x.n
      BY <1>2, PieceFacts, SMT DEF AsciiByte, PieceCode
    <2>2. Scalar(x.n) /\ x.n \in Code
      <3>1. <<>> \in Seq(CharByte)
        OBVIOUS
      <3>2. QED BY <2>1, <3>1, BytePushed
    <2>3. ~IsLow(x)
      BY <1>2 DEF IsLow, IsUnit
    <2>4. QED BY <2>1, <2>2, <2>3
  <1>3. CASE x.kind = "escape"
    <2>1. x.n \in Escape /\ PieceCode(x) = Jst!Unescaped[x.n]
      BY <1>1, <1>3, UnescapedFacts DEF PieceCode
    <2>2. Scalar(PieceCode(x)) /\ PieceCode(x) \in Code
      BY <2>1, UnescapedByte, SMT DEF Scalar, Code, Surrogate
    <2>3. ~IsLow(x)
      BY <1>3 DEF IsLow, IsUnit
    <2>4. QED BY <2>2, <2>3
  <1>4. CASE x.kind = "unit"
    <2>1. PieceCode(x) = x.n /\ IsUnit(x)
      BY <1>4 DEF PieceCode, IsUnit
    <2>2. QED BY <1>1, <2>1, PieceFacts DEF IsLow, IsHigh
  <1>5. QED BY <1>1, <1>2, <1>3, <1>4, PieceFacts

(* The surrogates of a text, and what one more piece changes of them. *)
Pending(s) == s # <<>> /\ IsHigh(s[Len(s)])
AllInner(s) == \A p \in 1..Len(s) : Inner(s[p])
HighLeft(s) == \E p \in 1..(Len(s) - 1) : IsHigh(s[p]) /\ ~IsLow(s[p + 1])

LEMMA SurrogatesOf ==
  ASSUME NEW s \in Seq(Pieces)
  PROVE  /\ Jst!LoneLow(s) <=> \E p \in 1..Len(s) : IsLow(s[p]) /\ ~(p > 1 /\ IsHigh(s[p - 1]))
         /\ Jst!HighRun(s) <=> \E p \in 1..(Len(s) - 1) : IsHigh(s[p]) /\ IsHigh(s[p + 1])
         /\ Jst!LoneHigh(s) <=> HighLeft(s) \/ Pending(s)
         /\ Jst!Ascii(s) <=> \A p \in 1..Len(s) : AsciiByte(s[p])
  <1>1. DOMAIN s = 1..Len(s) /\ Len(s) \in Nat /\ (s # <<>> <=> Len(s) # 0)
    BY EmptySeq
  <1>2. \A p \in Int : Jst!Unit(s, p) <=> p \in 1..Len(s) /\ IsUnit(s[p])
    BY <1>1, Zenon DEF Jst!Unit, IsUnit
  <1>3. \A p \in 1..Len(s) : p \in Int /\ p - 1 \in Int /\ p + 1 \in Int
    BY <1>1
  <1>4. \A p \in 1..Len(s) :
          /\ Jst!Unit(s, p) /\ Jst!High(s[p].n) <=> IsHigh(s[p])
          /\ Jst!Unit(s, p) /\ Jst!Low(s[p].n) <=> IsLow(s[p])
          /\ Jst!Unit(s, p - 1) /\ Jst!High(s[p - 1].n)
               <=> p - 1 \in 1..Len(s) /\ IsHigh(s[p - 1])
          /\ Jst!Unit(s, p + 1) /\ Jst!High(s[p + 1].n)
               <=> p + 1 \in 1..Len(s) /\ IsHigh(s[p + 1])
          /\ Jst!Unit(s, p + 1) /\ Jst!Low(s[p + 1].n)
               <=> p + 1 \in 1..Len(s) /\ IsLow(s[p + 1])
    BY <1>2, <1>3, Zenon DEF IsHigh, IsLow
  <1>5. \A p \in 1..Len(s) :
          /\ p - 1 \in 1..Len(s) <=> p > 1
          /\ p + 1 \in 1..Len(s) <=> p \in 1..(Len(s) - 1)
    BY <1>1
  <1>6. \A p \in 1..(Len(s) - 1) : p \in 1..Len(s)
    BY <1>1
  <1>7. Jst!LoneLow(s) <=> \E p \in 1..Len(s) : IsLow(s[p]) /\ ~(p > 1 /\ IsHigh(s[p - 1]))
    BY <1>1, <1>4, <1>5, Zenon DEF Jst!LoneLow
  <1>8. Jst!HighRun(s) <=> \E p \in 1..(Len(s) - 1) : IsHigh(s[p]) /\ IsHigh(s[p + 1])
    BY <1>1, <1>4, <1>5, <1>6, Zenon DEF Jst!HighRun
  <1>9. Jst!LoneHigh(s) <=>
          \E p \in 1..Len(s) : IsHigh(s[p]) /\ ~(p \in 1..(Len(s) - 1) /\ IsLow(s[p + 1]))
    BY <1>1, <1>4, <1>5, Zenon DEF Jst!LoneHigh
  <1>10. /\ \A p \in 1..Len(s) : p \in 1..(Len(s) - 1) \/ p = Len(s)
         /\ s # <<>> => Len(s) \in 1..Len(s) /\ Len(s) \notin 1..(Len(s) - 1)
         /\ \A p \in 1..Len(s) : s # <<>>
    <2> DEFINE n == Len(s)
    <2>1. n \in Nat /\ (s # <<>> <=> n # 0)
      BY <1>1
    <2> HIDE DEF n
    <2>2. /\ \A p \in 1..n : p \in 1..(n - 1) \/ p = n
          /\ n # 0 => n \in 1..n /\ n \notin 1..(n - 1)
          /\ \A p \in 1..n : n # 0
      BY <2>1
    <2>3. QED BY <2>1, <2>2, Zenon DEF n
  <1>11. Jst!LoneHigh(s) <=> HighLeft(s) \/ Pending(s)
    BY <1>6, <1>9, <1>10, Zenon DEF HighLeft, Pending
  <1>12. \A p \in 1..Len(s) : AsciiByte(s[p]) <=> (s[p].kind = "byte" => s[p].n < 128)
    BY SMT DEF AsciiByte, Below2
  <1>13. Jst!Ascii(s) <=> \A p \in 1..Len(s) : AsciiByte(s[p])
    BY <1>1, <1>12, SMT DEF Jst!Ascii
  <1>14. QED BY <1>7, <1>8, <1>11, <1>13, Zenon

LEMMA LongerText ==
  ASSUME NEW s \in Seq(Pieces), NEW x \in Pieces
  PROVE  /\ Append(s, x) \in Seq(Pieces) /\ Len(Append(s, x)) = Len(s) + 1 /\ Len(s) \in Nat
         /\ \A p \in 1..Len(s) : Append(s, x)[p] = s[p]
         /\ Append(s, x)[Len(s) + 1] = x
         /\ s # <<>> <=> Len(s) # 0
  BY EmptySeq

LEMMA SurrogatesOfLonger ==
  ASSUME NEW s \in Seq(Pieces), NEW x \in Pieces
  PROVE  /\ Jst!LoneLow(Append(s, x)) <=> Jst!LoneLow(s) \/ (IsLow(x) /\ ~Pending(s))
         /\ Jst!HighRun(Append(s, x)) <=> Jst!HighRun(s) \/ (IsHigh(x) /\ Pending(s))
         /\ HighLeft(Append(s, x)) <=> HighLeft(s) \/ (Pending(s) /\ ~IsLow(x))
         /\ Pending(Append(s, x)) <=> IsHigh(x)
         /\ AllInner(Append(s, x)) <=> AllInner(s) /\ Inner(x)
         /\ Jst!Ascii(Append(s, x)) <=> Jst!Ascii(s) /\ AsciiByte(x)
  <1> DEFINE t == Append(s, x)
             n == Len(s)
  <1>1. t \in Seq(Pieces) /\ Len(t) = n + 1 /\ n \in Nat
    BY LongerText
  <1>2. (\A p \in 1..n : t[p] = s[p]) /\ t[n + 1] = x /\ (s # <<>> <=> n # 0)
    BY LongerText
  <1>3. t # <<>>
    <2>1. Len(t) # 0
      BY <1>1
    <2>2. QED BY <2>1, NotEmpty, Zenon
  <1>4. /\ Jst!LoneLow(s) <=> \E p \in 1..n : IsLow(s[p]) /\ ~(p > 1 /\ IsHigh(s[p - 1]))
        /\ Jst!HighRun(s) <=> \E p \in 1..(n - 1) : IsHigh(s[p]) /\ IsHigh(s[p + 1])
        /\ Jst!Ascii(s) <=> \A p \in 1..n : AsciiByte(s[p])
    BY SurrogatesOf
  <1> HIDE DEF t
  <1>5. /\ Jst!LoneLow(t) <=> \E p \in 1..(n + 1) : IsLow(t[p]) /\ ~(p > 1 /\ IsHigh(t[p - 1]))
        /\ Jst!HighRun(t) <=> \E p \in 1..n : IsHigh(t[p]) /\ IsHigh(t[p + 1])
        /\ Jst!Ascii(t) <=> \A p \in 1..(n + 1) : AsciiByte(t[p])
    <2>1. n + 1 - 1 = n
      BY <1>1
    <2>2. /\ Jst!LoneLow(t) <=>
               \E p \in 1..Len(t) : IsLow(t[p]) /\ ~(p > 1 /\ IsHigh(t[p - 1]))
          /\ Jst!HighRun(t) <=> \E p \in 1..(Len(t) - 1) : IsHigh(t[p]) /\ IsHigh(t[p + 1])
          /\ Jst!Ascii(t) <=> \A p \in 1..Len(t) : AsciiByte(t[p])
      BY <1>1, SurrogatesOf
    <2>3. Len(t) = n + 1 /\ Len(t) - 1 = n
      BY <1>1
    <2>4. QED BY <2>2, <2>3, Zenon
  <1>6. /\ \A p \in 1..(n + 1) : p \in 1..n \/ p = n + 1
        /\ \A p \in 1..n : p \in 1..(n + 1) /\ (p > 1 => p - 1 \in 1..n)
        /\ \A p \in 1..n : p \in 1..(n - 1) \/ p = n
        /\ \A p \in 1..(n - 1) : p \in 1..n /\ p + 1 \in 1..n
        /\ n + 1 \in 1..(n + 1) /\ n + 1 - 1 = n
        /\ n # 0 => n \in 1..n /\ n + 1 > 1
        /\ n + 1 > 1 => n # 0
        /\ \A p \in 1..n : n # 0
    BY <1>1
  <1>7. Pending(s) <=> n # 0 /\ IsHigh(s[n])
    BY <1>2 DEF Pending
  <1> HIDE DEF n
  <1>8. \A p \in 1..n : p > 1 => t[p - 1] = s[p - 1]
    BY <1>2, <1>6, Zenon
  <1>9. \A p \in 1..(n - 1) : t[p + 1] = s[p + 1]
    BY <1>2, <1>6, Zenon
  <1>10. Jst!LoneLow(t) <=> Jst!LoneLow(s) \/ (IsLow(x) /\ ~Pending(s))
    <2>1. (\E p \in 1..(n + 1) : IsLow(t[p]) /\ ~(p > 1 /\ IsHigh(t[p - 1])))
           <=> \/ \E p \in 1..n : IsLow(t[p]) /\ ~(p > 1 /\ IsHigh(t[p - 1]))
               \/ IsLow(x) /\ ~(n # 0 /\ IsHigh(t[n]))
      <3> DEFINE Lone(p) == IsLow(t[p]) /\ ~(p > 1 /\ IsHigh(t[p - 1]))
      <3>1. Lone(n + 1) <=> IsLow(x) /\ ~(n # 0 /\ IsHigh(t[n]))
        <4>1. t[n + 1] = x /\ t[(n + 1) - 1] = t[n] /\ (n + 1 > 1 <=> n # 0)
          BY <1>1, <1>2 DEF n
        <4>2. (IsLow(t[n + 1]) <=> IsLow(x)) /\ (IsHigh(t[(n + 1) - 1]) <=> IsHigh(t[n]))
          BY <4>1, Zenon
        <4>3. QED BY <4>1, <4>2, Zenon
      <3> HIDE DEF Lone
      <3>2. (\E p \in 1..(n + 1) : Lone(p)) <=> (\E p \in 1..n : Lone(p)) \/ Lone(n + 1)
        BY <1>6, Zenon
      <3>3. QED BY <3>1, <3>2, Zenon DEF Lone
    <2>2. n # 0 => t[n] = s[n]
      BY <1>2, <1>6, Zenon
    <2>3. (\E p \in 1..n : IsLow(t[p]) /\ ~(p > 1 /\ IsHigh(t[p - 1])))
           <=> \E p \in 1..n : IsLow(s[p]) /\ ~(p > 1 /\ IsHigh(s[p - 1]))
      BY <1>2, <1>8, Zenon
    <2>4. QED BY <1>4, <1>5, <1>7, <2>1, <2>2, <2>3, Zenon
  <1>11. Jst!HighRun(t) <=> Jst!HighRun(s) \/ (IsHigh(x) /\ Pending(s))
    <2>1. (\E p \in 1..n : IsHigh(t[p]) /\ IsHigh(t[p + 1]))
           <=> \/ \E p \in 1..(n - 1) : IsHigh(s[p]) /\ IsHigh(s[p + 1])
               \/ n # 0 /\ IsHigh(s[n]) /\ IsHigh(x)
      BY <1>2, <1>6, <1>9, Zenon
    <2>2. QED BY <1>4, <1>5, <1>7, <2>1, Zenon
  <1>12. HighLeft(t) <=> HighLeft(s) \/ (Pending(s) /\ ~IsLow(x))
    <2>1. (\E p \in 1..n : IsHigh(t[p]) /\ ~IsLow(t[p + 1]))
           <=> \/ \E p \in 1..(n - 1) : IsHigh(s[p]) /\ ~IsLow(s[p + 1])
               \/ n # 0 /\ IsHigh(s[n]) /\ ~IsLow(x)
      BY <1>2, <1>6, <1>9, Zenon
    <2>2. Len(t) - 1 = n
      BY <1>1
    <2>3. QED BY <1>7, <2>1, <2>2, Zenon DEF HighLeft, n
  <1>13. Pending(t) <=> IsHigh(x)
    BY <1>1, <1>2, <1>3, Zenon DEF Pending
  <1>14. AllInner(t) <=> AllInner(s) /\ Inner(x)
    <2>1. (\A p \in 1..(n + 1) : Inner(t[p])) <=> (\A p \in 1..n : Inner(s[p])) /\ Inner(x)
      BY <1>2, <1>6, Zenon
    <2>2. QED BY <1>1, <2>1, Zenon DEF AllInner, n
  <1>15. Jst!Ascii(t) <=> Jst!Ascii(s) /\ AsciiByte(x)
    BY <1>2, <1>4, <1>5, <1>6, Zenon
  <1>16. QED BY <1>10, <1>11, <1>12, <1>13, <1>14, <1>15, Zenon DEF t

(* The characters of well-formed UTF-16, piece by piece. *)
Decoded(s, n, codes) ==
  IF (Jst!Unit(s, n) /\ Jst!High(s[n].n)) \/ Jst!CodeAt(s, n) = 0
  THEN codes ELSE Append(codes, Jst!CodeAt(s, n))
Decoding(f, s, n) ==
  f = [m \in 0..n |-> IF m = 0 THEN <<>> ELSE Decoded(s, m, f[m - 1])]
DecodedOf(s) == Jst!CodesUpTo(s)[Len(s)]

LEMMA DecodingExists ==
  ASSUME NEW s, NEW L \in Nat
  PROVE  \E f : Decoding(f, s, L)
  <1> DEFINE S == {n \in Nat : \E f : Decoding(f, s, n)}
  <1>1. 0 \in S
    <2> DEFINE f == [m \in 0..0 |-> <<>>]
    <2>1. f = [m \in 0..0 |-> IF m = 0 THEN <<>> ELSE Decoded(s, m, f[m - 1])]
      OBVIOUS
    <2> HIDE DEF f
    <2>2. QED BY <2>1 DEF Decoding
  <1>2. \A n \in 1..L : n - 1 \in S => n \in S
    <2> SUFFICES ASSUME NEW n \in 1..L, NEW f, Decoding(f, s, n - 1)
                 PROVE  \E g : Decoding(g, s, n)
      OBVIOUS
    <2> DEFINE g == [m \in 0..n |-> IF m < n THEN f[m] ELSE Decoded(s, n, f[n - 1])]
               h == [m \in 0..n |-> IF m = 0 THEN <<>> ELSE Decoded(s, m, g[m - 1])]
    <2>1. \A m \in 0..n : g[m] = h[m]
      <3> TAKE m \in 0..n
      <3>1. CASE m = 0
        BY <3>1 DEF Decoding
      <3>2. CASE m # 0 /\ m < n
        <4>1. m \in 0..(n - 1) /\ m - 1 \in 0..n /\ m - 1 < n
          BY <3>2
        <4>2. g[m] = f[m] /\ g[m - 1] = f[m - 1]
          BY <3>2, <4>1
        <4>3. f[m] = Decoded(s, m, f[m - 1])
          BY <3>2, <4>1 DEF Decoding
        <4>4. QED BY <3>2, <4>2, <4>3
      <3>3. CASE m = n
        <4>1. m - 1 \in 0..n /\ m - 1 < n /\ m # 0
          BY <3>3
        <4>2. g[m - 1] = f[m - 1]
          BY <4>1
        <4>3. QED BY <3>3, <4>1, <4>2
      <3>4. QED BY <3>1, <3>2, <3>3
    <2>2. g = h
      BY <2>1
    <2> HIDE DEF g
    <2>3. QED BY <2>2 DEF Decoding
  <1> HIDE DEF S
  <1>3. \A n \in 0..L : n \in S
    BY <1>1, <1>2, InductionUpTo
  <1>4. L \in S
    BY <1>3
  <1>5. QED BY <1>4 DEF S

LEMMA CodesUpToDecodes ==
  ASSUME NEW s, Len(s) \in Nat
  PROVE  /\ Jst!CodesUpTo(s)[0] = <<>>
         /\ \A n \in 1..Len(s) :
              Jst!CodesUpTo(s)[n] = Decoded(s, n, Jst!CodesUpTo(s)[n - 1])
  <1> DEFINE f == Jst!CodesUpTo(s)
             L == Len(s)
  <1>1. f = CHOOSE g : Decoding(g, s, L)
    BY Zenon DEF Jst!CodesUpTo, Decoding, Decoded
  <1> HIDE DEF f, L
  <1>2. L \in Nat
    BY DEF L
  <1>3. Decoding(f, s, L)
    BY <1>1, <1>2, DecodingExists
  <1>4. f = [m \in 0..L |-> IF m = 0 THEN <<>> ELSE Decoded(s, m, f[m - 1])]
    BY <1>3 DEF Decoding
  <1>5. 0 \in 0..L /\ \A n \in 1..L : n \in 0..L /\ n # 0
    BY <1>2
  <1>6. f[0] = <<>> /\ \A n \in 1..L : f[n] = Decoded(s, n, f[n - 1])
    BY <1>4, <1>5, Zenon
  <1>7. QED BY <1>6 DEF f, L

LEMMA DecodedOfEmpty == DecodedOf(<<>>) = <<>>
  <1>1. Len(<<>>) = 0
    OBVIOUS
  <1>2. QED BY <1>1, CodesUpToDecodes DEF DecodedOf

LEMMA DecodedOfLonger ==
  ASSUME NEW s \in Seq(Pieces), NEW x \in Pieces, ~Jst!LoneLow(Append(s, x))
  PROVE  /\ Jst!CodesUpTo(Append(s, x))[Len(s)] = DecodedOf(s)
         /\ DecodedOf(Append(s, x)) = Decoded(Append(s, x), Len(s) + 1, DecodedOf(s))
  <1> DEFINE t == Append(s, x)
             n == Len(s)
             f == Jst!CodesUpTo(s)
             g == Jst!CodesUpTo(t)
             S == {m \in 0..n : f[m] = g[m]}
  <1>1. /\ t \in Seq(Pieces) /\ Len(t) = n + 1 /\ n \in Nat
        /\ \A p \in 1..n : t[p] = s[p]
    BY LongerText
  <1>2. DOMAIN s = 1..n /\ DOMAIN t = 1..(n + 1)
    BY <1>1
  <1> HIDE DEF t
  <1>3. \A p \in 1..(n + 1) : IsLow(t[p]) => p > 1 /\ IsHigh(t[p - 1])
    <2>1. ~Jst!LoneLow(t)
      BY DEF t
    <2>2. Jst!LoneLow(t) <=> \E p \in 1..Len(t) : IsLow(t[p]) /\ ~(p > 1 /\ IsHigh(t[p - 1]))
      BY <1>1, SurrogatesOf
    <2>3. 1..Len(t) = 1..(n + 1)
      BY <1>1
    <2>4. QED BY <2>1, <2>2, <2>3, Zenon
  <1>4. \A p \in 1..n : \A codes : Decoded(s, p, codes) = Decoded(t, p, codes)
    <2> TAKE p \in 1..n
    <2>1. t[p] = s[p] /\ (Jst!Unit(s, p) <=> Jst!Unit(t, p)) /\ (Jst!Unit(t, p) => IsUnit(t[p]))
          /\ p \in 1..(n + 1)
      <3>1. p \in 1..(n + 1)
        BY <1>1
      <3>2. QED BY <1>1, <1>2, <3>1 DEF Jst!Unit, IsUnit
    <2>2. Jst!Unit(t, p) /\ Jst!Low(t[p].n) => t[p - 1] = s[p - 1]
      <3> SUFFICES ASSUME Jst!Unit(t, p), Jst!Low(t[p].n) PROVE t[p - 1] = s[p - 1]
        OBVIOUS
      <3>1. IsLow(t[p])
        BY <2>1 DEF IsLow
      <3>2. p > 1
        BY <1>3, <2>1, <3>1
      <3>3. p - 1 \in 1..n
        BY <1>1, <3>2
      <3>4. QED BY <1>1, <3>3
    <2>3. Jst!CodeAt(s, p) = Jst!CodeAt(t, p)
      BY <2>1, <2>2, SMT DEF Jst!CodeAt
    <2>4. QED BY <2>1, <2>3, Zenon DEF Decoded
  <1>5. /\ f[0] = <<>> /\ g[0] = <<>>
        /\ \A m \in 1..n : f[m] = Decoded(s, m, f[m - 1])
        /\ \A m \in 1..(n + 1) : g[m] = Decoded(t, m, g[m - 1])
    <2>1. f[0] = <<>> /\ \A m \in 1..n : f[m] = Decoded(s, m, f[m - 1])
      BY <1>1, CodesUpToDecodes
    <2>2. Len(t) \in Nat
      BY <1>1
    <2>3. g[0] = <<>> /\ \A m \in 1..Len(t) : g[m] = Decoded(t, m, g[m - 1])
      BY <2>2, CodesUpToDecodes
    <2>4. 1..Len(t) = 1..(n + 1)
      BY <1>1
    <2>5. QED BY <2>1, <2>3, <2>4, Zenon
  <1>10. /\ DecodedOf(s) = f[n]
         /\ DecodedOf(t) = g[n + 1]
         /\ Jst!CodesUpTo(t)[n] = g[n]
    BY <1>1 DEF DecodedOf
  <1> HIDE DEF n, f, g
  <1>6. 0 \in S
    <2>1. 0 \in 0..n
      BY <1>1
    <2>2. QED BY <1>5, <2>1
  <1>7. ASSUME NEW m \in 1..n, m - 1 \in S PROVE m \in S
    <2>1. m \in 0..n /\ m \in 1..(n + 1) /\ f[m - 1] = g[m - 1]
      BY <1>1, <1>7
    <2>2. f[m] = g[m]
      BY <1>4, <1>5, <2>1, Zenon
    <2>3. QED BY <2>1, <2>2
  <1> HIDE DEF S
  <1>8. \A m \in 0..n : m \in S
    BY <1>1, <1>6, <1>7, InductionUpTo
  <1>9. f[n] = g[n] /\ g[n + 1] = Decoded(t, n + 1, g[n])
    <2>1. n \in 0..n /\ n + 1 \in 1..(n + 1) /\ (n + 1) - 1 = n
      BY <1>1
    <2>2. n \in S
      BY <1>8, <2>1
    <2>3. f[n] = g[n]
      BY <2>2 DEF S
    <2>4. g[n + 1] = Decoded(t, n + 1, g[(n + 1) - 1])
      BY <1>5, <2>1, Zenon
    <2>5. QED BY <2>1, <2>3, <2>4, Zenon
  <1>11. QED BY <1>9, <1>10, Zenon DEF t, n

LEMMA PairIsScalar ==
  ASSUME NEW a \in Int, NEW b \in Int, Jst!High(a), Jst!Low(b)
  PROVE  /\ Scalar(Jst!Paired(a, b))
         /\ Jst!Paired(a, b) = ((a % 1024) * 1024) + (b % 1024) + 65536
         /\ Jst!Paired(a, b) # 0
  <1> DEFINE p == a - 55296
             q == b - 56320
  <1>1. /\ 55296 <= a /\ a <= 56319 /\ 56320 <= b /\ b <= 57343
    BY SMT DEF Jst!High, Jst!Low
  <1>2. p \in Nat /\ p < 1024 /\ q \in Nat /\ q < 1024 /\ a = 54 * 1024 + p /\ b = 55 * 1024 + q
    BY <1>1, SMT
  <1>3. a % 1024 = p /\ b % 1024 = q
    BY <1>2, SMT
  <1>4. Jst!Paired(a, b) = 65536 + p * 1024 + q
    BY SMT DEF Jst!Paired
  <1> HIDE DEF p, q
  <1>5. Jst!Paired(a, b) \in Nat /\ 65536 <= Jst!Paired(a, b) /\ Jst!Paired(a, b) <= 1114111
    BY <1>2, <1>4, SMT
  <1>6. Scalar(Jst!Paired(a, b)) /\ Jst!Paired(a, b) # 0
    BY <1>5, SMT DEF Scalar, Surrogate, Code
  <1>7. Jst!Paired(a, b) = ((a % 1024) * 1024) + (b % 1024) + 65536
    BY <1>2, <1>3, <1>4, SMT
  <1>8. QED BY <1>6, <1>7, SMT

LEMMA CodeAdded ==
  ASSUME Jst!StringConstants, NEW s \in Seq(Pieces), NEW x \in Pieces,
         Inner(x), ~Jst!LoneLow(Append(s, x))
  PROVE  /\ IsHigh(x) => DecodedOf(Append(s, x)) = DecodedOf(s)
         /\ IsLow(x) =>
              /\ Pending(s) /\ Scalar(Jst!Paired(s[Len(s)].n, x.n))
              /\ DecodedOf(Append(s, x)) =
                   Append(DecodedOf(s), Jst!Paired(s[Len(s)].n, x.n))
         /\ ~IsHigh(x) /\ ~IsLow(x) =>
              DecodedOf(Append(s, x)) =
                IF PieceCode(x) = 0 THEN DecodedOf(s) ELSE Append(DecodedOf(s), PieceCode(x))
  <1> DEFINE t == Append(s, x)
             n == Len(s)
  <1>1. /\ t \in Seq(Pieces) /\ Len(t) = n + 1 /\ n \in Nat
        /\ t[n + 1] = x /\ DOMAIN t = 1..(n + 1) /\ n + 1 \in 1..(n + 1)
        /\ \A p \in 1..n : t[p] = s[p]
    <2>1. t \in Seq(Pieces) /\ Len(t) = n + 1 /\ n \in Nat /\ t[n + 1] = x
          /\ \A p \in 1..n : t[p] = s[p]
      BY LongerText
    <2>2. QED BY <2>1
  <1>2. DecodedOf(t) = Decoded(t, n + 1, DecodedOf(s))
    BY DecodedOfLonger
  <1>3. IsLow(x) => Pending(s)
    <2>1. Jst!LoneLow(t) <=> Jst!LoneLow(s) \/ (IsLow(x) /\ ~Pending(s))
      BY SurrogatesOfLonger
    <2>2. QED BY <2>1
  <1> HIDE DEF t
  <1>4. Jst!Unit(t, n + 1) <=> IsUnit(x)
    BY <1>1 DEF Jst!Unit, IsUnit
  <1>5. Jst!CodeAt(t, n + 1) =
          IF x.kind = "escape" THEN Jst!Unescaped[x.n]
          ELSE IF IsLow(x) THEN ((t[n].n % 1024) * 1024) + (x.n % 1024) + 65536
          ELSE x.n
    <2>1. (n + 1) - 1 = n
      BY <1>1
    <2>2. QED BY <1>1, <1>4, <2>1, SMT DEF Jst!CodeAt, IsLow
  <1>6. Decoded(t, n + 1, DecodedOf(s)) =
          IF IsHigh(x) \/ Jst!CodeAt(t, n + 1) = 0 THEN DecodedOf(s)
          ELSE Append(DecodedOf(s), Jst!CodeAt(t, n + 1))
    BY <1>1, <1>4, Zenon DEF Decoded, IsHigh
  <1>7. IsHigh(x) => DecodedOf(t) = DecodedOf(s)
    BY <1>2, <1>6, Zenon
  <1>8. ASSUME IsLow(x)
        PROVE  /\ Scalar(Jst!Paired(s[n].n, x.n))
               /\ DecodedOf(t) = Append(DecodedOf(s), Jst!Paired(s[n].n, x.n))
    <2>1. n \in 1..n /\ IsHigh(s[n])
      <3>1. s # <<>> /\ IsHigh(s[n])
        BY <1>3, <1>8 DEF Pending
      <3>2. n # 0
        BY <3>1, LongerText
      <3>3. QED BY <1>1, <3>1, <3>2
    <2>2. s[n] \in Pieces /\ t[n] = s[n]
      BY <1>1, <2>1, ElementOfSeq, Zenon
    <2>3. s[n].n \in Int /\ x.n \in Int /\ Jst!High(s[n].n) /\ Jst!Low(x.n)
          /\ ~IsHigh(x) /\ x.kind # "escape"
      <3>1. s[n].n \in Int /\ x.n \in Int
        BY <2>2, PieceFacts
      <3>2. Jst!High(s[n].n) /\ Jst!Low(x.n) /\ x.kind # "escape"
        BY <1>8, <2>1 DEF IsHigh, IsLow, IsUnit
      <3>3. ~IsHigh(x)
        BY <3>2, PieceFacts DEF IsHigh
      <3>4. QED BY <3>1, <3>2, <3>3
    <2> DEFINE a == s[n].n
               b == x.n
    <2>4. /\ Scalar(Jst!Paired(a, b)) /\ Jst!Paired(a, b) # 0
          /\ Jst!Paired(a, b) = ((a % 1024) * 1024) + (b % 1024) + 65536
      BY <2>3, PairIsScalar, SMT
    <2>5. Jst!CodeAt(t, n + 1) = Jst!Paired(a, b)
      BY <1>5, <1>8, <2>2, <2>3, <2>4, SMT
    <2>7. Scalar(Jst!Paired(a, b)) /\ Jst!Paired(a, b) # 0
      BY <2>4, SMT
    <2>6. QED BY <1>2, <1>6, <2>3, <2>5, <2>7, Zenon
  <1>9. ~IsHigh(x) /\ ~IsLow(x) =>
          DecodedOf(t) = IF PieceCode(x) = 0 THEN DecodedOf(s)
                         ELSE Append(DecodedOf(s), PieceCode(x))
    <2>1. ~IsLow(x) => Jst!CodeAt(t, n + 1) = PieceCode(x)
      BY <1>5, SMT DEF PieceCode
    <2>2. QED BY <1>2, <1>6, <2>1, Zenon
  <1>10. QED BY <1>3, <1>7, <1>8, <1>9, Zenon DEF t, n
-----------------------------------------------------------------------------
(* What the bytes so far are to the pieces so far. *)
Parts(s, t) ==
    /\ ~Jst!HighRun(s) /\ ~Jst!LoneLow(s) => Closed(t)
    /\ ~Jst!HighRun(s) /\ Jst!LoneLow(s) => Stuck(t)
Decodes(s, t) ==
    /\ Parts(s, t)
    /\ ~Jst!LoneLow(s) /\ ~HighLeft(s) => Codes(t) = DecodedOf(s)

(* ... when the string has ended. *)
Result(s, t) ==
    /\ ~Jst!HighRun(s) => (Jst!WellFormed(t) <=> ~Jst!LoneLow(s))
    /\ ~Jst!LoneLow(s) /\ ~Jst!LoneHigh(s) =>
         Jst!CodesOf(Jst!Chars(t).chars) = Jst!CodesUpTo(s)[Len(s) - 1]

LEMMA RunIsLeft ==
  ASSUME Jst!StringConstants, NEW s \in Seq(Pieces), Jst!HighRun(s)
  PROVE  HighLeft(s)
  <1>1. PICK p \in 1..(Len(s) - 1) : IsHigh(s[p]) /\ IsHigh(s[p + 1])
    BY SurrogatesOf
  <1>2. p + 1 \in 1..Len(s)
    OBVIOUS
  <1>3. s[p + 1] \in Pieces
    BY <1>2, ElementOfSeq, Zenon
  <1>4. ~IsLow(s[p + 1])
    BY <1>1, <1>3, PieceFacts DEF IsHigh, IsLow
  <1>5. QED BY <1>1, <1>4 DEF HighLeft

(* A scalar or nothing, pushed behind what is not alone. *)
LEMMA PartsPushed ==
  ASSUME NEW s, NEW s2, NEW t \in Seq(CharByte), NEW c, c = 0 \/ Scalar(c), Parts(s, t),
         Jst!HighRun(s) => Jst!HighRun(s2), Jst!LoneLow(s) <=> Jst!LoneLow(s2)
  PROVE  Parts(s2, Jst!Pushed(t, c))
  <1>1. c = 0 \/ c \in Code
    BY DEF Scalar
  <1>2. CASE Jst!HighRun(s2)
    BY <1>2 DEF Parts
  <1>3. CASE ~Jst!HighRun(s2) /\ ~Jst!LoneLow(s2)
    BY <1>3, ScalarPushed DEF Parts
  <1>4. CASE ~Jst!HighRun(s2) /\ Jst!LoneLow(s2)
    BY <1>1, <1>4, StuckPushed DEF Parts
  <1>5. QED BY <1>2, <1>3, <1>4

LEMMA PlainDecodes ==
  ASSUME Jst!StringConstants, NEW s \in Seq(Pieces), NEW x \in Pieces, NEW t \in Seq(CharByte),
         Plain(x), AsciiByte(x), Parts(s, t),
         ~Jst!LoneLow(s) /\ ~HighLeft(Append(s, x)) => Codes(t) = DecodedOf(s),
         IsUnit(x) /\ ~Jst!HighRun(s) => ~Pending(s)
  PROVE  Decodes(Append(s, x), Jst!Pushed(t, PieceCode(x)))
  <1> DEFINE s2 == Append(s, x)
             c == PieceCode(x)
             t2 == Jst!Pushed(t, c)
  <1>1. /\ c = 0 \/ c \in Code
        /\ IsLow(x) => Surrogate(c)
        /\ ~IsLow(x) => c = 0 \/ Scalar(c)
    BY PlainCode
  <1>2. /\ Jst!LoneLow(s2) <=> Jst!LoneLow(s) \/ (IsLow(x) /\ ~Pending(s))
        /\ Jst!HighRun(s2) <=> Jst!HighRun(s) \/ (IsHigh(x) /\ Pending(s))
        /\ HighLeft(s2) <=> HighLeft(s) \/ (Pending(s) /\ ~IsLow(x))
    BY SurrogatesOfLonger
  <1>3. ~IsHigh(x) /\ Inner(x) /\ (IsLow(x) => IsUnit(x))
    BY DEF Plain, IsLow
  <1>4. Jst!HighRun(s2) => HighLeft(s2)
    <2>1. s2 \in Seq(Pieces)
      BY LongerText
    <2>2. QED BY <2>1, RunIsLeft
  <1>5. CASE IsLow(x)
    <2>1. CASE Jst!HighRun(s2)
      BY <1>4, <2>1 DEF Decodes, Parts
    <2>2. CASE ~Jst!HighRun(s2)
      <3>1. ~Pending(s) /\ ~Jst!HighRun(s) /\ Jst!LoneLow(s2)
        BY <1>2, <1>3, <1>5, <2>2
      <3>2. Stuck(t2)
        <4>1. CASE Jst!LoneLow(s)
          BY <1>1, <3>1, <4>1, StuckPushed DEF Parts
        <4>2. CASE ~Jst!LoneLow(s)
          <5>1. Closed(t)
            BY <3>1, <4>2 DEF Parts
          <5>2. Surrogate(c)
            BY <1>1, <1>5
          <5>3. QED BY <5>1, <5>2, SurrogatePushed
        <4>3. QED BY <4>1, <4>2
      <3>3. QED BY <3>1, <3>2 DEF Decodes, Parts
    <2>3. QED BY <2>1, <2>2
  <1>6. CASE ~IsLow(x)
    <2>1. (Jst!LoneLow(s2) <=> Jst!LoneLow(s)) /\ (Jst!HighRun(s) => Jst!HighRun(s2))
      BY <1>2, <1>6
    <2>2. Parts(s2, t2)
      BY <1>1, <1>6, <2>1, PartsPushed
    <2>3. ASSUME ~Jst!LoneLow(s2), ~HighLeft(s2) PROVE Codes(t2) = DecodedOf(s2)
      <3>1. Codes(t) = DecodedOf(s) /\ ~Jst!HighRun(s) /\ ~Jst!LoneLow(s)
        BY <1>2, <1>4, <2>1, <2>3
      <3>2. Closed(t)
        BY <3>1 DEF Parts
      <3>3. Codes(t2) = IF c = 0 THEN Codes(t) ELSE Append(Codes(t), c)
        BY <1>1, <1>6, <3>2, ScalarPushed
      <3>4. DecodedOf(s2) = IF c = 0 THEN DecodedOf(s) ELSE Append(DecodedOf(s), c)
        BY <1>3, <1>6, <2>3, CodeAdded
      <3>5. QED BY <3>1, <3>3, <3>4, Zenon
    <2>4. QED BY <2>2, <2>3 DEF Decodes
  <1>7. QED BY <1>5, <1>6

LEMMA HighDecodes ==
  ASSUME Jst!StringConstants, NEW s \in Seq(Pieces), NEW x \in Pieces, NEW t \in Seq(CharByte),
         Inner(x), IsHigh(x), Decodes(s, t)
  PROVE  Decodes(Append(s, x), t)
  <1> DEFINE s2 == Append(s, x)
  <1>1. /\ Jst!LoneLow(s2) <=> Jst!LoneLow(s) \/ (IsLow(x) /\ ~Pending(s))
        /\ Jst!HighRun(s2) <=> Jst!HighRun(s) \/ (IsHigh(x) /\ Pending(s))
        /\ HighLeft(s2) <=> HighLeft(s) \/ (Pending(s) /\ ~IsLow(x))
    BY SurrogatesOfLonger
  <1>2. ~IsLow(x)
    BY PieceFacts DEF IsHigh, IsLow
  <1>3. Parts(s2, t)
    BY <1>1, <1>2 DEF Decodes, Parts
  <1>4. ~Jst!LoneLow(s2) /\ ~HighLeft(s2) => Codes(t) = DecodedOf(s2)
    BY <1>1, <1>2, CodeAdded DEF Decodes
  <1>5. QED BY <1>3, <1>4 DEF Decodes

LEMMA PairDecodes ==
  ASSUME Jst!StringConstants, NEW s \in Seq(Pieces), NEW x \in Pieces, NEW t \in Seq(CharByte),
         Inner(x), IsLow(x), Pending(s), Decodes(s, t)
  PROVE  Decodes(Append(s, x), Jst!Pushed(t, Jst!Paired(s[Len(s)].n, x.n)))
  <1> DEFINE s2 == Append(s, x)
             c == Jst!Paired(s[Len(s)].n, x.n)
             t2 == Jst!Pushed(t, c)
  <1>1. /\ Jst!LoneLow(s2) <=> Jst!LoneLow(s) \/ (IsLow(x) /\ ~Pending(s))
        /\ Jst!HighRun(s2) <=> Jst!HighRun(s) \/ (IsHigh(x) /\ Pending(s))
        /\ HighLeft(s2) <=> HighLeft(s) \/ (Pending(s) /\ ~IsLow(x))
    BY SurrogatesOfLonger
  <1>2. ~IsHigh(x)
    BY PieceFacts DEF IsHigh, IsLow
  <1>3. Scalar(c) /\ c # 0
    <2>1. s # <<>> /\ IsHigh(s[Len(s)])
      BY DEF Pending
    <2>2. Len(s) \in 1..Len(s)
      BY <2>1, LongerText
    <2>3. s[Len(s)] \in Pieces
      BY <2>2, ElementOfSeq, Zenon
    <2>4. s[Len(s)].n \in Int /\ x.n \in Int
      BY <2>3, PieceFacts
    <2>5. Jst!High(s[Len(s)].n) /\ Jst!Low(x.n)
      BY <2>1 DEF IsHigh, IsLow
    <2>6. QED BY <2>4, <2>5, PairIsScalar
  <1> HIDE DEF c
  <1>4. Parts(s2, t2)
    BY <1>1, <1>2, <1>3, PartsPushed DEF Decodes
  <1>5. ASSUME ~Jst!LoneLow(s2), ~HighLeft(s2) PROVE Codes(t2) = DecodedOf(s2)
    <2>1. ~Jst!LoneLow(s) /\ ~HighLeft(s) /\ Codes(t) = DecodedOf(s)
      BY <1>1, <1>5 DEF Decodes
    <2>2. Closed(t)
      BY <2>1, RunIsLeft DEF Decodes, Parts
    <2>3. Codes(t2) = Append(Codes(t), c)
      BY <1>3, <2>2, ScalarPushed
    <2>4. DecodedOf(s2) = Append(DecodedOf(s), c)
      BY <1>5, CodeAdded DEF c
    <2>5. QED BY <2>1, <2>3, <2>4, Zenon
  <1>6. QED BY <1>4, <1>5 DEF Decodes, c

LEMMA ReplacedDecodes ==
  ASSUME Jst!StringConstants, NEW s \in Seq(Pieces), NEW x \in Pieces, NEW t \in Seq(CharByte),
         ~IsLow(x), Pending(s), Decodes(s, t)
  PROVE  Decodes(Append(s, x), Jst!Pushed(t, Jst!Replacement))
  <1> DEFINE s2 == Append(s, x)
             c == Jst!Replacement
  <1>1. /\ Jst!LoneLow(s2) <=> Jst!LoneLow(s) \/ (IsLow(x) /\ ~Pending(s))
        /\ Jst!HighRun(s2) <=> Jst!HighRun(s) \/ (IsHigh(x) /\ Pending(s))
        /\ HighLeft(s2) <=> HighLeft(s) \/ (Pending(s) /\ ~IsLow(x))
    BY SurrogatesOfLonger
  <1>2. Scalar(c)
    BY SMT DEF Jst!Replacement, Scalar, Surrogate, Code
  <1> HIDE DEF c
  <1>3. Parts(s2, Jst!Pushed(t, c))
    BY <1>1, <1>2, PartsPushed DEF Decodes
  <1>4. QED BY <1>1, <1>3 DEF Decodes, c

LEMMA QuoteEnds ==
  ASSUME Jst!StringConstants, NEW s \in Seq(Pieces), NEW x \in Pieces, NEW t \in Seq(CharByte),
         IsQuote(x), Parts(s, t),
         ~Jst!LoneLow(s) /\ ~HighLeft(Append(s, x)) => Codes(t) = DecodedOf(s)
  PROVE  Result(Append(s, x), t)
  <1> DEFINE s2 == Append(s, x)
  <1>1. /\ Jst!LoneLow(s2) <=> Jst!LoneLow(s) \/ (IsLow(x) /\ ~Pending(s))
        /\ Jst!HighRun(s2) <=> Jst!HighRun(s) \/ (IsHigh(x) /\ Pending(s))
        /\ Pending(s2) <=> IsHigh(x)
    BY SurrogatesOfLonger
  <1>2. ~IsLow(x) /\ ~IsHigh(x)
    BY DEF IsQuote, IsLow, IsHigh, IsUnit
  <1>3. Jst!LoneHigh(s2) <=> HighLeft(s2)
    <2>1. s2 \in Seq(Pieces)
      BY LongerText
    <2>2. Jst!LoneHigh(s2) <=> HighLeft(s2) \/ Pending(s2)
      BY <2>1, SurrogatesOf
    <2>3. QED BY <1>1, <1>2, <2>2
  <1>4. Jst!Chars(t) = Utf!Chars(t)
    BY SameChars
  <1>5. ~Jst!HighRun(s2) => (Jst!WellFormed(t) <=> ~Jst!LoneLow(s2))
    <2>1. Closed(t) => Jst!WellFormed(t)
      BY <1>4 DEF Closed, Jst!WellFormed
    <2>2. Stuck(t) => ~Jst!WellFormed(t)
      BY <1>4 DEF Stuck, Jst!WellFormed
    <2>3. QED BY <1>1, <1>2, <2>1, <2>2 DEF Parts
  <1>6. ASSUME ~Jst!LoneLow(s2), ~Jst!LoneHigh(s2)
        PROVE  Jst!CodesOf(Jst!Chars(t).chars) = Jst!CodesUpTo(s2)[Len(s2) - 1]
    <2>1. Codes(t) = DecodedOf(s)
      BY <1>1, <1>3, <1>6
    <2>2. Jst!CodesUpTo(s2)[Len(s)] = DecodedOf(s)
      BY <1>6, DecodedOfLonger
    <2>3. Len(s2) - 1 = Len(s)
      BY LongerText
    <2>4. Jst!CodesOf(Jst!Chars(t).chars) = Codes(t)
      BY <1>4, Zenon DEF Codes
    <2>5. QED BY <2>1, <2>2, <2>3, <2>4, Zenon
  <1>7. QED BY <1>5, <1>6 DEF Result

(* parse_string() keeps what it has read and what it has written of it      *)
(* together: a high surrogate is pending while its second half is looked    *)
(* for, and nowhere else but behind a run of them.                          *)
StringInv ==
    /\ string_pc \in {"idle", "read", "low", "returned", "failed"}
    /\ source \in Seq(Pieces) /\ out \in Seq(CharByte)
    /\ high = 0 \/ Jst!High(high)
    /\ string_pc = "idle" => source = <<>> /\ out = <<>>
    /\ string_pc \in {"read", "low"} =>
         AllInner(source) /\ (Jst!Ascii(source) => Decodes(source, out))
    /\ string_pc = "read" /\ ~Jst!HighRun(source) => ~Pending(source)
    /\ string_pc = "low" => Pending(source) /\ high = source[Len(source)].n
    /\ string_pc \in {"returned", "failed"} =>
         \A p \in 1..(Len(source) - 1) : Inner(source[p])
    /\ string_pc = "failed" => Jst!Bad(Jst!Last(source))
    /\ string_pc = "returned" /\ Jst!Ascii(source) => Result(source, out)

(* A turn of the loop ends the string, or goes on with it. *)
Ended(s, x, r) ==
    /\ r.pc \in {"returned", "failed"} /\ r.out \in Seq(CharByte) /\ r.high = 0
    /\ r.pc = "failed" => Jst!Bad(x)
    /\ r.pc = "returned" /\ Jst!Ascii(Append(s, x)) => Result(Append(s, x), r.out)
GoneOn(s, x, r) ==
    /\ r.pc \in {"read", "low"} /\ r.out \in Seq(CharByte) /\ Inner(x)
    /\ Jst!Ascii(Append(s, x)) => Decodes(Append(s, x), r.out)
    /\ r.pc = "read" => r.high = 0 /\ (~Jst!HighRun(Append(s, x)) => ~Pending(Append(s, x)))
    /\ r.pc = "low" => IsHigh(x) /\ r.high = x.n

LEMMA TurnGoes ==
  ASSUME Jst!StringConstants, NEW s \in Seq(Pieces), NEW x \in Pieces, NEW t \in Seq(CharByte),
         Jst!Ascii(s) => Parts(s, t),
         Jst!Ascii(s) /\ ~Jst!LoneLow(s) /\ ~HighLeft(Append(s, x)) => Codes(t) = DecodedOf(s),
         IsUnit(x) /\ ~Jst!HighRun(s) => ~Pending(s)
  PROVE  Ended(s, x, Jst!Turn(t, x)) \/ GoneOn(s, x, Jst!Turn(t, x))
  <1> DEFINE r == Jst!Turn(t, x)
             s2 == Append(s, x)
  <1>1. /\ Jst!HighRun(s2) <=> Jst!HighRun(s) \/ (IsHigh(x) /\ Pending(s))
        /\ HighLeft(s2) <=> HighLeft(s) \/ (Pending(s) /\ ~IsLow(x))
        /\ Pending(s2) <=> IsHigh(x)
        /\ Jst!Ascii(s2) <=> Jst!Ascii(s) /\ AsciiByte(x)
    BY SurrogatesOfLonger
  <1>2. CASE Jst!Bad(x)
    <2>1. r.pc = "failed" /\ r.out = t /\ r.high = 0
      BY <1>2, TurnFacts DEF Jst!Goes
    <2>2. QED BY <1>2, <2>1 DEF Ended
  <1>3. CASE IsQuote(x)
    <2>1. r.pc = "returned" /\ r.out = t /\ r.high = 0
      BY <1>3, TurnFacts DEF Jst!Goes
    <2>2. Jst!Ascii(s2) => Result(s2, t)
      BY <1>1, <1>3, QuoteEnds
    <2>3. QED BY <2>1, <2>2 DEF Ended
  <1>4. CASE Inner(x) /\ IsHigh(x)
    <2>1. r.pc = "low" /\ r.out = t /\ r.high = x.n
      BY <1>4, TurnFacts DEF Jst!Goes
    <2>2. Jst!Ascii(s) => Decodes(s, t)
      <3>1. IsUnit(x)
        BY <1>4 DEF IsHigh
      <3>2. Jst!HighRun(s) => HighLeft(s)
        BY RunIsLeft
      <3>3. QED BY <1>1, <3>1, <3>2 DEF Decodes
    <2>3. Jst!Ascii(s2) => Decodes(s2, t)
      BY <1>1, <1>4, <2>2, HighDecodes
    <2>4. QED BY <1>4, <2>1, <2>3 DEF GoneOn
  <1>5. CASE Plain(x)
    <2>1. r.pc = "read" /\ r.high = 0
          /\ (x.kind # "byte" => r.out = Jst!Pushed(t, PieceCode(x)))
          /\ (x.kind = "byte" => r.out = Append(t, x.n))
      <3>1. CASE x.kind = "byte"
        BY <1>5, <3>1, TurnFacts DEF Jst!Goes
      <3>2. CASE x.kind # "byte"
        BY <1>5, <3>2, TurnFacts DEF Jst!Goes
      <3>3. QED BY <3>1, <3>2
    <2>2. x.kind = "byte" => x.n \in CharByte
      BY PieceFacts
    <2>3. r.out \in Seq(CharByte)
      <3>1. CASE x.kind = "byte"
        <4>1. Append(t, x.n) \in Seq(CharByte)
          BY <2>2, <3>1
        <4>2. QED BY <2>1, <3>1, <4>1
      <3>2. CASE x.kind # "byte"
        <4>1. AsciiByte(x)
          BY <3>2 DEF AsciiByte
        <4>2. PieceCode(x) = 0 \/ PieceCode(x) \in Code
          BY <1>5, <4>1, PlainCode
        <4>3. QED BY <2>1, <3>2, <4>2, PushedText
      <3>3. QED BY <3>1, <3>2
    <2>4. ASSUME Jst!Ascii(s2) PROVE Decodes(s2, r.out)
      <3>1. Jst!Ascii(s) /\ AsciiByte(x)
        BY <1>1, <2>4
      <3>2. r.out = Jst!Pushed(t, PieceCode(x))
        <4>1. CASE x.kind = "byte"
          <5>1. Below2(x.n) /\ PieceCode(x) = x.n
            BY <3>1, <4>1 DEF AsciiByte, PieceCode
          <5>2. QED BY <2>1, <2>2, <4>1, <5>1, BytePushed
        <4>2. QED BY <2>1, <4>1
      <3>3. QED BY <1>5, <3>1, <3>2, PlainDecodes
    <2>5. Inner(x) /\ ~IsHigh(x)
      BY <1>5 DEF Plain
    <2>6. QED BY <1>1, <2>1, <2>3, <2>4, <2>5 DEF GoneOn
  <1>6. QED BY <1>2, <1>3, <1>4, <1>5 DEF Plain, Inner

LEMMA LowTurnGoes ==
  ASSUME Jst!StringConstants, NEW x \in Pieces, source \in Seq(Pieces), out \in Seq(CharByte),
         Pending(source), high = source[Len(source)].n, Jst!High(high),
         Jst!Ascii(source) => Decodes(source, out)
  PROVE  \/ Ended(source, x, Jst!LowTurn(out, x))
         \/ GoneOn(source, x, Jst!LowTurn(out, x))
  <1> DEFINE s == source
             t == out
             r == Jst!LowTurn(t, x)
             s2 == Append(s, x)
             u == Jst!Pushed(t, Jst!Replacement)
             c == Jst!Paired(high, x.n)
  <1>1. /\ Jst!HighRun(s2) <=> Jst!HighRun(s) \/ (IsHigh(x) /\ Pending(s))
        /\ HighLeft(s2) <=> HighLeft(s) \/ (Pending(s) /\ ~IsLow(x))
        /\ Pending(s2) <=> IsHigh(x)
        /\ Jst!Ascii(s2) <=> Jst!Ascii(s) /\ AsciiByte(x)
    BY SurrogatesOfLonger
  <1>2. Scalar(Jst!Replacement) /\ Jst!Replacement \in Code
    BY SMT DEF Jst!Replacement, Scalar, Surrogate, Code
  <1>3. u \in Seq(CharByte)
    BY <1>2, PushedText
  <1>4. CASE ~IsUnit(x)
    <2>1. r = Jst!Turn(u, x)
      BY <1>4 DEF Jst!LowTurn, IsUnit
    <2>2. Jst!Ascii(s) => Parts(s, u)
      BY <1>2, PartsPushed DEF Decodes
    <2>3. HighLeft(s2)
      BY <1>1, <1>4 DEF IsLow
    <2> HIDE DEF u
    <2>4. Ended(s, x, Jst!Turn(u, x)) \/ GoneOn(s, x, Jst!Turn(u, x))
      BY <1>3, <1>4, <2>2, <2>3, TurnGoes
    <2>5. QED BY <2>1, <2>4
  <1>5. CASE IsUnit(x) /\ x.n = -1
    <2>1. r = Jst!Goes("failed", t, 0)
      <3>1. x.n < 0 /\ x.kind = "unit"
        BY <1>5 DEF IsUnit
      <3>2. QED BY <3>1, Zenon DEF Jst!LowTurn
    <2>2. Jst!Bad(x)
      BY <1>5 DEF Jst!Bad
    <2>3. QED BY <2>1, <2>2 DEF Ended, Jst!Goes
  <1>6. CASE IsUnit(x) /\ x.n # -1
    <2>1. Inner(x) /\ x.n \in Int /\ ~(x.n < 0) /\ x.kind = "unit"
      <3>1. x.kind = "unit" /\ x.n \in Int /\ x.n >= 0
        BY <1>6, PieceFacts DEF IsUnit
      <3>2. Inner(x)
        BY <1>6, <3>1 DEF Inner, Jst!Bad, IsQuote
      <3>3. QED BY <3>1, <3>2
    <2>2. CASE IsLow(x)
      <3>1. Jst!Low(x.n)
        BY <2>2 DEF IsLow
      <3>2. r = Jst!Goes("read", Jst!Pushed(t, c), 0)
        BY <2>1, <3>1, Zenon DEF Jst!LowTurn
      <3>3. ~IsHigh(x)
        BY <2>2, PieceFacts DEF IsHigh, IsLow
      <3>4. Jst!Pushed(t, c) \in Seq(CharByte)
        <4>1. IsHigh(s[Len(s)]) /\ Len(s) \in 1..Len(s)
          <5>1. s # <<>> /\ IsHigh(s[Len(s)])
            BY DEF Pending
          <5>2. QED BY <5>1, LongerText
        <4>2. s[Len(s)] \in Pieces
          BY <4>1, ElementOfSeq, Zenon
        <4>3. high \in Int
          BY <4>2, PieceFacts
        <4>4. Scalar(c)
          BY <2>1, <3>1, <4>3, PairIsScalar
        <4>5. c \in Code
          BY <4>4 DEF Scalar
        <4>6. QED BY <4>5, PushedText
      <3>5. Jst!Ascii(s2) => Decodes(s2, Jst!Pushed(t, c))
        BY <1>1, <2>1, <2>2, PairDecodes
      <3>6. QED BY <1>1, <2>1, <3>2, <3>3, <3>4, <3>5 DEF GoneOn, Jst!Goes
    <2>3. CASE ~IsLow(x)
      <3>1. ~Jst!Low(x.n)
        BY <1>6, <2>3 DEF IsLow
      <3>2. r = Jst!Goes("read", u, 0)
        BY <2>1, <3>1, Zenon DEF Jst!LowTurn
      <3>3. Jst!Ascii(s2) => Decodes(s2, u)
        BY <1>1, <2>3, ReplacedDecodes
      <3> HIDE DEF u
      <3>4. r.pc = "read" /\ r.out = u /\ r.high = 0
        BY <3>2 DEF Jst!Goes
      <3>5. QED BY <1>1, <1>3, <2>1, <3>3, <3>4 DEF GoneOn
    <2>4. QED BY <2>2, <2>3
  <1>7. QED BY <1>4, <1>5, <1>6

LEMMA ReadKeeps ==
  ASSUME Jst!StringConstants, StringInv, string_pc \in {"read", "low"},
         NEW x \in Pieces, Jst!Read(x)
  PROVE  StringInv'
  <1> DEFINE s == source
             s2 == Append(s, x)
             r == IF string_pc = "low" THEN Jst!LowTurn(out, x) ELSE Jst!Turn(out, x)
  <1>1. /\ source' = s2
        /\ string_pc' = r.pc /\ out' = r.out /\ high' = r.high
    BY DEF Jst!Read
  <1>2. /\ s \in Seq(Pieces) /\ out \in Seq(CharByte) /\ AllInner(s)
        /\ Jst!Ascii(s) => Decodes(s, out)
        /\ string_pc = "read" /\ ~Jst!HighRun(s) => ~Pending(s)
        /\ string_pc = "low" => Pending(s) /\ high = s[Len(s)].n
    BY DEF StringInv
  <1>3. /\ Jst!HighRun(s2) <=> Jst!HighRun(s) \/ (IsHigh(x) /\ Pending(s))
        /\ HighLeft(s2) <=> HighLeft(s) \/ (Pending(s) /\ ~IsLow(x))
        /\ Pending(s2) <=> IsHigh(x)
        /\ AllInner(s2) <=> AllInner(s) /\ Inner(x)
    BY <1>2, SurrogatesOfLonger
  <1>4. /\ s2 \in Seq(Pieces) /\ Len(s2) = Len(s) + 1 /\ Len(s) \in Nat
        /\ \A p \in 1..Len(s) : s2[p] = s[p]
        /\ s2[Len(s) + 1] = x
    BY <1>2, LongerText
  <1>5. Ended(s, x, r) \/ GoneOn(s, x, r)
    <2>1. CASE string_pc = "low"
      <3>1. Jst!High(high)
        <4>1. s # <<>> /\ IsHigh(s[Len(s)])
          BY <1>2, <2>1 DEF Pending
        <4>2. QED BY <1>2, <2>1, <4>1 DEF IsHigh
      <3>2. Ended(s, x, Jst!LowTurn(out, x)) \/ GoneOn(s, x, Jst!LowTurn(out, x))
        BY <1>2, <2>1, <3>1, LowTurnGoes
      <3>3. QED BY <2>1, <3>2
    <2>2. CASE string_pc = "read"
      <3>1. Jst!Ascii(s) => Parts(s, out)
        BY <1>2 DEF Decodes
      <3>2. Jst!Ascii(s) /\ ~Jst!LoneLow(s) /\ ~HighLeft(s2) => Codes(out) = DecodedOf(s)
        BY <1>2, <1>3 DEF Decodes
      <3>3. IsUnit(x) /\ ~Jst!HighRun(s) => ~Pending(s)
        BY <1>2, <2>2
      <3>4. Ended(s, x, Jst!Turn(out, x)) \/ GoneOn(s, x, Jst!Turn(out, x))
        BY <1>2, <3>1, <3>2, <3>3, TurnGoes
      <3>5. string_pc # "low"
        BY <2>2
      <3>6. QED BY <3>4, <3>5
    <2>3. QED BY <2>1, <2>2
  <1>6. Jst!Last(s2) = x
    BY <1>4 DEF Jst!Last
  <1> HIDE DEF r, s2
  <1>7. CASE Ended(s, x, r)
    <2>1. /\ r.pc \in {"returned", "failed"} /\ r.out \in Seq(CharByte) /\ r.high = 0
          /\ r.pc = "failed" => Jst!Bad(x)
          /\ r.pc = "returned" /\ Jst!Ascii(s2) => Result(s2, r.out)
      BY <1>7 DEF Ended, s2
    <2>2. \A p \in 1..(Len(s2) - 1) : Inner(s2[p])
      BY <1>2, <1>4 DEF AllInner
    <2>3. r.pc # "idle" /\ r.pc # "read" /\ r.pc # "low"
      BY <2>1
    <2>4. QED BY <1>1, <1>4, <1>6, <2>1, <2>2, <2>3, Zenon DEF StringInv
  <1>8. CASE GoneOn(s, x, r)
    <2>1. /\ r.pc \in {"read", "low"} /\ r.out \in Seq(CharByte) /\ Inner(x)
          /\ Jst!Ascii(s2) => Decodes(s2, r.out)
          /\ r.pc = "read" => r.high = 0 /\ (~Jst!HighRun(s2) => ~Pending(s2))
          /\ r.pc = "low" => IsHigh(x) /\ r.high = x.n
      BY <1>8 DEF GoneOn, s2
    <2>2. AllInner(s2)
      BY <1>2, <1>3, <2>1
    <2>3. r.high = 0 \/ Jst!High(r.high)
      BY <2>1 DEF IsHigh
    <2>4. r.pc = "low" => Pending(s2) /\ r.high = s2[Len(s2)].n
      BY <1>3, <1>4, <2>1
    <2>5. r.pc # "idle" /\ r.pc # "returned" /\ r.pc # "failed"
      BY <2>1
    <2>6. QED BY <1>1, <1>4, <2>1, <2>2, <2>3, <2>4, <2>5, Zenon DEF StringInv
  <1>9. QED BY <1>5, <1>7, <1>8

LEMMA EmptyDecodes == /\ Decodes(<<>>, <<>>) /\ AllInner(<<>>) /\ ~Pending(<<>>)
                      /\ \A p : p \notin 1..(Len(<<>>) - 1)
  <1>1. <<>> \in Seq(Pieces) /\ Len(<<>>) = 0 /\ (\A p : p \notin 1..0 /\ p \notin 1..(0 - 1))
    OBVIOUS
  <1>2. (\A p : p \notin 1..Len(<<>>)) /\ (\A p : p \notin 1..(Len(<<>>) - 1))
    BY <1>1
  <1>3. ~Jst!LoneLow(<<>>) /\ ~Jst!HighRun(<<>>)
    BY <1>1, <1>2, SurrogatesOf
  <1>4. Closed(<<>>) /\ Codes(<<>>) = <<>>
    <2>1. Utf!Chars(<<>>).chars = <<>> /\ Utf!Chars(<<>>).rest = <<>>
      BY CharsOfEmpty DEF Utf!NoChars
    <2>2. <<>> \in Seq(Seq(Nat)) /\ Jst!CodesOf(<<>>) = <<>>
      BY DEF Jst!CodesOf
    <2>3. QED BY <2>1, <2>2 DEF Closed, Codes
  <1>5. QED BY <1>2, <1>3, <1>4, DecodedOfEmpty DEF Decodes, Parts, AllInner, Pending

LEMMA StepKeepsStringInv ==
  ASSUME Jst!StringConstants, StringInv, [Jst!Next]_stringVars
  PROVE  StringInv'
  <1>1. CASE Jst!Call
    <2>1. /\ string_pc = "idle" /\ string_pc' = "read" /\ source' = <<>> /\ out' = <<>>
          /\ high' = high /\ (high = 0 \/ Jst!High(high))
      BY <1>1 DEF Jst!Call, StringInv
    <2>2. <<>> \in Seq(Pieces) /\ <<>> \in Seq(CharByte)
      OBVIOUS
    <2>3. QED BY <2>1, <2>2, EmptyDecodes DEF StringInv
  <1>2. CASE Jst!ReadNext
    BY <1>2, ReadKeeps DEF Jst!ReadNext
  <1>3. CASE Jst!Free
    <2>1. string_pc' = "idle" /\ source' = <<>> /\ out' = <<>> /\ high' = 0
      BY <1>3 DEF Jst!Free
    <2>2. <<>> \in Seq(Pieces) /\ <<>> \in Seq(CharByte)
      OBVIOUS
    <2>3. QED BY <2>1, <2>2 DEF StringInv
  <1>4. CASE UNCHANGED stringVars
    BY <1>4, Zenon DEF stringVars, StringInv
  <1>5. QED BY <1>1, <1>2, <1>3, <1>4 DEF Jst!Next

LEMMA StringsAreDecoded ==
  ASSUME StringInv
  PROVE  Jst!StringsDecoded
  <1>1. string_pc \in {"returned", "failed"} =>
          \A p \in 1..(Len(source) - 1) : ~Jst!Bad(source[p])
    BY DEF StringInv, Inner
  <1>2. string_pc = "failed" => Jst!Bad(Jst!Last(source))
    BY DEF StringInv
  <1>3. string_pc = "returned" /\ Jst!Ascii(source) => Result(source, out)
    BY DEF StringInv
  <1>4. QED BY <1>1, <1>2, <1>3, Zenon DEF Jst!StringsDecoded, Result
-----------------------------------------------------------------------------
(* What is escaped for a request is read as it was. *)
EscapeOf(b) ==
  IF \E c \in DOMAIN Jst!Unescaped \ {47} : Jst!Unescaped[c] = b
  THEN [kind |-> "escape", n |-> CHOOSE c \in DOMAIN Jst!Unescaped \ {47} :
                                      Jst!Unescaped[c] = b]
  ELSE [kind |-> IF b < 32 THEN "unit" ELSE "byte", n |-> b]
ClosingQuote == [kind |-> "byte", n |-> Jst!Quote]

LEMMA EscapeIsRead ==
  ASSUME NEW t \in Seq(CharByte), NEW b \in CharByte
  PROVE  Jst!Turn(t, EscapeOf(b)) = Jst!Goes("read", Append(t, b), 0)
  <1> DEFINE x == EscapeOf(b)
             dom == DOMAIN Jst!Unescaped
             isHigh == Jst!High(x.n)
  <1>1. Jst!Turn(t, x) =
          CASE x.kind = "byte" /\ x.n = 34 -> Jst!Goes("returned", t, 0)
            [] x.kind = "byte" /\ x.n # 34 /\ x.n >= 32 -> Jst!Goes("read", Append(t, x.n), 0)
            [] x.kind = "escape" /\ x.n \in dom ->
                 Jst!Goes("read", Append(t, Jst!Unescaped[x.n]), 0)
            [] x.kind = "unit" /\ isHigh -> Jst!Goes("low", t, x.n)
            [] x.kind = "unit" /\ x.n >= 0 /\ ~isHigh -> Jst!Goes("read", Jst!Pushed(t, x.n), 0)
            [] OTHER -> Jst!Goes("failed", t, 0)
    BY DEF Jst!Turn, Jst!Quote
  <1>2. CASE \E c \in dom \ {47} : Jst!Unescaped[c] = b
    <2> DEFINE c == CHOOSE c \in dom \ {47} : Jst!Unescaped[c] = b
    <2>1. c \in dom /\ Jst!Unescaped[c] = b
      BY <1>2, Zenon
    <2>2. x = [kind |-> "escape", n |-> c]
      BY <1>2, Zenon DEF EscapeOf
    <2> HIDE DEF c
    <2>3. x.kind = "escape" /\ x.n = c
      BY <2>2
    <2>4. QED BY <1>1, <2>1, <2>3, Zenon
  <1>3. CASE ~\E c \in dom \ {47} : Jst!Unescaped[c] = b
    <2>1. b \in Nat /\ b # 34
      <3>1. 34 \in dom \ {47} /\ Jst!Unescaped[34] = 34
        BY UnescapedFacts, SMT DEF Escape
      <3>2. QED BY <1>3, <3>1, CharByteFacts
    <2>2. x = [kind |-> IF b < 32 THEN "unit" ELSE "byte", n |-> b]
      BY <1>3, Zenon DEF EscapeOf
    <2>3. x.n = b /\ (b < 32 => x.kind = "unit") /\ (~(b < 32) => x.kind = "byte")
      BY <2>2
    <2>4. CASE b < 32
      <3>1. Below2(b) /\ ~Jst!High(b) /\ b >= 0
        BY <2>1, <2>4, SMT DEF Below2, Jst!High
      <3>2. Append(t, b) = Jst!Pushed(t, b)
        BY <3>1, BytePushed
      <3>3. x.kind = "unit" /\ ~isHigh /\ x.n = b
        BY <2>3, <2>4, <3>1, Zenon
      <3>4. QED BY <1>1, <3>1, <3>2, <3>3, Zenon
    <2>5. CASE ~(b < 32)
      <3>1. b >= 32 /\ x.kind = "byte" /\ x.n = b
        BY <2>1, <2>3, <2>5
      <3>2. QED BY <1>1, <2>1, <3>1, Zenon
    <2>6. QED BY <2>4, <2>5
  <1>4. QED BY <1>2, <1>3

ReadTurn(pieces, n, r) == IF r.pc = "read" THEN Jst!Turn(r.out, pieces[n]) ELSE r
Reading(f, pieces, n) ==
  f = [m \in 0..n |-> IF m = 0 THEN Jst!Goes("read", <<>>, 0)
                      ELSE ReadTurn(pieces, m, f[m - 1])]

LEMMA EscapedIsReadBack ==
  ASSUME NEW t \in Seq(CharByte)
  PROVE  LET pieces == Append(Jst!json_escape_alloc(t), ClosingQuote)
         IN  Jst!ReadUpTo(pieces)[Len(pieces)] = Jst!Goes("returned", t, 0)
  <1> DEFINE ps == Append(Jst!json_escape_alloc(t), ClosingQuote)
             L == Len(t)
             g == [m \in 0..(L + 1) |->
                     IF m = L + 1 THEN Jst!Goes("returned", t, 0)
                     ELSE Jst!Goes("read", SubSeq(t, 1, m), 0)]
             f == Jst!ReadUpTo(ps)
  <1>1. /\ L \in Nat /\ Len(ps) = L + 1 /\ ps[L + 1] = ClosingQuote
        /\ \A p \in 1..L : ps[p] = EscapeOf(t[p])
    <2> DEFINE e == Jst!json_escape_alloc(t)
    <2>1. L \in Nat /\ DOMAIN t = 1..L
      OBVIOUS
    <2>2. e = [p \in 1..L |-> EscapeOf(t[p])]
      BY <2>1, Zenon DEF Jst!json_escape_alloc, EscapeOf
    <2> HIDE DEF e
    <2>3. Len(e) = L /\ \A p \in 1..L : e[p] = EscapeOf(t[p])
      BY <2>1, <2>2
    <2> DEFINE B == {EscapeOf(t[p]) : p \in 1..L} \cup {ClosingQuote}
    <2>4. e \in Seq(B) /\ ClosingQuote \in B
      <3>1. \A p \in 1..L : EscapeOf(t[p]) \in B
        OBVIOUS
      <3> HIDE DEF B
      <3>2. e \in Seq(B)
        BY <2>1, <2>2, <3>1
      <3>3. QED BY <3>2 DEF B
    <2> HIDE DEF B
    <2> DEFINE q == Append(e, ClosingQuote)
    <2>5. Len(q) = Len(e) + 1 /\ q[Len(e) + 1] = ClosingQuote /\ \A p \in 1..Len(e) : q[p] = e[p]
      BY <2>4, AppendFacts
    <2> HIDE DEF q
    <2>6. Len(q) = L + 1 /\ q[L + 1] = ClosingQuote /\ \A p \in 1..L : q[p] = EscapeOf(t[p])
      BY <2>1, <2>3, <2>5
    <2>7. QED BY <2>1, <2>6 DEF q, e
  <1>2. f = CHOOSE h : Reading(h, ps, Len(ps))
    BY Zenon DEF Jst!ReadUpTo, Reading, ReadTurn
  <1> HIDE DEF ps, f
  <1>3. /\ g[0] = Jst!Goes("read", <<>>, 0)
        /\ \A m \in 1..(L + 1) : g[m] = ReadTurn(ps, m, g[m - 1])
    <2>1. ASSUME NEW m \in 0..L PROVE g[m] = Jst!Goes("read", SubSeq(t, 1, m), 0)
      <3>1. m \in 0..(L + 1) /\ m # L + 1
        BY <1>1
      <3>2. QED BY <3>1, Zenon
    <2>2. g[L + 1] = Jst!Goes("returned", t, 0)
      <3>1. L + 1 \in 0..(L + 1)
        BY <1>1
      <3>2. QED BY <3>1, Zenon
    <2>3. 0 \in 0..L /\ SubSeq(t, 1, 0) = <<>> /\ SubSeq(t, 1, L) = t
      BY <1>1, UpToEnds
    <2> HIDE DEF g
    <2>4. ASSUME NEW m \in 1..L PROVE g[m] = ReadTurn(ps, m, g[m - 1])
      <3> DEFINE u == SubSeq(t, 1, m - 1)
      <3>1. /\ SubSeq(t, 1, m) = Append(u, t[m])
            /\ u \in Seq(CharByte) /\ t[m] \in CharByte
        BY UpToOne
      <3>2. m - 1 \in 0..L /\ m \in 0..L
        BY <1>1
      <3> HIDE DEF u
      <3>3. g[m - 1] = Jst!Goes("read", u, 0) /\ g[m] = Jst!Goes("read", Append(u, t[m]), 0)
        BY <2>1, <3>1, <3>2, Zenon DEF u
      <3>4. Jst!Turn(u, ps[m]) = Jst!Goes("read", Append(u, t[m]), 0)
        BY <1>1, <3>1, EscapeIsRead, Zenon
      <3>5. g[m - 1].pc = "read" /\ g[m - 1].out = u
        BY <3>3 DEF Jst!Goes
      <3>6. QED BY <3>3, <3>4, <3>5, Zenon DEF ReadTurn
    <2>5. g[L + 1] = ReadTurn(ps, L + 1, g[(L + 1) - 1])
      <3>1. (L + 1) - 1 = L /\ L \in 0..L
        BY <1>1
      <3>2. g[L] = Jst!Goes("read", t, 0)
        BY <2>1, <2>3, <3>1, Zenon
      <3>3. Jst!Turn(t, ClosingQuote) = Jst!Goes("returned", t, 0)
        BY Zenon DEF Jst!Turn, ClosingQuote
      <3>4. g[L].pc = "read" /\ g[L].out = t
        BY <3>2 DEF Jst!Goes
      <3>5. QED BY <1>1, <2>2, <3>1, <3>3, <3>4, Zenon DEF ReadTurn
    <2>6. g[0] = Jst!Goes("read", <<>>, 0)
      BY <2>1, <2>3, Zenon
    <2>7. \A m \in 1..(L + 1) : m \in 1..L \/ m = L + 1
      BY <1>1
    <2>8. QED BY <2>4, <2>5, <2>6, <2>7, Zenon
  <1>4. Reading(g, ps, L + 1)
    <2> DEFINE h == [m \in 0..(L + 1) |-> IF m = 0 THEN Jst!Goes("read", <<>>, 0)
                                          ELSE ReadTurn(ps, m, g[m - 1])]
    <2>1. \A m \in 0..(L + 1) : m = 0 \/ (m # 0 /\ m \in 1..(L + 1))
      BY <1>1
    <2>2. DOMAIN g = 0..(L + 1) /\ g = [m \in 0..(L + 1) |-> g[m]]
      BY Zenon
    <2> HIDE DEF g
    <2>3. \A m \in 0..(L + 1) : g[m] = h[m]
      BY <1>3, <2>1, Zenon
    <2>4. g = h
      BY <2>2, <2>3, Zenon
    <2>5. QED BY <2>4, Zenon DEF Reading
  <1>5. g[L + 1] = Jst!Goes("returned", t, 0)
    <2>1. L + 1 \in 0..(L + 1)
      BY <1>1
    <2>2. QED BY <2>1, Zenon
  <1> HIDE DEF g
  <1>6. Reading(f, ps, L + 1)
    BY <1>1, <1>2, <1>4, Zenon
  <1> DEFINE S == {m \in 0..(L + 1) : f[m] = g[m]}
  <1>7. /\ f[0] = Jst!Goes("read", <<>>, 0)
        /\ \A m \in 1..(L + 1) : f[m] = ReadTurn(ps, m, f[m - 1])
    <2>1. 0 \in 0..(L + 1) /\ \A m \in 1..(L + 1) : m \in 0..(L + 1) /\ m # 0
      BY <1>1
    <2>2. QED BY <1>6, <2>1, Zenon DEF Reading
  <1>8. L + 1 \in Nat /\ 0 \in S
    <2>1. L + 1 \in Nat /\ 0 \in 0..(L + 1)
      BY <1>1
    <2>2. QED BY <1>3, <1>7, <2>1, Zenon
  <1>9. ASSUME NEW m \in 1..(L + 1), m - 1 \in S PROVE m \in S
    <2>1. m \in 0..(L + 1) /\ f[m - 1] = g[m - 1]
      BY <1>1, <1>9
    <2>2. QED BY <1>3, <1>7, <2>1, Zenon
  <1> HIDE DEF S
  <1>10. \A m \in 0..(L + 1) : m \in S
    BY <1>8, <1>9, InductionUpTo
  <1>11. f[L + 1] = g[L + 1]
    <2>1. L + 1 \in 0..(L + 1)
      BY <1>1
    <2>2. QED BY <1>10, <2>1, Zenon DEF S
  <1>12. QED BY <1>1, <1>5, <1>11, Zenon DEF ps, f

LEMMA StringInvariant == Spec => []StringInv
  <1>1. Jst!StringConstants
    BY LibraryAssumption
  <1>2. Init => StringInv
    <2>1. <<>> \in Seq(Pieces) /\ <<>> \in Seq(CharByte)
      OBVIOUS
    <2>2. QED BY <2>1 DEF Init, Jst!Init, StringInv
  <1>3. StringInv /\ [Next]_vars => StringInv'
    BY <1>1, StepOfPart, StepKeepsStringInv
  <1>4. QED BY <1>2, <1>3, PTL DEF Spec

(* What parse_string() returns is, for strings of every length, what JSON   *)
(* says the text stands for; where it fails, JSON has no such string; and   *)
(* what json_escape_alloc() writes of any text, it reads as that text.      *)
THEOREM StringsAreExact == Spec => []StringsExact
  <1>1. StringInv => StringsExact
    <2>1. StringInv => out \in Seq(CharByte)
      BY DEF StringInv
    <2>2. StringInv => Jst!EscapesReadBack
      BY <2>1, EscapedIsReadBack, Zenon DEF Jst!EscapesReadBack, ClosingQuote
    <2>3. QED BY <2>2, StringsAreDecoded DEF StringsExact
  <1>2. QED BY <1>1, StringInvariant, PTL
-----------------------------------------------------------------------------
(* The types of the parts whose invariants above do not have them. *)
PortNumber(n) == n \in Int /\ 1 <= n /\ n <= 65535
Loaded(values) ==
    /\ named
    /\ \A f \in Fields : values[f] >= Cfg!Field[f].least
    /\ "port" \in Fields => PortNumber(values["port"])
ConfigInv == Cfg!ConfigTypeOK /\ (config_pc = "loaded" => Loaded(cfg))

(* Every default is in the range of its field. *)
Fit(f) ==
    /\ Cfg!Field[f].default \in Int /\ Cfg!Field[f].least \in Int
    /\ Cfg!Field[f].default >= Cfg!Field[f].least
    /\ f = "port" => PortNumber(Cfg!Field[f].default) /\ Cfg!Field[f].least = 1

LEMMA DefaultsInRange == \A f \in DOMAIN Cfg!Field : Fit(f)
  <1>1. Fit("port")
    BY SMT DEF Cfg!Field, Fit, PortNumber
  <1>2. Fit("days_ahead")
    BY SMT DEF Cfg!Field, Fit, PortNumber
  <1>3. Fit("events_limit")
    BY SMT DEF Cfg!Field, Fit, PortNumber
  <1>4. Fit("request_timeout")
    BY SMT DEF Cfg!Field, Fit, PortNumber
  <1>5. Fit("sleep_between_requests")
    BY SMT DEF Cfg!Field, Fit, PortNumber
  <1>6. Fit("thread_id")
    BY SMT DEF Cfg!Field, Fit, PortNumber
  <1>7. Fit("sleep_between_messages")
    BY SMT DEF Cfg!Field, Fit, PortNumber
  <1>8. DOMAIN Cfg!Field = {"port", "days_ahead", "events_limit", "request_timeout",
          "sleep_between_requests", "thread_id", "sleep_between_messages"}
    BY SMT DEF Cfg!Field
  <1>9. QED BY <1>1, <1>2, <1>3, <1>4, <1>5, <1>6, <1>7, <1>8, Zenon

LEMMA StepKeepsConfigInv ==
  ASSUME Cfg!ConfigConstants, ConfigInv, [Cfg!Next]_configVars
  PROVE  ConfigInv'
  <1>1. /\ config_pc \in {"idle", "read", "loaded", "failed"}
        /\ section \in Cfg!Section /\ cfg \in [Fields -> Int] /\ named \in BOOLEAN
    BY DEF ConfigInv, Cfg!ConfigTypeOK
  <1>2. \A f \in Fields : f \in DOMAIN Cfg!Field
    BY DEF Cfg!ConfigConstants
  <1>3. Cfg!Defaults \in [Fields -> Int]
    <2>1. \A f \in Fields : Cfg!Field[f].default \in Int
      BY <1>2, DefaultsInRange, Zenon DEF Fit
    <2>2. QED BY <2>1, Zenon DEF Cfg!Defaults
  <1>4. CASE Cfg!Open
    <2>1. /\ config_pc' \in {"read", "failed"} /\ section' = section /\ cfg' = cfg /\ named' = named
          /\ config_pc' # "loaded"
      BY <1>4 DEF Cfg!Open
    <2>2. QED BY <1>1, <2>1, Zenon DEF ConfigInv, Cfg!ConfigTypeOK
  <1>5. CASE Cfg!SectionLine
    <2>1. /\ config_pc' = "read" /\ section' \in Cfg!Section /\ cfg' = cfg /\ named' = named
          /\ config_pc' # "loaded"
      BY <1>5 DEF Cfg!SectionLine
    <2>2. QED BY <1>1, <2>1, Zenon DEF ConfigInv, Cfg!ConfigTypeOK
  <1>6. CASE Cfg!NumberLine
    <2>1. config_pc' = "read" /\ section' = section /\ named' = named
      BY <1>6 DEF Cfg!NumberLine
    <2>2. cfg' \in [Fields -> Int]
      BY <1>1, <1>6 DEF Cfg!NumberLine, Cfg!ConfigConstants
    <2>3. config_pc' # "loaded"
      BY <2>1
    <2>4. QED BY <1>1, <2>1, <2>2, <2>3, Zenon DEF ConfigInv, Cfg!ConfigTypeOK
  <1>7. CASE Cfg!NameLine
    <2>1. /\ config_pc' = "read" /\ section' = section /\ cfg' = cfg /\ named' \in BOOLEAN
          /\ config_pc' # "loaded"
      BY <1>7 DEF Cfg!NameLine
    <2>2. QED BY <1>1, <2>1, Zenon DEF ConfigInv, Cfg!ConfigTypeOK
  <1>8. CASE Cfg!MalformedLine
    <2>1. /\ config_pc' = "failed" /\ section' = section /\ cfg' = cfg /\ named' = named
          /\ config_pc' # "loaded"
      BY <1>8 DEF Cfg!MalformedLine
    <2>2. QED BY <1>1, <2>1, Zenon DEF ConfigInv, Cfg!ConfigTypeOK
  <1>9. CASE Cfg!EndOfFile /\ ~named
    <2>1. /\ config_pc' = "failed" /\ section' = section /\ cfg' = cfg /\ named' = named
          /\ config_pc' # "loaded"
      BY <1>9 DEF Cfg!EndOfFile
    <2>2. QED BY <1>1, <2>1, Zenon DEF ConfigInv, Cfg!ConfigTypeOK
  <1>10. CASE Cfg!EndOfFile /\ named
    <2>1. /\ config_pc' = "loaded" /\ section' = section /\ named' = named
          /\ cfg' = Cfg!Clamped
      BY <1>10 DEF Cfg!EndOfFile
    <2>2. \A f \in Fields :
            /\ Cfg!Clamped[f] \in Int /\ Cfg!Clamped[f] >= Cfg!Field[f].least
            /\ f = "port" => PortNumber(Cfg!Clamped[f])
      <3> TAKE f \in Fields
      <3>1. cfg[f] \in Int /\ f \in DOMAIN Cfg!Field
        BY <1>1, <1>2
      <3>2. /\ Cfg!Field[f].default \in Int /\ Cfg!Field[f].least \in Int
            /\ Cfg!Field[f].default >= Cfg!Field[f].least
            /\ f = "port" => PortNumber(Cfg!Field[f].default) /\ Cfg!Field[f].least = 1
        BY <3>1, DefaultsInRange, Zenon DEF Fit
      <3>3. Cfg!Clamped[f] = IF Cfg!InRange(f, cfg[f]) THEN cfg[f] ELSE Cfg!Field[f].default
        BY DEF Cfg!Clamped
      <3>4. Cfg!InRange(f, cfg[f]) <=>
              cfg[f] >= Cfg!Field[f].least /\ (f = "port" => cfg[f] <= 65535)
        BY SMT DEF Cfg!InRange
      <3>5. QED BY <3>1, <3>2, <3>3, <3>4, SMT DEF PortNumber
    <2>3. Cfg!Clamped \in [Fields -> Int]
      <3>1. Cfg!Clamped = [f \in Fields |-> Cfg!Clamped[f]]
        BY DEF Cfg!Clamped
      <3>2. \A f \in Fields : Cfg!Clamped[f] \in Int
        BY <2>2, SMT
      <3>3. QED BY <3>1, <3>2, Zenon
    <2>4. Loaded(cfg)'
      BY <1>10, <2>1, <2>2, Zenon DEF Loaded
    <2>5. QED BY <1>1, <2>1, <2>3, <2>4, Zenon DEF ConfigInv, Cfg!ConfigTypeOK
  <1>11. CASE Cfg!Exit
    <2>1. config_pc' = "idle" /\ section' = "" /\ cfg' = Cfg!Defaults /\ named' = FALSE
      BY <1>11, Zenon DEF Cfg!Exit
    <2>2. config_pc' = "idle"
      BY <2>1, Zenon
    <2>3. config_pc' # "loaded"
      BY <2>2
    <2>4. "" \in Cfg!Section
      BY DEF Cfg!Section
    <2>5. QED BY <1>3, <2>1, <2>3, <2>4, Zenon DEF ConfigInv, Cfg!ConfigTypeOK
  <1>12. CASE UNCHANGED configVars
    BY <1>12, Zenon DEF configVars, ConfigInv, Cfg!ConfigTypeOK, Loaded
  <1>13. QED BY <1>4, <1>5, <1>6, <1>7, <1>8, <1>9, <1>10, <1>11, <1>12 DEF Cfg!Next

LEMMA ConfigTypes == ASSUME ConfigInv PROVE Cfg!ConfigTypeOK /\ Cfg!LoadedInRange
  <1>1. Cfg!ConfigTypeOK
    BY Zenon DEF ConfigInv
  <1>2. PortNumber(cfg["port"]) => cfg["port"] >= 1 /\ cfg["port"] <= 65535
    BY SMT DEF PortNumber
  <1>3. QED BY <1>1, <1>2, SMT DEF ConfigInv, Loaded, Cfg!LoadedInRange

LEMMA InitialConfig == ASSUME Cfg!ConfigConstants, Cfg!Init PROVE ConfigInv
  <1>1. \A f \in Fields : Cfg!Field[f].default \in Int
    BY DefaultsInRange, Zenon DEF Fit, Cfg!ConfigConstants
  <1>2. Cfg!Defaults \in [Fields -> Int]
    BY <1>1, Zenon DEF Cfg!Defaults
  <1>3. config_pc = "idle" /\ section = "" /\ cfg = Cfg!Defaults /\ named = FALSE
    BY Zenon DEF Cfg!Init
  <1>4. config_pc = "idle"
    BY <1>3, Zenon
  <1>5. config_pc # "loaded"
    BY <1>4
  <1>6. "" \in Cfg!Section
    BY DEF Cfg!Section
  <1>7. QED BY <1>2, <1>3, <1>5, <1>6, Zenon DEF ConfigInv, Cfg!ConfigTypeOK

LEMMA StringTypes == ASSUME StringInv PROVE Jst!StringTypeOK
  BY Zenon DEF StringInv, CharByte, Jst!StringTypeOK

(* The bits of a code point that are read when n bytes are to follow. *)
RoomFor(code, n) ==
    \/ n = 1 /\ code <= 32767
    \/ n = 2 /\ code <= 511
    \/ n = 3 /\ code <= 7
Utf8Types == Utf!Utf8TypeOK /\ (utf8_pc = "tail" => RoomFor(cp, left))

LEMMA LeadKeepsTypes ==
  ASSUME Utf!Utf8Constants, Utf8Types, Utf!Lead
  PROVE  Utf8Types'
  <1>1. PICK c \in Byte :
        /\ utf8_pc = "lead"
        /\ bytes' = Append(bytes, c)
        /\ IF c < 128 THEN UNCHANGED <<utf8_pc, cp, left, min_cp>>
           ELSE IF c \div 32 = 6 THEN Utf!Leads(c, 1, c % 32, 128)
           ELSE IF c \div 16 = 14 THEN Utf!Leads(c, 2, c % 16, 2048)
           ELSE IF c \div 8 = 30 THEN Utf!Leads(c, 3, c % 8, 65536)
           ELSE utf8_pc' = "invalid" /\ UNCHANGED <<cp, left, min_cp>>
    BY DEF Utf!Lead
  <1>2. c \in Nat /\ c <= 255
    BY ByteFacts, SMT
  <1>3. /\ c % 32 \in Nat /\ c % 32 <= 31
        /\ c % 16 \in Nat /\ c % 16 <= 15
        /\ c % 8 \in Nat /\ c % 8 <= 7
    BY <1>2, SMT
  <1>4. bytes' \in Seq(Byte \cup {0})
    BY <1>1 DEF Utf8Types, Utf!Utf8TypeOK
  <1>5. CASE c < 128 \/ (utf8_pc' = "invalid" /\ UNCHANGED <<cp, left, min_cp>>)
    <2>1. utf8_pc' \in {"lead", "invalid"} /\ UNCHANGED <<cp, left, min_cp>>
      BY <1>1, <1>5
    <2>2. QED BY <1>4, <2>1, SMT DEF Utf8Types, Utf!Utf8TypeOK
  <1>6. CASE Utf!Leads(c, 1, c % 32, 128)
    BY <1>3, <1>4, <1>6, SMT DEF Utf!Leads, Utf8Types, Utf!Utf8TypeOK, RoomFor
  <1>7. CASE Utf!Leads(c, 2, c % 16, 2048)
    BY <1>3, <1>4, <1>7, SMT DEF Utf!Leads, Utf8Types, Utf!Utf8TypeOK, RoomFor
  <1>8. CASE Utf!Leads(c, 3, c % 8, 65536)
    BY <1>3, <1>4, <1>8, SMT DEF Utf!Leads, Utf8Types, Utf!Utf8TypeOK, RoomFor
  <1>9. QED BY <1>1, <1>5, <1>6, <1>7, <1>8, SMT

LEMMA FollowKeepsTypes ==
  ASSUME Utf!Utf8Constants, Utf8Types, Utf!Follow
  PROVE  Utf8Types'
  <1>1. PICK c \in Byte \cup {0} :
        /\ utf8_pc = "tail"
        /\ bytes' = Append(bytes, c)
        /\ IF c \div 64 # 2
           THEN utf8_pc' = "invalid" /\ UNCHANGED <<cp, left>>
           ELSE /\ cp' = cp * 64 + (c % 64)
                /\ left' = left - 1
                /\ utf8_pc' = IF left > 1 THEN "tail"
                              ELSE IF Utf!OutOfRange(cp') THEN "invalid" ELSE "lead"
        /\ min_cp' = min_cp
    BY DEF Utf!Follow
  <1>2. c \in Nat /\ c <= 255
    BY ByteFacts, SMT
  <1>3. c % 64 \in Nat /\ c % 64 <= 63
    BY <1>2, SMT
  <1>4. bytes' \in Seq(Byte \cup {0})
    BY <1>1 DEF Utf8Types, Utf!Utf8TypeOK
  <1>5. /\ cp \in Nat /\ cp <= 2097151 /\ left \in 0..3
        /\ min_cp \in {0, 128, 2048, 65536} /\ RoomFor(cp, left)
    BY <1>1, SMT DEF Utf8Types, Utf!Utf8TypeOK
  <1>6. CASE c \div 64 # 2
    <2>1. utf8_pc' = "invalid" /\ UNCHANGED <<cp, left, min_cp>>
      BY <1>1, <1>6
    <2>2. QED BY <1>4, <1>5, <2>1, SMT DEF Utf8Types, Utf!Utf8TypeOK
  <1>7. CASE ~(c \div 64 # 2)
    <2>1. /\ cp' = cp * 64 + (c % 64) /\ left' = left - 1 /\ min_cp' = min_cp
          /\ utf8_pc' \in {"tail", "invalid", "lead"}
          /\ utf8_pc' = "tail" => left > 1
      BY <1>1, <1>7
    <2>2. cp' \in Nat /\ cp' <= 2097151 /\ left' \in 0..3
      BY <1>3, <1>5, <2>1, SMT DEF RoomFor
    <2>3. left > 1 => RoomFor(cp', left')
      BY <1>3, <1>5, <2>1, SMT DEF RoomFor
    <2>4. QED BY <1>4, <1>5, <2>1, <2>2, <2>3, SMT DEF Utf8Types, Utf!Utf8TypeOK
  <1>8. QED BY <1>6, <1>7

LEMMA StepKeepsUtf8Types ==
  ASSUME Utf!Utf8Constants, Utf8Types, [Utf!Next]_utf8Vars
  PROVE  Utf8Types'
  <1>1. CASE Utf!Lead
    BY <1>1, LeadKeepsTypes
  <1>2. CASE Utf!Follow
    BY <1>2, FollowKeepsTypes
  <1>3. CASE Utf!Call \/ Utf!End
    BY <1>3, SMT DEF Utf!Call, Utf!End, Utf8Types, Utf!Utf8TypeOK
  <1>4. CASE Utf!Free
    BY <1>4, SMT DEF Utf!Free, Utf8Types, Utf!Utf8TypeOK
  <1>5. CASE UNCHANGED utf8Vars
    BY <1>5, SMT DEF utf8Vars, Utf8Types, Utf!Utf8TypeOK
  <1>6. QED BY <1>1, <1>2, <1>3, <1>4, <1>5 DEF Utf!Next

LEMMA InitialUtf8Types == ASSUME Utf!Init PROVE Utf8Types
  BY SMT DEF Utf!Init, Utf8Types, Utf!Utf8TypeOK

(* is_internal_host() has judged the host it was given. *)
LEMMA HostTypes ==
  ASSUME Hst!HostConstants
  PROVE  /\ Hst!Init => Hst!HostTypeOK
         /\ Hst!HostTypeOK /\ [Hst!Next]_hostVars => Hst!HostTypeOK'
  <1>0. Hst!NoHost.kind = "name"
    BY SMT DEF Hst!NoHost
  <1>1. Hst!Init => Hst!HostTypeOK
    <2>1. Hst!Init => host_pc = "idle" /\ host.kind = "name" /\ internal \in BOOLEAN
      BY <1>0, Zenon DEF Hst!Init
    <2>2. QED BY <2>1 DEF Hst!HostTypeOK
  <1>2. ASSUME NEW kind \in {"v4", "v6", "name"}, NEW h
        PROVE  Hst!is_internal_host([kind |-> kind, is |-> h]) \in BOOLEAN
    <2>1. /\ Hst!InternalV4(h) \in BOOLEAN
      BY SMT DEF Hst!InternalV4
    <2>2. Hst!InternalV6(h) \in BOOLEAN
      BY SMT DEF Hst!InternalV6
    <2>3. Hst!LooksNumeric(h) \in BOOLEAN
      BY SMT DEF Hst!LooksNumeric
    <2> DEFINE arg == [kind |-> kind, is |-> h]
    <2>4. arg.kind = kind /\ arg.is = h
      OBVIOUS
    <2> HIDE DEF arg
    <2>5. CASE kind = "v4"
      <3>1. Hst!is_internal_host(arg) = Hst!InternalV4(h)
        BY <2>4, <2>5, Zenon DEF Hst!is_internal_host
      <3>2. QED BY <2>1, <3>1 DEF arg
    <2>6. CASE kind = "v6"
      <3>1. Hst!is_internal_host(arg) = Hst!InternalV6(h)
        BY <2>4, <2>6, Zenon DEF Hst!is_internal_host
      <3>2. QED BY <2>2, <3>1 DEF arg
    <2>7. CASE kind = "name"
      <3>1. Hst!is_internal_host(arg) = (h \in Hst!Known \/ Hst!LooksNumeric(h))
        BY <2>4, <2>7, Zenon DEF Hst!is_internal_host
      <3>2. QED BY <2>3, <3>1 DEF arg
    <2>8. QED BY <2>5, <2>6, <2>7
  <1>3. ASSUME Hst!HostTypeOK, Hst!Judge PROVE Hst!HostTypeOK'
    <2>1. PICK kind \in DOMAIN Hosts : \E h \in Hosts[kind] :
            host' = [kind |-> kind, is |-> h]
      BY <1>3 DEF Hst!Judge
    <2>2. PICK h \in Hosts[kind] : host' = [kind |-> kind, is |-> h]
      BY <2>1
    <2>3. kind \in {"v4", "v6", "name"}
      BY DEF Hst!HostConstants
    <2>4. host_pc' = "judged" /\ internal' = Hst!is_internal_host(host')
      BY <1>3 DEF Hst!Judge
    <2>5. internal' \in BOOLEAN
      BY <1>2, <2>2, <2>3, <2>4, Zenon
    <2>6. QED BY <2>2, <2>3, <2>4, <2>5 DEF Hst!HostTypeOK
  <1>4. ASSUME Hst!HostTypeOK, Hst!Forget PROVE Hst!HostTypeOK'
    <2>1. host_pc' = "idle" /\ host'.kind = "name" /\ internal' \in BOOLEAN
      BY <1>0, <1>4, Zenon DEF Hst!Forget
    <2>2. QED BY <2>1 DEF Hst!HostTypeOK
  <1>5. ASSUME Hst!HostTypeOK, UNCHANGED hostVars PROVE Hst!HostTypeOK'
    BY <1>5, SMT DEF hostVars, Hst!HostTypeOK
  <1>6. QED BY <1>1, <1>3, <1>4, <1>5 DEF Hst!Next

LEMMA JoinedLength ==
  ASSUME NEW B, NEW s \in Seq(B), NEW t \in Seq(B)
  PROVE  s \o t \in Seq(B) /\ Len(s \o t) = Len(s) + Len(t) /\ Len(s \o t) \in Nat
  OBVIOUS

ElementsOf(s) == {s[p] : p \in DOMAIN s}

LEMMA JoinedElements ==
  ASSUME NEW B, NEW s \in Seq(B), NEW t \in Seq(B)
  PROVE  s \o t \in Seq(B) /\ ElementsOf(s \o t) = ElementsOf(s) \cup ElementsOf(t)
  <1> DEFINE u == s \o t
  <1>1. /\ u \in Seq(B) /\ Len(s) \in Nat /\ Len(t) \in Nat /\ Len(u) = Len(s) + Len(t)
        /\ \A p \in 1..Len(s) : u[p] = s[p]
        /\ \A p \in 1..Len(t) : u[p + Len(s)] = t[p]
    OBVIOUS
  <1>2. DOMAIN s = 1..Len(s) /\ DOMAIN t = 1..Len(t) /\ DOMAIN u = 1..Len(u)
    BY <1>1
  <1> HIDE DEF u
  <1>3. ASSUME NEW p \in 1..Len(u) PROVE u[p] \in ElementsOf(s) \cup ElementsOf(t)
    <2>1. CASE p <= Len(s)
      <3>1. p \in 1..Len(s)
        BY <1>1, <2>1
      <3>2. QED BY <1>1, <1>2, <3>1, Zenon DEF ElementsOf
    <2>2. CASE ~(p <= Len(s))
      <3>1. p - Len(s) \in 1..Len(t) /\ (p - Len(s)) + Len(s) = p
        BY <1>1, <2>2
      <3>2. u[p] = t[p - Len(s)]
        BY <1>1, <3>1, Zenon
      <3>3. QED BY <1>2, <3>1, <3>2, Zenon DEF ElementsOf
    <2>3. QED BY <2>1, <2>2
  <1>4. ASSUME NEW p \in 1..Len(s) PROVE s[p] \in ElementsOf(u)
    <2>1. p \in 1..Len(u)
      BY <1>1
    <2>2. QED BY <1>1, <1>2, <2>1, Zenon DEF ElementsOf
  <1>5. ASSUME NEW p \in 1..Len(t) PROVE t[p] \in ElementsOf(u)
    <2>1. p + Len(s) \in 1..Len(u)
      BY <1>1
    <2>2. QED BY <1>1, <1>2, <2>1, Zenon DEF ElementsOf
  <1>6. ElementsOf(u) = ElementsOf(s) \cup ElementsOf(t)
    BY <1>2, <1>3, <1>4, <1>5, Zenon DEF ElementsOf
  <1>7. QED BY <1>1, <1>6, Zenon DEF u

AllAreIn(a, b, c, d, e, f, g) ==
  ElementsOf(a \o b \o c \o d \o e \o f \o g) =
    ElementsOf(a) \cup ElementsOf(b) \cup ElementsOf(c) \cup ElementsOf(d)
      \cup ElementsOf(e) \cup ElementsOf(f) \cup ElementsOf(g)
AreOver(S, B) == S \subseteq Seq(B)

LEMMA SevenJoined ==
  ASSUME NEW a, NEW b, NEW c, NEW d, NEW e, NEW f, NEW g, NEW B,
         AreOver({a, b, c, d, e, f, g}, B)
  PROVE  AllAreIn(a, b, c, d, e, f, g)
  <1>0. /\ a \in Seq(B) /\ b \in Seq(B) /\ c \in Seq(B) /\ d \in Seq(B)
        /\ e \in Seq(B) /\ f \in Seq(B) /\ g \in Seq(B)
    BY Zenon DEF AreOver
  <1> DEFINE ab == a \o b
             abc == ab \o c
             abcd == abc \o d
             abcde == abcd \o e
             abcdef == abcde \o f
  <1>1. ab \in Seq(B)
    BY <1>0
  <1>2. ElementsOf(ab) = ElementsOf(a) \cup ElementsOf(b)
    BY <1>0, JoinedElements, Zenon
  <1> HIDE DEF ab
  <1>3. abc \in Seq(B)
    BY <1>0, <1>1
  <1>4. ElementsOf(abc) = ElementsOf(ab) \cup ElementsOf(c)
    BY <1>0, <1>1, JoinedElements, Zenon
  <1> HIDE DEF abc
  <1>5. abcd \in Seq(B)
    BY <1>0, <1>3
  <1>6. ElementsOf(abcd) = ElementsOf(abc) \cup ElementsOf(d)
    BY <1>0, <1>3, JoinedElements, Zenon
  <1> HIDE DEF abcd
  <1>7. abcde \in Seq(B)
    BY <1>0, <1>5
  <1>8. ElementsOf(abcde) = ElementsOf(abcd) \cup ElementsOf(e)
    BY <1>0, <1>5, JoinedElements, Zenon
  <1> HIDE DEF abcde
  <1>9. abcdef \in Seq(B)
    BY <1>0, <1>7
  <1>10. ElementsOf(abcdef) = ElementsOf(abcde) \cup ElementsOf(f)
    BY <1>0, <1>7, JoinedElements, Zenon
  <1> HIDE DEF abcdef
  <1>11. ElementsOf(abcdef \o g) = ElementsOf(abcdef) \cup ElementsOf(g)
    BY <1>0, <1>9, JoinedElements, Zenon
  <1>12. QED
    BY <1>2, <1>4, <1>6, <1>8, <1>10, <1>11, Zenon
    DEF ab, abc, abcd, abcde, abcdef, AllAreIn

LEMMA TwoLines ==
  ASSUME NEW B, NEW s \in Seq(B), NEW t \in Seq(B), Len(s) = 1, Len(t) = 1
  PROVE  s \o t \in Seq(B) /\ Len(s \o t) = 1 + 1
  <1>1. s \o t \in Seq(B) /\ Len(s \o t) = Len(s) + Len(t)
    BY JoinedLength, Zenon
  <1>2. Len(s \o t) = 1 + 1
    BY <1>1, Zenon
  <1>3. QED BY <1>1, <1>2, Zenon

LEMMA LineCount ==
  ASSUME NEW d \in {0, 1}, NEW m \in {0, 1}, NEW v \in {0, 2}, NEW l \in {0, 2}
  PROVE  ((((((1 + 1) + d) + m) + 1) + v) + l) \in 3..9
  OBVIOUS

LEMMA OfOneLine ==
  ASSUME NEW kind, NEW shown, NEW B, [kind |-> kind, shown |-> shown] \in B
  PROVE  Cnt!Line(kind, shown) \in Seq(B) /\ Len(Cnt!Line(kind, shown)) = 1
  <1>1. QED BY SMT DEF Cnt!Line

(* The array of lines of formatter_event() has room for them, and what it  *)
(* joins is in the message.                                                *)
LEMMA MessageLines ==
  ASSUME NEW e
  PROVE  /\ Len(Cnt!formatter_event(e)) \in 3..9
         /\ ElementsOf(Cnt!formatter_event(e)) =
              ElementsOf(Cnt!Line("title", Cnt!HtmlEscaped(e.title)))
                \cup ElementsOf(Cnt!BlankLine) \cup ElementsOf(Cnt!Dates(e))
                \cup ElementsOf(Cnt!Meta(e)) \cup ElementsOf(Cnt!Place(e))
                \cup ElementsOf(Cnt!Preview(e)) \cup ElementsOf(Cnt!Links(e))
  <1> DEFINE One(kind, shown) == [kind |-> kind, shown |-> shown]
             weight == IF e.weight # NoWeight /\ e.weight > 0 THEN e.weight ELSE NoWeight
             preview == Cnt!truncate_alloc(e.description, PreviewLen)
             B == {One("title", Cnt!HtmlEscaped(e.title)), One("blank", Cnt!Empty),
                   One("dates", Cnt!DaysShown(e, TRUE)),
                   One("meta", <<Cnt!HtmlEscaped(e.format), weight>>),
                   One("place", Cnt!HtmlEscaped(e.location)), One("online", Cnt!Empty),
                   One("preview", Cnt!HtmlEscaped(preview)),
                   One("links", <<Cnt!HtmlEscaped(e.url), Cnt!HtmlEscaped(e.ctftime_url)>>)}
             title == Cnt!Line("title", Cnt!HtmlEscaped(e.title))
             blank == Cnt!Line("blank", Cnt!Empty)
             dates == Cnt!Line("dates", Cnt!DaysShown(e, TRUE))
             meta == Cnt!Line("meta", <<Cnt!HtmlEscaped(e.format), weight>>)
             place == Cnt!Line("place", Cnt!HtmlEscaped(e.location))
             online == Cnt!Line("online", Cnt!Empty)
             text == Cnt!Line("preview", Cnt!HtmlEscaped(preview))
             links == Cnt!Line("links", <<Cnt!HtmlEscaped(e.url), Cnt!HtmlEscaped(e.ctftime_url)>>)
  <1>1. /\ title \in Seq(B) /\ Len(title) = 1 /\ blank \in Seq(B) /\ Len(blank) = 1
        /\ dates \in Seq(B) /\ Len(dates) = 1 /\ meta \in Seq(B) /\ Len(meta) = 1
        /\ place \in Seq(B) /\ Len(place) = 1 /\ online \in Seq(B) /\ Len(online) = 1
        /\ text \in Seq(B) /\ Len(text) = 1 /\ links \in Seq(B) /\ Len(links) = 1
    <2>1. /\ One("title", Cnt!HtmlEscaped(e.title)) \in B /\ One("blank", Cnt!Empty) \in B
          /\ One("dates", Cnt!DaysShown(e, TRUE)) \in B
          /\ One("meta", <<Cnt!HtmlEscaped(e.format), weight>>) \in B
          /\ One("place", Cnt!HtmlEscaped(e.location)) \in B /\ One("online", Cnt!Empty) \in B
          /\ One("preview", Cnt!HtmlEscaped(preview)) \in B
          /\ One("links", <<Cnt!HtmlEscaped(e.url), Cnt!HtmlEscaped(e.ctftime_url)>>) \in B
      OBVIOUS
    <2> HIDE DEF B
    <2>2. QED BY <2>1, OfOneLine, Zenon
  <1>2. <<>> \in Seq(B) /\ Len(<<>>) = 0
    OBVIOUS
  <1>3. /\ Cnt!Dates(e) = <<>> \/ Cnt!Dates(e) = dates
        /\ Cnt!Meta(e) = <<>> \/ Cnt!Meta(e) = meta
        /\ Cnt!Place(e) = place \/ Cnt!Place(e) = online
        /\ Cnt!Preview(e) = <<>> \/ Cnt!Preview(e) = blank \o text
        /\ Cnt!Links(e) = <<>> \/ Cnt!Links(e) = blank \o links
    BY Zenon DEF Cnt!Dates, Cnt!Meta, Cnt!Place, Cnt!Preview, Cnt!Links, Cnt!BlankLine
  <1>4. Cnt!formatter_event(e) =
          title \o blank \o Cnt!Dates(e) \o Cnt!Meta(e) \o Cnt!Place(e)
            \o Cnt!Preview(e) \o Cnt!Links(e)
    BY Zenon DEF Cnt!formatter_event, Cnt!BlankLine
  <1> DEFINE d == Cnt!Dates(e)
             m == Cnt!Meta(e)
             p == Cnt!Place(e)
             v == Cnt!Preview(e)
             l == Cnt!Links(e)
  <1> HIDE DEF B, title, blank, dates, meta, place, online, text, links
  <1>5. /\ blank \o text \in Seq(B) /\ Len(blank \o text) = 1 + 1
        /\ blank \o links \in Seq(B) /\ Len(blank \o links) = 1 + 1
    BY <1>1, TwoLines, Zenon
  <1>6. d \in Seq(B) /\ Len(d) \in {0, 1}
    BY <1>1, <1>2, <1>3
  <1>7. m \in Seq(B) /\ Len(m) \in {0, 1}
    BY <1>1, <1>2, <1>3
  <1>8. p \in Seq(B) /\ Len(p) = 1
    BY <1>1, <1>3
  <1>9. v \in Seq(B) /\ Len(v) \in {0, 2}
    <2>1. CASE v = <<>>
      BY <1>2, <2>1
    <2>2. CASE v = blank \o text
      BY <1>5, <2>2
    <2>3. QED BY <1>3, <2>1, <2>2
  <1>10. l \in Seq(B) /\ Len(l) \in {0, 2}
    <2>1. CASE l = <<>>
      BY <1>2, <2>1
    <2>2. CASE l = blank \o links
      BY <1>5, <2>2
    <2>3. QED BY <1>3, <2>1, <2>2
  <1> HIDE DEF d, m, p, v, l
  <1>11. Len(title \o blank \o d \o m \o p \o v \o l)
           = ((((((1 + 1) + Len(d)) + Len(m)) + 1) + Len(v)) + Len(l))
    <2>1. title \o blank \in Seq(B) /\ Len(title \o blank) = 1 + 1
      BY <1>1, TwoLines, Zenon
    <2>2. /\ title \o blank \o d \in Seq(B)
          /\ Len(title \o blank \o d) = (1 + 1) + Len(d)
      BY <1>6, <2>1, JoinedLength, Zenon
    <2>3. /\ title \o blank \o d \o m \in Seq(B)
          /\ Len(title \o blank \o d \o m) = ((1 + 1) + Len(d)) + Len(m)
      BY <1>7, <2>2, JoinedLength, Zenon
    <2>4. /\ title \o blank \o d \o m \o p \in Seq(B)
          /\ Len(title \o blank \o d \o m \o p) = (((1 + 1) + Len(d)) + Len(m)) + 1
      <3>1. Len(p) = 1
        BY <1>8
      <3>2. /\ title \o blank \o d \o m \o p \in Seq(B)
            /\ Len(title \o blank \o d \o m \o p) = Len(title \o blank \o d \o m) + Len(p)
        BY <1>8, <2>3, JoinedLength, Zenon
      <3>3. QED BY <2>3, <3>1, <3>2
    <2>5. /\ title \o blank \o d \o m \o p \o v \in Seq(B)
          /\ Len(title \o blank \o d \o m \o p \o v)
               = ((((1 + 1) + Len(d)) + Len(m)) + 1) + Len(v)
      BY <1>9, <2>4, JoinedLength, Zenon
    <2>6. QED BY <1>10, <2>5, JoinedLength, Zenon
  <1>12. Cnt!formatter_event(e) = title \o blank \o d \o m \o p \o v \o l
    BY <1>4 DEF d, m, p, v, l
  <1>13. Len(d) \in {0, 1} /\ Len(m) \in {0, 1} /\ Len(v) \in {0, 2} /\ Len(l) \in {0, 2}
    BY <1>6, <1>7, <1>9, <1>10, Zenon
  <1>14. ((((((1 + 1) + Len(d)) + Len(m)) + 1) + Len(v)) + Len(l)) \in 3..9
    BY <1>13, LineCount, Zenon
  <1>15. AllAreIn(title, blank, d, m, p, v, l)
    <2>1. AreOver({title, blank, d, m, p, v, l}, B)
      BY <1>1, <1>6, <1>7, <1>8, <1>9, <1>10, Zenon DEF AreOver
    <2>2. QED BY <2>1, SevenJoined, Zenon
  <1>16. QED
    BY <1>11, <1>12, <1>14, <1>15, Zenon
    DEF title, blank, d, m, p, v, l, Cnt!BlankLine, AllAreIn

(* A detail has its keys and an event its columns, whatever is in them. *)
LEMMA ContentTypes ==
  ASSUME Cnt!DetailConstants
  PROVE  /\ Cnt!Init => Cnt!ContentTypeOK
         /\ Cnt!ContentTypeOK /\ [Cnt!Next]_contentVars => Cnt!ContentTypeOK'
  <1>1. Cnt!Init => Cnt!ContentTypeOK
    BY DEF Cnt!Init, Cnt!ContentTypeOK
  <1>2. ASSUME Cnt!ContentTypeOK, Cnt!Fetch PROVE Cnt!ContentTypeOK'
    <2>1. PICK batch \in Details : detail' \in batch
      BY <1>2 DEF Cnt!Fetch
    <2>2. DOMAIN detail' = DOMAIN Cnt!BlankDetail
      BY <2>1, Zenon DEF Cnt!DetailConstants
    <2>3. content_pc' = "fetched" /\ UNCHANGED <<ev, message, item>>
      BY <1>2 DEF Cnt!Fetch
    <2>4. content_pc' # "shown"
      BY <2>3
    <2>5. QED BY <1>2, <2>2, <2>3, <2>4, Zenon DEF Cnt!ContentTypeOK
  <1>3. ASSUME Cnt!ContentTypeOK, Cnt!Reject PROVE Cnt!ContentTypeOK'
    <2>1. content_pc' = "rejected" /\ UNCHANGED <<detail, ev, message, item>>
      BY <1>3 DEF Cnt!Reject
    <2>2. content_pc' # "shown"
      BY <2>1
    <2>3. QED BY <1>3, <2>1, <2>2, Zenon DEF Cnt!ContentTypeOK
  <1>4. ASSUME Cnt!ContentTypeOK, Cnt!Sanitize PROVE Cnt!ContentTypeOK'
    <2>1. /\ content_pc' = "sanitized" /\ UNCHANGED <<detail, message, item>>
          /\ ev' = Cnt!SanitizedEvent(detail)
      BY <1>4 DEF Cnt!Sanitize
    <2>2. content_pc' # "shown"
      BY <2>1
    <2>3. DOMAIN Cnt!SanitizedEvent(detail) = DOMAIN Cnt!BlankEvent
      BY SMT DEF Cnt!SanitizedEvent, Cnt!BlankEvent
    <2>4. QED BY <1>4, <2>1, <2>2, <2>3, Zenon DEF Cnt!ContentTypeOK, Cnt!Judged
  <1>5. ASSUME Cnt!ContentTypeOK, Cnt!Insert PROVE Cnt!ContentTypeOK'
    <2>1. content_pc' \in {"stored", "refused"} /\ UNCHANGED <<detail, ev, message, item>>
      BY <1>5 DEF Cnt!Insert
    <2>2. content_pc' # "shown"
      BY <2>1
    <2>3. QED BY <1>5, <2>1, <2>2, Zenon DEF Cnt!ContentTypeOK, Cnt!Judged
  <1>6. ASSUME Cnt!ContentTypeOK, Cnt!Show PROVE Cnt!ContentTypeOK'
    <2>1. /\ content_pc' = "shown" /\ UNCHANGED <<detail, ev>>
          /\ message' = Cnt!formatter_event(ev)
      BY <1>6, Zenon DEF Cnt!Show
    <2>2. Len(message') \in 3..9
      BY <2>1, MessageLines, Zenon
    <2>3. QED BY <1>6, <2>1, <2>2, Zenon DEF Cnt!ContentTypeOK, Cnt!Judged
  <1>7. ASSUME Cnt!ContentTypeOK, Cnt!Free PROVE Cnt!ContentTypeOK'
    <2>1. content_pc' = "idle" /\ detail' = Cnt!BlankDetail /\ ev' = Cnt!BlankEvent
      BY <1>7, Zenon DEF Cnt!Free
    <2>2. content_pc' = "idle"
      BY <2>1, Zenon
    <2>3. content_pc' # "shown"
      BY <2>2
    <2>4. QED BY <2>1, <2>3, Zenon DEF Cnt!ContentTypeOK
  <1>8. ASSUME Cnt!ContentTypeOK, UNCHANGED contentVars PROVE Cnt!ContentTypeOK'
    BY <1>8, Zenon DEF contentVars, Cnt!ContentTypeOK, Cnt!Judged
  <1>9. QED BY <1>1, <1>2, <1>3, <1>4, <1>5, <1>6, <1>7, <1>8, Zenon DEF Cnt!Next

(* No part leaves the types of its variables, for bytes, bodies, files and   *)
(* texts of every size: a code point never needs more bits than four bytes  *)
(* have, a message never more lines than formatter_event() has room for.    *)
(* And what config_load() accepts is, whatever the file says and in         *)
(* whatever order, in the range libcurl and sleep() are made for.           *)
THEOREM TypesAlwaysHold == Spec => []LibraryTypeOK
  <1> DEFINE Others == ConfigInv /\ Utf8Types /\ Cnt!ContentTypeOK /\ Hst!HostTypeOK
  <1>1. /\ Cfg!ConfigConstants /\ Utf!Utf8Constants
        /\ Cnt!DetailConstants /\ Hst!HostConstants
    BY LibraryAssumption
  <1>2. Init => Others
    BY <1>1, InitialConfig, InitialUtf8Types, ContentTypes, HostTypes, Zenon DEF Init
  <1>3. Others /\ [Next]_vars => Others'
    BY <1>1, StepOfPart, StepKeepsConfigInv, StepKeepsUtf8Types, ContentTypes, HostTypes,
       Zenon
  <1>4. DigestInv /\ JsonInv /\ StrBufInv /\ ResponseInv /\ StringInv /\ Others
          => LibraryTypeOK
    <2>1. DigestInv => Dig!DigestTypeOK
      BY Zenon DEF DigestInv
    <2>2. JsonInv => Jsn!JsonTypeOK
      BY Zenon DEF JsonInv
    <2>3. StrBufInv /\ ResponseInv => Str!StrBufTypeOK /\ Rsp!HttpTypeOK
      BY Zenon DEF StrBufInv, ResponseInv
    <2>4. Utf8Types => Utf!Utf8TypeOK
      BY Zenon DEF Utf8Types
    <2>5. QED BY <2>1, <2>2, <2>3, <2>4, ConfigTypes, StringTypes, Zenon DEF LibraryTypeOK
  <1> HIDE DEF Others
  <1>5. Spec => []Others
    BY <1>2, <1>3, PTL DEF Spec
  <1>6. QED
    BY <1>4, <1>5, DigestInvariant, JsonInvariant, BufferInvariant, StringInvariant, PTL
-----------------------------------------------------------------------------
(* What is left of a text has no character that it had not. *)
Keeping(f, s, removed, n) ==
  f = [m \in 0..n |-> IF m = 0 THEN Cnt!Empty
                      ELSE IF m \in removed THEN f[m - 1] ELSE Append(f[m - 1], s[m])]

LEMMA WithoutKeeps ==
  ASSUME NEW B, NEW s \in Seq(B), NEW removed
  PROVE  Cnt!Without(s, removed) \in Seq(B)
  <1> DEFINE L == Len(s)
             V == Seq(B)
             G == [mr \in (1..L) \X V |->
                     IF mr[1] \in removed THEN mr[2] ELSE Append(mr[2], s[mr[1]])]
             f == CHOOSE h : Keeping(h, s, removed, L)
  <1>1. Cnt!Without(s, removed) = f[L]
    BY Zenon DEF Cnt!Without, Keeping
  <1>2. L \in Nat /\ (\A m \in 1..L : s[m] \in B) /\ <<>> \in V
    OBVIOUS
  <1>3. \A m \in 1..L, r \in V : Append(r, s[m]) \in V
    BY <1>2
  <1> HIDE DEF V, L, f
  <1>4. G \in [(1..L) \X V -> V]
    <2>1. \A mr \in (1..L) \X V : mr[1] \in 1..L /\ mr[2] \in V
      OBVIOUS
    <2>2. \A mr \in (1..L) \X V :
            (IF mr[1] \in removed THEN mr[2] ELSE Append(mr[2], s[mr[1]])) \in V
      BY <1>3, <2>1, Zenon
    <2>3. QED BY <2>2, Zenon
  <1>5. ASSUME NEW m \in 1..L, NEW r \in V
        PROVE  G[m, r] = IF m \in removed THEN r ELSE Append(r, s[m])
    <2>1. <<m, r>> \in (1..L) \X V /\ <<m, r>>[1] = m /\ <<m, r>>[2] = r
      OBVIOUS
    <2>2. QED BY <2>1, Zenon
  <1> HIDE DEF G
  <1>6. PICK g : Follows(g, G, V, <<>>, L)
    BY <1>2, <1>4, RecursionUpTo
  <1>7. /\ g \in [0..L -> V] /\ g[0] = <<>>
        /\ \A m \in 1..L : g[m] = IF m \in removed THEN g[m - 1] ELSE Append(g[m - 1], s[m])
    <2>1. g \in [0..L -> V] /\ g[0] = <<>> /\ \A m \in 1..L : g[m] = G[m, g[m - 1]]
      BY <1>6, Zenon DEF Follows
    <2>2. \A m \in 1..L : m - 1 \in 0..L
      BY <1>2
    <2>3. \A m \in 1..L : g[m - 1] \in V
      BY <2>1, <2>2, Zenon
    <2>4. QED BY <1>5, <2>1, <2>3, Zenon
  <1>8. Keeping(g, s, removed, L)
    <2>1. \A m \in 0..L : m = 0 \/ (m # 0 /\ m \in 1..L)
      BY <1>2
    <2> DEFINE h == [m \in 0..L |-> IF m = 0 THEN Cnt!Empty
                       ELSE IF m \in removed THEN g[m - 1] ELSE Append(g[m - 1], s[m])]
    <2>2. \A m \in 0..L : g[m] = h[m]
      BY <1>7, <2>1, Zenon DEF Cnt!Empty
    <2>3. g = [m \in 0..L |-> g[m]]
      BY <1>7, Zenon
    <2>4. g = h
      BY <2>2, <2>3, Zenon
    <2>5. QED BY <2>4, Zenon DEF Keeping
  <1>9. Keeping(f, s, removed, L)
    BY <1>8, Zenon DEF f
  <1>10. /\ f[0] = <<>>
         /\ \A m \in 1..L : f[m] = IF m \in removed THEN f[m - 1] ELSE Append(f[m - 1], s[m])
    <2>1. 0 \in 0..L /\ \A m \in 1..L : m \in 0..L /\ m # 0
      BY <1>2
    <2>2. QED BY <1>9, <2>1, Zenon DEF Keeping, Cnt!Empty
  <1> DEFINE S == {m \in 0..L : f[m] \in V}
  <1>11. 0 \in S
    <2>1. 0 \in 0..L
      BY <1>2
    <2>2. QED BY <1>2, <1>10, <2>1, Zenon
  <1>12. ASSUME NEW m \in 1..L, m - 1 \in S PROVE m \in S
    <2>1. m \in 0..L /\ f[m - 1] \in V
      BY <1>2, <1>12
    <2>2. f[m] \in V
      BY <1>3, <1>10, <2>1, Zenon
    <2>3. QED BY <2>1, <2>2
  <1> HIDE DEF S
  <1>13. \A m \in 0..L : m \in S
    BY <1>2, <1>11, <1>12, InductionUpTo
  <1>14. L \in S
    BY <1>2, <1>13
  <1>15. f[L] \in V
    BY <1>14, Zenon DEF S
  <1>16. QED BY <1>1, <1>15, Zenon DEF V

(* A non-empty set of positions has a first and a last. *)
LEMMA Ends ==
  ASSUME NEW L \in Nat, NEW S, S \subseteq 1..L, S # {}
  PROVE  /\ Cnt!Min(S) \in S /\ Cnt!Max(S) \in S /\ Cnt!Min(S) <= Cnt!Max(S)
         /\ \A n \in S : Cnt!Min(S) <= n /\ n <= Cnt!Max(S)
  <1>1. \E n \in S : \A m \in S : n <= m
    <2>1. S \subseteq Nat
      OBVIOUS
    <2>2. QED BY <2>1, Least
  <1>2. \E n \in S : \A m \in S : n >= m
    <2> DEFINE T == {L - m : m \in S}
    <2>0. \A m \in S : m \in Nat /\ L - m \in Nat
      OBVIOUS
    <2>1. T \subseteq Nat /\ T # {}
      BY <2>0, Zenon
    <2> HIDE DEF T
    <2>2. PICK k \in T : \A m \in T : k <= m
      BY <2>1, Least
    <2>3. PICK n \in S : k = L - n
      BY <2>2 DEF T
    <2>4. \A m \in S : L - n <= L - m
      BY <2>2, <2>3 DEF T
    <2>5. \A m \in S : n >= m
      BY <2>4
    <2>6. QED BY <2>5
  <1>3. Cnt!Min(S) \in S /\ \A m \in S : Cnt!Min(S) <= m
    BY <1>1, Zenon DEF Cnt!Min
  <1>4. Cnt!Max(S) \in S /\ \A m \in S : Cnt!Max(S) >= m
    BY <1>2, Zenon DEF Cnt!Max
  <1>5. \A n \in S : n <= Cnt!Max(S)
    <2>1. S \subseteq Int
      OBVIOUS
    <2> DEFINE b == Cnt!Max(S)
    <2>2. b \in S /\ \A m \in S : b >= m
      BY <1>4
    <2> HIDE DEF b
    <2>3. \A m \in S : m <= b
      BY <2>1, <2>2
    <2>4. QED BY <2>3, Zenon DEF b
  <1>6. QED BY <1>3, <1>4, <1>5, Zenon

(* A text is trimmed and cut to a part of it. *)
IsPart(t, s, off) ==
    /\ off \in Nat /\ off + Len(t) <= Len(s)
    /\ \A k \in 1..Len(t) : t[k] = s[k + off]

LEMMA SubSeqIsPart ==
  ASSUME NEW B, NEW s \in Seq(B), NEW a \in 1..Len(s), NEW b \in 1..Len(s), a <= b
  PROVE  SubSeq(s, a, b) \in Seq(B) /\ IsPart(SubSeq(s, a, b), s, a - 1)
  <1> DEFINE t == SubSeq(s, a, b)
  <1>1. Len(s) \in Nat /\ a \in Nat /\ b \in Nat /\ a - 1 \in Nat
    OBVIOUS
  <1>2. t \in Seq(B) /\ Len(t) = (b - a) + 1 /\ \A k \in 1..Len(t) : t[k] = s[(a + k) - 1]
    <2>1. \A p \in a..b : p \in 1..Len(s)
      BY <1>1
    <2>2. QED BY <1>1, <2>1, SubSeqProperties
  <1> HIDE DEF t
  <1>3. (a - 1) + Len(t) <= Len(s)
    BY <1>1, <1>2
  <1>4. \A k \in 1..Len(t) : (a + k) - 1 = k + (a - 1)
    BY <1>1, <1>2
  <1>5. QED BY <1>1, <1>2, <1>3, <1>4 DEF IsPart, t

LEMMA TrimIsPart ==
  ASSUME NEW B, NEW s \in Seq(B)
  PROVE  Cnt!Trim(s) \in Seq(B) /\ \E off \in Nat : IsPart(Cnt!Trim(s), s, off)
  <1> DEFINE solid == {p \in DOMAIN s : ~Cnt!IsTrimmed(s[p])}
  <1>1. Cnt!Trim(s) = IF solid = {} THEN <<>> ELSE SubSeq(s, Cnt!Min(solid), Cnt!Max(solid))
    BY Zenon DEF Cnt!Trim, Cnt!Empty
  <1>2. Len(s) \in Nat /\ solid \subseteq 1..Len(s)
    OBVIOUS
  <1> HIDE DEF solid
  <1>3. CASE solid = {}
    <2>1. <<>> \in Seq(B) /\ IsPart(<<>>, s, 0)
      BY <1>2 DEF IsPart
    <2>2. QED BY <1>1, <1>3, <2>1
  <1>4. CASE solid # {}
    <2> DEFINE a == Cnt!Min(solid)
               b == Cnt!Max(solid)
    <2>1. a \in solid /\ b \in solid /\ a <= b
      BY <1>2, <1>4, Ends
    <2>2. a \in 1..Len(s) /\ b \in 1..Len(s)
      BY <1>2, <2>1, Zenon
    <2> HIDE DEF a, b
    <2>3. SubSeq(s, a, b) \in Seq(B) /\ IsPart(SubSeq(s, a, b), s, a - 1) /\ a - 1 \in Nat
      BY <2>1, <2>2, SubSeqIsPart
    <2>4. Cnt!Trim(s) = SubSeq(s, a, b)
      BY <1>1, <1>4 DEF a, b
    <2>5. QED BY <2>3, <2>4
  <1>5. QED BY <1>3, <1>4

LEMMA CutIsPart ==
  ASSUME NEW B, NEW s \in Seq(B), NEW n \in Nat
  PROVE  /\ Cnt!Cut(s, n) \in Seq(B) /\ IsPart(Cnt!Cut(s, n), s, 0)
  <1>1. CASE Len(s) <= n
    <2>1. Cnt!Cut(s, n) = s
      BY <1>1 DEF Cnt!Cut
    <2>2. IsPart(s, s, 0)
      BY DEF IsPart
    <2>3. QED BY <2>1, <2>2
  <1>2. CASE ~(Len(s) <= n)
    <2>1. Cnt!Cut(s, n) = SubSeq(s, 1, n)
      BY <1>2 DEF Cnt!Cut
    <2> DEFINE t == SubSeq(s, 1, n)
    <2>2. t \in Seq(B) /\ Len(t) = n /\ \A k \in 1..n : t[k] = s[k]
      BY <1>2
    <2> HIDE DEF t
    <2>3. IsPart(t, s, 0)
      BY <1>2, <2>2 DEF IsPart
    <2>4. QED BY <2>1, <2>2, <2>3 DEF t
  <1>3. QED BY <1>1, <1>2

(* Sanitizing adds no character but blanks. *)
HasBlank(B) == " " \in B
HasEllipsis(B) == "..." \in B

LEMMA CollapseKeeps ==
  ASSUME NEW B, HasBlank(B), NEW s \in Seq(B)
  PROVE  Cnt!Collapse(s) \in Seq(B)
  <1>1. Len(s) \in Nat /\ DOMAIN s = 1..Len(s) /\ \A p \in 1..Len(s) : s[p] \in B
    OBVIOUS
  <1>2. Cnt!Blanked(s) \in [1..Len(s) -> B]
    BY <1>1, Zenon DEF HasBlank, Cnt!Blanked
  <1>3. Cnt!Blanked(s) \in Seq(B)
    BY <1>1, <1>2, IsASeq
  <1>4. QED BY <1>3, WithoutKeeps, Zenon DEF Cnt!Collapse

LEMMA SanitizedKeeps ==
  ASSUME NEW B, HasBlank(B), NEW s \in Seq(B), NEW n \in Nat
  PROVE  Cnt!Sanitized(s, n) \in Seq(B)
  <1>1. CASE ~Cnt!utf8_valid(s)
    BY <1>1 DEF Cnt!Sanitized, Cnt!Empty
  <1>2. CASE Cnt!utf8_valid(s)
    <2> DEFINE stripped == Cnt!StripTags(s)
               collapsed == Cnt!Collapse(stripped)
               trimmed == Cnt!Trim(collapsed)
    <2>1. stripped \in Seq(B)
      BY WithoutKeeps, Zenon DEF Cnt!StripTags
    <2> HIDE DEF stripped
    <2>2. collapsed \in Seq(B)
      BY <2>1, CollapseKeeps
    <2> HIDE DEF collapsed
    <2>3. trimmed \in Seq(B)
      BY <2>2, TrimIsPart
    <2> HIDE DEF trimmed
    <2>4. Cnt!Cut(trimmed, n) \in Seq(B)
      BY <2>3, CutIsPart
    <2>5. Cnt!Sanitized(s, n) = Cnt!Cut(trimmed, n)
      BY <1>2, Zenon DEF Cnt!Sanitized, stripped, collapsed, trimmed
    <2>6. QED BY <2>4, <2>5
  <1>3. QED BY <1>1, <1>2

LEMMA SubSeqTwo ==
  ASSUME NEW B, NEW s \in Seq(B), NEW p \in 1..Len(s), p + 1 <= Len(s)
  PROVE  SubSeq(s, p, p + 1) = <<s[p], s[p + 1]>>
  <1> DEFINE t == SubSeq(s, p, p + 1)
  <1>1. t \in Seq(B) /\ Len(t) = 2 /\ t[1] = s[p] /\ t[2] = s[p + 1]
    BY SubSeqProperties
  <1> HIDE DEF t
  <1>2. t = <<t[1], t[2]>>
    BY <1>1
  <1>3. QED BY <1>1, <1>2, Zenon DEF t

LEMMA StartsWith ==
  ASSUME NEW s, NEW p, NEW word, NEW last, p + Len(word) - 1 = last
  PROVE  Cnt!StartsAt(s, p, word) <=> last <= Len(s) /\ SubSeq(s, p, last) = word
  BY Zenon DEF Cnt!StartsAt

LEMMA StartsWithTwo ==
  ASSUME NEW B, NEW s \in Seq(B), NEW p \in 1..Len(s), NEW x, NEW y
  PROVE  Cnt!StartsAt(s, p, <<x, y>>) <=> p + 1 <= Len(s) /\ s[p] = x /\ s[p + 1] = y
  <1>1. p + Len(<<x, y>>) - 1 = p + 1
    OBVIOUS
  <1> DEFINE word == <<x, y>>
             last == p + 1
  <1>2. Cnt!StartsAt(s, p, word) <=> last <= Len(s) /\ SubSeq(s, p, last) = word
    <2> HIDE DEF word, last
    <2>1. p + Len(word) - 1 = last
      BY <1>1 DEF word, last
    <2>2. QED BY <2>1, StartsWith, Zenon
  <1>3. <<s[p], s[p + 1]>> = <<x, y>> <=> s[p] = x /\ s[p + 1] = y
    OBVIOUS
  <1>4. QED BY <1>2, <1>3, SubSeqTwo, Zenon

LEMMA StartsWithOne ==
  ASSUME NEW B, NEW s \in Seq(B), NEW p \in 1..Len(s), NEW x
  PROVE  Cnt!StartsAt(s, p, <<x>>) <=> s[p] = x
  <1>1. p + Len(<<x>>) - 1 = p /\ p <= Len(s)
    OBVIOUS
  <1> DEFINE word == <<x>>
             last == p
  <1>2. Cnt!StartsAt(s, p, word) <=> last <= Len(s) /\ SubSeq(s, p, last) = word
    <2> HIDE DEF word, last
    <2>1. p + Len(word) - 1 = last
      BY <1>1 DEF word, last
    <2>2. QED BY <2>1, StartsWith, Zenon
  <1> DEFINE t == SubSeq(s, p, p)
  <1>3. t \in Seq(B) /\ Len(t) = 1 /\ t[1] = s[p]
    BY SubSeqProperties
  <1> HIDE DEF t
  <1>4. t = <<t[1]>>
    BY <1>3
  <1>5. <<s[p]>> = <<x>> <=> s[p] = x
    OBVIOUS
  <1>6. QED BY <1>1, <1>2, <1>3, <1>4, <1>5, Zenon DEF t

(* A template by its characters. *)
Two(s, p, x, y) == p + 1 <= Len(s) /\ s[p] = x /\ s[p + 1] = y
Template(s, p, q) ==
    /\ q >= p + 2
    /\ \/ Two(s, p, "{", "{") /\ Two(s, q, "}", "}")
       \/ Two(s, p, "{", "%") /\ Two(s, q, "%", "}")
       \/ Two(s, p, "<", "%") /\ Two(s, q, "%", ">")
       \/ Two(s, p, "$", "{") /\ s[q] = "}"
       \/ Two(s, p, "#", "{") /\ s[q] = "}"

LEMMA SstiIsTemplate ==
  ASSUME NEW B, NEW s \in Seq(B)
  PROVE  Cnt!Ssti(s) <=> \E p, q \in 1..Len(s) : Template(s, p, q)
  <1> DEFINE Match(b, p, q) == /\ Cnt!StartsAt(s, p, b[1]) /\ Cnt!StartsAt(s, q, b[2])
                               /\ q >= p + Len(b[1])
  <1>1. DOMAIN s = 1..Len(s)
    OBVIOUS
  <1>2. Cnt!Ssti(s) <=> \E b \in Cnt!Brackets : \E p, q \in 1..Len(s) : Match(b, p, q)
    BY <1>1, Zenon DEF Cnt!Ssti
  <1>3. ASSUME NEW p \in 1..Len(s), NEW q \in 1..Len(s)
        PROVE  (\E b \in Cnt!Brackets : Match(b, p, q)) <=> Template(s, p, q)
    <2>1. \A x, y : Len(<<x, y>>) = 2 /\ <<x, y>>[1] = x /\ <<x, y>>[2] = y
      OBVIOUS
    <2>2. \A x, y : /\ Cnt!StartsAt(s, p, <<x, y>>) <=> Two(s, p, x, y)
                    /\ Cnt!StartsAt(s, q, <<x, y>>) <=> Two(s, q, x, y)
      BY StartsWithTwo, Zenon DEF Two
    <2>3. \A x : Cnt!StartsAt(s, q, <<x>>) <=> s[q] = x
      BY StartsWithOne, Zenon
    <2>4. \A v, w, x, y : Match(<<<<v, w>>, <<x, y>>>>, p, q) <=>
                            Two(s, p, v, w) /\ Two(s, q, x, y) /\ q >= p + 2
      BY <2>1, <2>2, Zenon
    <2>5. \A v, w, x : Match(<<<<v, w>>, <<x>>>>, p, q) <=>
                         Two(s, p, v, w) /\ s[q] = x /\ q >= p + 2
      BY <2>1, <2>2, <2>3, Zenon
    <2>6. (\E b \in Cnt!Brackets : Match(b, p, q)) <=>
            \/ Match(<<<<"{", "{">>, <<"}", "}">>>>, p, q)
            \/ Match(<<<<"{", "%">>, <<"%", "}">>>>, p, q)
            \/ Match(<<<<"<", "%">>, <<"%", ">">>>>, p, q)
            \/ Match(<<<<"$", "{">>, <<"}">>>>, p, q)
            \/ Match(<<<<"#", "{">>, <<"}">>>>, p, q)
      <3> HIDE DEF Match
      <3>1. QED BY Zenon DEF Cnt!Brackets
    <2> HIDE DEF Match
    <2>7. QED BY <2>4, <2>5, <2>6, Zenon DEF Template
  <1> HIDE DEF Match
  <1>4. QED BY <1>2, <1>3, Zenon

(* A part of a text has no template that the text has not, and an ellipsis *)
(* makes none.                                                              *)
IsCut(t, u) == t = u \/ t = Append(u, "...")
LEMMA TemplateOfPart ==
  ASSUME NEW B, NEW s \in Seq(B), NEW u \in Seq(B), NEW off, IsPart(u, s, off),
         HasEllipsis(B), NEW t, IsCut(t, u), Cnt!Ssti(t)
  PROVE  Cnt!Ssti(s)
  <1>1. t \in Seq(B)
    <2>1. \A e \in B : Append(u, e) \in Seq(B)
      OBVIOUS
    <2>2. QED BY <2>1, Zenon DEF IsCut, HasEllipsis
  <1>2. PICK p \in 1..Len(t), q \in 1..Len(t) : Template(t, p, q)
    BY <1>1, SstiIsTemplate
  <1>3. /\ Len(u) \in Nat /\ Len(s) \in Nat /\ off \in Nat /\ off + Len(u) <= Len(s)
        /\ \A k \in 1..Len(u) : u[k] = s[k + off]
    BY DEF IsPart
  <1>4. /\ Len(t) <= Len(u) + 1
        /\ \A k \in 1..Len(u) : t[k] = u[k]
        /\ Len(t) = Len(u) + 1 => t[Len(u) + 1] = "..."
    <2>1. CASE t = u
      BY <1>3, <2>1
    <2>2. CASE t = Append(u, "...")
      BY <2>2, AppendFacts
    <2>3. QED BY <2>1, <2>2, Zenon DEF IsCut
  <1>5. ASSUME NEW k \in 1..Len(t), t[k] # "..."
        PROVE  k + off \in 1..Len(s) /\ k \in 1..Len(u) /\ t[k] = s[k + off]
    <2>1. k # Len(u) + 1
      BY <1>1, <1>3, <1>4, <1>5
    <2>2. k \in 1..Len(u)
      BY <1>1, <1>3, <1>4, <2>1
    <2>3. QED BY <1>3, <1>4, <2>2
  <1>6. ASSUME NEW k \in 1..Len(t), NEW x, NEW y, x # "...", y # "...", Two(t, k, x, y)
        PROVE  k + off \in 1..Len(s) /\ Two(s, k + off, x, y)
    <2>1. k \in Nat /\ k + 1 \in 1..Len(t) /\ t[k] = x /\ t[k + 1] = y
      BY <1>1, <1>6 DEF Two
    <2>2. k + off \in 1..Len(s) /\ s[k + off] = x
      BY <1>5, <1>6, <2>1
    <2>3. (k + 1) + off \in 1..Len(s) /\ s[(k + 1) + off] = y
      BY <1>5, <1>6, <2>1
    <2>4. (k + 1) + off = (k + off) + 1
      BY <1>3, <2>1
    <2>5. QED BY <1>3, <2>1, <2>2, <2>3, <2>4 DEF Two
  <1>7. q >= p + 2 => q + off >= (p + off) + 2
    BY <1>1, <1>3
  <1>8. Template(s, p + off, q + off) /\ p + off \in 1..Len(s) /\ q + off \in 1..Len(s)
    <2>1. "{" # "..." /\ "}" # "..." /\ "%" # "..." /\ "<" # "..." /\ ">" # "..."
          /\ "$" # "..." /\ "#" # "..."
      OBVIOUS
    <2>2. q + off >= (p + off) + 2
      BY <1>2, <1>7, Zenon DEF Template
    <2>3. CASE Two(t, p, "{", "{") /\ Two(t, q, "}", "}")
      BY <1>6, <2>1, <2>2, <2>3, Zenon DEF Template
    <2>4. CASE Two(t, p, "{", "%") /\ Two(t, q, "%", "}")
      BY <1>6, <2>1, <2>2, <2>4, Zenon DEF Template
    <2>5. CASE Two(t, p, "<", "%") /\ Two(t, q, "%", ">")
      BY <1>6, <2>1, <2>2, <2>5, Zenon DEF Template
    <2>6. CASE Two(t, p, "$", "{") /\ t[q] = "}"
      BY <1>5, <1>6, <2>1, <2>2, <2>6, Zenon DEF Template
    <2>7. CASE Two(t, p, "#", "{") /\ t[q] = "}"
      BY <1>5, <1>6, <2>1, <2>2, <2>7, Zenon DEF Template
    <2>8. QED BY <1>2, <2>3, <2>4, <2>5, <2>6, <2>7, Zenon DEF Template
  <1>9. QED BY <1>8, SstiIsTemplate, Zenon
(* HtmlReading goes character by character. *)
ReadStart == [text |-> Cnt!Empty, open |-> <<>>]
Reads(f, s, n) ==
  f = [m \in 0..n |-> IF m = 0 THEN ReadStart ELSE Cnt!ReadNext(f[m - 1], s[m])]
HtmlReading(s) == Cnt!ReadUpTo(s)[Len(s)]

LEMMA ReadsExist ==
  ASSUME NEW s, NEW L \in Nat
  PROVE  \E f : Reads(f, s, L)
  <1> DEFINE S == {n \in Nat : \E f : Reads(f, s, n)}
  <1>1. 0 \in S
    <2> DEFINE f == [m \in 0..0 |-> ReadStart]
    <2>1. f = [m \in 0..0 |-> IF m = 0 THEN ReadStart ELSE Cnt!ReadNext(f[m - 1], s[m])]
      OBVIOUS
    <2> HIDE DEF f
    <2>2. QED BY <2>1 DEF Reads
  <1>2. \A n \in 1..L : n - 1 \in S => n \in S
    <2> SUFFICES ASSUME NEW n \in 1..L, NEW f, Reads(f, s, n - 1)
                 PROVE  \E g : Reads(g, s, n)
      OBVIOUS
    <2> DEFINE g == [m \in 0..n |-> IF m < n THEN f[m] ELSE Cnt!ReadNext(f[n - 1], s[n])]
               h == [m \in 0..n |-> IF m = 0 THEN ReadStart ELSE Cnt!ReadNext(g[m - 1], s[m])]
    <2>1. \A m \in 0..n : g[m] = h[m]
      <3> TAKE m \in 0..n
      <3>1. CASE m = 0
        BY <3>1 DEF Reads
      <3>2. CASE m # 0 /\ m < n
        <4>1. m \in 0..(n - 1) /\ m - 1 \in 0..n /\ m - 1 < n
          BY <3>2
        <4>2. g[m] = f[m] /\ g[m - 1] = f[m - 1]
          BY <3>2, <4>1
        <4>3. f[m] = Cnt!ReadNext(f[m - 1], s[m])
          BY <3>2, <4>1 DEF Reads
        <4>4. QED BY <3>2, <4>2, <4>3
      <3>3. CASE m = n
        <4>1. m - 1 \in 0..n /\ m - 1 < n /\ m # 0
          BY <3>3
        <4>2. g[m - 1] = f[m - 1]
          BY <4>1
        <4>3. QED BY <3>3, <4>1, <4>2
      <3>4. QED BY <3>1, <3>2, <3>3
    <2>2. g = h
      BY <2>1
    <2> HIDE DEF g
    <2>3. QED BY <2>2 DEF Reads
  <1> HIDE DEF S
  <1>3. L \in S
    BY <1>1, <1>2, InductionUpTo
  <1>4. QED BY <1>3 DEF S

LEMMA ReadUpToReads == ASSUME NEW s, Len(s) \in Nat PROVE Reads(Cnt!ReadUpTo(s), s, Len(s))
  <1>1. Cnt!ReadUpTo(s) = CHOOSE f : Reads(f, s, Len(s))
    BY Zenon DEF Cnt!ReadUpTo, Reads, ReadStart
  <1>2. QED BY <1>1, ReadsExist, Zenon

LEMMA ReadsAgree ==
  ASSUME NEW s, NEW t, NEW L \in Nat, NEW M \in Nat, L <= M,
         \A m \in 1..L : s[m] = t[m],
         NEW f, Reads(f, s, L), NEW g, Reads(g, t, M)
  PROVE  \A n \in 0..L : f[n] = g[n]
  <1> DEFINE S == {n \in 0..L : f[n] = g[n]}
  <1>1. 0 \in S
    BY DEF Reads
  <1>2. ASSUME NEW n \in 1..L, n - 1 \in S PROVE n \in S
    <2>1. n \in 0..L /\ n \in 0..M /\ n # 0
      OBVIOUS
    <2>2. /\ f[n] = Cnt!ReadNext(f[n - 1], s[n])
          /\ g[n] = Cnt!ReadNext(g[n - 1], t[n])
      BY <2>1 DEF Reads
    <2>3. QED BY <1>2, <2>1, <2>2
  <1> HIDE DEF S
  <1>3. \A n \in 0..L : n \in S
    BY <1>1, <1>2, InductionUpTo
  <1>4. QED BY <1>3 DEF S

LEMMA HtmlReadingOfEmpty == HtmlReading(<<>>) = ReadStart
  <1>1. Reads(Cnt!ReadUpTo(<<>>), <<>>, 0)
    BY ReadUpToReads
  <1>2. QED BY <1>1 DEF Reads, HtmlReading

LEMMA HtmlReadingOfLonger ==
  ASSUME NEW B, NEW s \in Seq(B), NEW c \in B
  PROVE  HtmlReading(Append(s, c)) = Cnt!ReadNext(HtmlReading(s), c)
  <1> DEFINE t == Append(s, c)
             L == Len(s)
             f == Cnt!ReadUpTo(s)
             g == Cnt!ReadUpTo(t)
  <1>1. L \in Nat /\ Len(t) = L + 1 /\ t[L + 1] = c /\ \A m \in 1..L : s[m] = t[m]
    OBVIOUS
  <1>2. Reads(f, s, L) /\ Reads(g, t, L + 1)
    <2>1. Reads(f, s, L)
      BY <1>1, ReadUpToReads
    <2> HIDE DEF t
    <2>2. Reads(g, t, Len(t))
      BY <1>1, ReadUpToReads
    <2>3. QED BY <1>1, <2>1, <2>2
  <1>3. HtmlReading(s) = f[L] /\ HtmlReading(t) = g[L + 1]
    BY <1>1 DEF HtmlReading
  <1> HIDE DEF t, L, f, g
  <1>4. f[L] = g[L]
    BY <1>1, <1>2, ReadsAgree
  <1>5. g[L + 1] = Cnt!ReadNext(g[L], t[L + 1])
    BY <1>1, <1>2 DEF Reads
  <1>6. QED BY <1>1, <1>3, <1>4, <1>5 DEF t

(* An escaped character is read as itself. *)
Quoted(c) == IF c \in DOMAIN Cnt!Entity THEN <<"&", Cnt!Entity[c], ";">> ELSE <<c>>
Read0(text) == [text |-> text, open |-> <<>>]

LEMMA EntityIs ==
  /\ DOMAIN Cnt!Entity = {"<", ">", "&", "\"", "'"}
  /\ Cnt!Entity["<"] = "lt" /\ Cnt!Entity[">"] = "gt" /\ Cnt!Entity["&"] = "amp"
  /\ Cnt!Entity["\""] = "quot" /\ Cnt!Entity["'"] = "#039"
  BY Zenon DEF Cnt!Entity

LEMMA EntityNames ==
  ASSUME NEW c \in DOMAIN Cnt!Entity
  PROVE  Cnt!Named(Cnt!Entity[c]) = {c}
  <1>1. ASSUME NEW d \in DOMAIN Cnt!Entity, Cnt!Entity[d] = Cnt!Entity[c] PROVE d = c
    BY <1>1, EntityIs, Zenon
  <1>2. QED BY <1>1, Zenon DEF Cnt!Named

LEMMA ReadPlain ==
  ASSUME NEW text, NEW c, c \notin DOMAIN Cnt!Entity
  PROVE  Cnt!ReadNext(Read0(text), c) = Read0(Append(text, c))
  <1>1. c \notin {"<", "&"}
    BY Zenon DEF Cnt!Entity
  <1> DEFINE r == Read0(text)
  <1>2. r.open = <<>> /\ r.text = text /\ [r EXCEPT !.text = Append(r.text, c)] = Read0(Append(text, c))
    BY SMT DEF Read0
  <1> HIDE DEF r
  <1>3. Cnt!ReadNext(r, c) = [r EXCEPT !.text = Append(r.text, c)]
    BY <1>1, <1>2 DEF Cnt!ReadNext
  <1>4. QED BY <1>2, <1>3, Zenon DEF r

LEMMA ReadEntity ==
  ASSUME NEW text, NEW c \in DOMAIN Cnt!Entity
  PROVE  Cnt!ReadNext(Cnt!ReadNext(Cnt!ReadNext(Read0(text), "&"), Cnt!Entity[c]), ";")
           = Read0(Append(text, c))
  <1> DEFINE name == Cnt!Entity[c]
             r1 == [text |-> text, open |-> <<"&">>]
             r2 == [text |-> text, open |-> <<"&", name>>]
  <1>1. Cnt!ReadNext(Read0(text), "&") = r1
    BY DEF Cnt!ReadNext, Read0
  <1>2. Cnt!ReadNext(r1, name) = r2
    BY DEF Cnt!ReadNext
  <1>3. Cnt!ReadNext(r2, ";") = Read0(Append(text, c))
    <2>1. Cnt!Named(name) = {c} /\ Cnt!Named(name) # {} /\ (CHOOSE d \in Cnt!Named(name) : TRUE) = c
      <3>1. Cnt!Named(name) = {c}
        BY EntityNames, Zenon
      <3>2. QED BY <3>1
    <2> HIDE DEF name
    <2>2. r2.text = text /\ r2.open[2] = name /\ Len(r2.open) = 2
          /\ r2.open # <<>> /\ r2.open # <<"&">>
      OBVIOUS
    <2> HIDE DEF r2
    <2>3. Cnt!ReadNext(r2, ";") = [text |-> Append(r2.text, CHOOSE d \in Cnt!Named(name) : TRUE),
                                   open |-> <<>>]
      BY <2>1, <2>2, Zenon DEF Cnt!ReadNext
    <2>4. QED BY <2>1, <2>2, <2>3, Zenon DEF Read0
  <1> HIDE DEF name, r1, r2
  <1>4. QED BY <1>1, <1>2, <1>3, Zenon DEF name

(* So an escaped text of any length reads as the text: what was escaped of  *)
(* it, one character after the other.                                       *)
AllQuoted(s) == [p \in DOMAIN s |-> Quoted(s[p])]

LEMMA HtmlEscapedIs == ASSUME NEW s PROVE Cnt!HtmlEscaped(s) = Utf!FlattenSeq(AllQuoted(s))
  <1>1. Cnt!HtmlEscaped(s) = Cnt!FlattenSeq(AllQuoted(s))
    BY Zenon DEF Cnt!HtmlEscaped, AllQuoted, Quoted
  <1>2. Cnt!FlattenSeq(AllQuoted(s)) = Utf!FlattenSeq(AllQuoted(s))
    BY Zenon DEF Cnt!FlattenSeq, Utf!FlattenSeq
  <1>3. QED BY <1>1, <1>2, Zenon

LEMMA ShortText ==
  ASSUME NEW B, NEW x \in B, NEW y \in B, NEW z \in B
  PROVE  <<x>> \in Seq(B) /\ <<x, y, z>> \in Seq(B)
  OBVIOUS

LEMMA Appended ==
  ASSUME NEW B, NEW s \in Seq(B), NEW c \in B
  PROVE  /\ Append(s, c) \in Seq(B) /\ Len(s) \in Nat /\ Len(Append(s, c)) = Len(s) + 1
         /\ Append(s, c)[Len(s) + 1] = c /\ \A p \in 1..Len(s) : Append(s, c)[p] = s[p]
         /\ DOMAIN s = 1..Len(s) /\ DOMAIN Append(s, c) = 1..(Len(s) + 1)
  OBVIOUS

Quoting(B) == \A c \in B : Quoted(c) \in Seq(B)

Marks == {" ", "...", "&", ";", "lt", "gt", "amp", "quot", "#039"}

LEMMA QuotedIsText == ASSUME NEW B, Marks \subseteq B PROVE Quoting(B)
  <1> SUFFICES ASSUME NEW c \in B PROVE Quoted(c) \in Seq(B)
    BY Zenon DEF Quoting
  <1>1. CASE c \in DOMAIN Cnt!Entity
    <2>1. Cnt!Entity[c] \in Marks
      BY <1>1, EntityIs, Zenon DEF Marks
    <2>2. "&" \in Marks /\ ";" \in Marks
      BY Zenon DEF Marks
    <2>3. QED BY <1>1, <2>1, <2>2, ShortText, Zenon DEF Quoted
  <1>2. CASE c \notin DOMAIN Cnt!Entity
    BY <1>2, ShortText, Zenon DEF Quoted
  <1>3. QED BY <1>1, <1>2, Zenon

LEMMA AllQuotedAreTexts == ASSUME NEW B, Quoting(B), NEW s \in Seq(B) PROVE AllQuoted(s) \in Seq(Seq(B))
  <1>1. DOMAIN s = 1..Len(s) /\ Len(s) \in Nat /\ \A p \in 1..Len(s) : s[p] \in B
    OBVIOUS
  <1>2. AllQuoted(s) \in [1..Len(s) -> Seq(B)]
    BY <1>1, Zenon DEF AllQuoted, Quoting
  <1>3. QED BY <1>1, <1>2, IsASeq

LEMMA AllQuotedOfLonger ==
  ASSUME NEW B, Quoting(B), NEW s \in Seq(B), NEW c \in B
  PROVE  AllQuoted(Append(s, c)) = Append(AllQuoted(s), Quoted(c))
  <1> DEFINE t == Append(s, c)
             e == AllQuoted(s)
             f == Append(e, Quoted(c))
  <1>1. /\ Len(s) \in Nat /\ t \in Seq(B) /\ Len(t) = Len(s) + 1
        /\ t[Len(s) + 1] = c /\ \A p \in 1..Len(s) : t[p] = s[p]
        /\ DOMAIN t = 1..(Len(s) + 1) /\ DOMAIN s = 1..Len(s)
    OBVIOUS
  <1>2. Quoted(c) \in Seq(B) /\ e \in Seq(Seq(B)) /\ AllQuoted(t) \in Seq(Seq(B))
    BY <1>1, AllQuotedAreTexts, Zenon DEF Quoting
  <1>3. DOMAIN e = 1..Len(s) /\ Len(e) = Len(s)
    <2>1. DOMAIN e = DOMAIN s
      BY Zenon DEF AllQuoted
    <2> HIDE DEF e
    <2>2. QED BY <1>1, <1>2, <2>1
  <1>4. /\ f \in Seq(Seq(B)) /\ Len(f) = Len(s) + 1 /\ f[Len(s) + 1] = Quoted(c)
        /\ \A p \in 1..Len(s) : f[p] = e[p]
    <2> HIDE DEF e
    <2>1. QED BY <1>2, <1>3, AppendProperties
  <1>5. DOMAIN AllQuoted(t) = 1..(Len(s) + 1) /\ Len(AllQuoted(t)) = Len(s) + 1
    <2>1. DOMAIN AllQuoted(t) = DOMAIN t
      BY Zenon DEF AllQuoted
    <2> DEFINE g == AllQuoted(t)
    <2>2. g \in Seq(Seq(B)) /\ DOMAIN g = 1..(Len(s) + 1)
      BY <1>1, <1>2, <2>1, Zenon
    <2> HIDE DEF g
    <2>3. Len(g) = Len(s) + 1
      BY <1>1, <2>2
    <2>4. QED BY <2>2, <2>3, Zenon DEF g
  <1>6. ASSUME NEW p \in 1..(Len(s) + 1) PROVE AllQuoted(t)[p] = f[p]
    <2>1. AllQuoted(t)[p] = Quoted(t[p])
      BY <1>1, <1>6, Zenon DEF AllQuoted
    <2>2. CASE p = Len(s) + 1
      BY <1>1, <1>4, <2>1, <2>2, Zenon
    <2>3. CASE p # Len(s) + 1
      <3>1. p \in 1..Len(s)
        BY <1>1, <2>3
      <3>2. e[p] = Quoted(s[p])
        BY <1>1, <3>1, Zenon DEF AllQuoted
      <3>3. QED BY <1>1, <1>4, <2>1, <3>1, <3>2, Zenon
    <2>4. QED BY <2>2, <2>3, Zenon
  <1> DEFINE g == AllQuoted(t)
  <1>7. g \in Seq(Seq(B)) /\ Len(g) = Len(f) /\ \A p \in 1..Len(g) : g[p] = f[p]
    BY <1>2, <1>4, <1>5, <1>6, Zenon
  <1> HIDE DEF f, g
  <1>8. g = f
    BY <1>4, <1>7
  <1>9. QED BY <1>8, Zenon DEF f, g

LEMMA JoinIsAppend ==
  ASSUME NEW B, NEW h \in Seq(B), NEW x \in B, NEW y \in B, NEW z \in B
  PROVE  /\ h \o <<x>> = Append(h, x)
         /\ Append(h, x) \in Seq(B) /\ Append(Append(h, x), y) \in Seq(B)
         /\ Append(Append(Append(h, x), y), z) \in Seq(B)
  OBVIOUS

LEMMA HtmlReadingOfThree ==
  ASSUME NEW B, NEW h \in Seq(B), NEW x \in B, NEW y \in B, NEW z \in B
  PROVE  /\ h \o <<x, y, z>> \in Seq(B)
         /\ HtmlReading(h \o <<x, y, z>>)
              = Cnt!ReadNext(Cnt!ReadNext(Cnt!ReadNext(HtmlReading(h), x), y), z)
  <1>1. HtmlReading(Append(h, x)) = Cnt!ReadNext(HtmlReading(h), x) /\ Append(h, x) \in Seq(B)
    BY JoinIsAppend, HtmlReadingOfLonger, Zenon
  <1>2. /\ HtmlReading(Append(Append(h, x), y)) = Cnt!ReadNext(HtmlReading(Append(h, x)), y)
        /\ Append(Append(h, x), y) \in Seq(B)
    BY <1>1, JoinIsAppend, HtmlReadingOfLonger, Zenon
  <1>3. /\ HtmlReading(Append(Append(Append(h, x), y), z))
             = Cnt!ReadNext(HtmlReading(Append(Append(h, x), y)), z)
        /\ Append(Append(Append(h, x), y), z) \in Seq(B)
    BY <1>2, JoinIsAppend, HtmlReadingOfLonger, Zenon
  <1>4. h \o <<x, y, z>> = Append(Append(Append(h, x), y), z)
    OBVIOUS
  <1>5. QED BY <1>1, <1>2, <1>3, <1>4, Zenon

LEMMA QuotedIsRead ==
  ASSUME NEW B, Marks \subseteq B, NEW h \in Seq(B), NEW c \in B, NEW seen,
         HtmlReading(h) = Read0(seen)
  PROVE  /\ h \o Quoted(c) \in Seq(B)
         /\ HtmlReading(h \o Quoted(c)) = Read0(Append(seen, c))
  <1>1. ASSUME c \in DOMAIN Cnt!Entity
        PROVE  /\ h \o Quoted(c) \in Seq(B)
               /\ HtmlReading(h \o Quoted(c)) = Read0(Append(seen, c))
    <2>1. Cnt!Entity[c] \in B /\ "&" \in B /\ ";" \in B
      BY <1>1, EntityIs, Zenon DEF Marks
    <2>2. Quoted(c) = <<"&", Cnt!Entity[c], ";">>
      BY <1>1, Zenon DEF Quoted
    <2>3. Cnt!ReadNext(Cnt!ReadNext(Cnt!ReadNext(HtmlReading(h), "&"), Cnt!Entity[c]), ";")
            = Read0(Append(seen, c))
      BY <1>1, ReadEntity, Zenon
    <2> DEFINE amp == "&"
               name == Cnt!Entity[c]
               end == ";"
    <2>4. amp \in B /\ name \in B /\ end \in B
      BY <2>1, Zenon
    <2> HIDE DEF amp, name, end
    <2>5. /\ h \o <<amp, name, end>> \in Seq(B)
          /\ HtmlReading(h \o <<amp, name, end>>)
               = Cnt!ReadNext(Cnt!ReadNext(Cnt!ReadNext(HtmlReading(h), amp), name), end)
      BY <2>4, HtmlReadingOfThree
    <2>6. QED BY <2>2, <2>3, <2>5, Zenon DEF amp, name, end
  <1>2. ASSUME c \notin DOMAIN Cnt!Entity
        PROVE  /\ h \o Quoted(c) \in Seq(B)
               /\ HtmlReading(h \o Quoted(c)) = Read0(Append(seen, c))
    <2>1. h \o Quoted(c) = Append(h, c) /\ Append(h, c) \in Seq(B)
      BY <1>2, JoinIsAppend, Zenon DEF Quoted
    <2>2. HtmlReading(Append(h, c)) = Cnt!ReadNext(HtmlReading(h), c)
      BY HtmlReadingOfLonger, Zenon
    <2>3. QED BY <1>2, <2>1, <2>2, ReadPlain, Zenon
  <1>3. QED BY <1>1, <1>2, Zenon

LEMMA PrefixGrows ==
  ASSUME NEW B, NEW s \in Seq(B), NEW n \in 1..Len(s)
  PROVE  SubSeq(s, 1, n) = Append(SubSeq(s, 1, n - 1), s[n])
  OBVIOUS

LEMMA Prefixes ==
  ASSUME NEW B, NEW s \in Seq(B)
  PROVE  /\ SubSeq(s, 1, 0) = <<>> /\ SubSeq(s, 1, Len(s)) = s /\ Len(s) \in Nat
         /\ \A n \in 0..Len(s) : SubSeq(s, 1, n) \in Seq(B)
         /\ \A n \in 1..Len(s) : n - 1 \in 0..Len(s) /\ n \in 0..Len(s) /\ s[n] \in B
  OBVIOUS

LEMMA ReadsAsIs ==
  ASSUME NEW B, Marks \subseteq B, NEW s \in Seq(B)
  PROVE  Cnt!Read(Cnt!HtmlEscaped(s)) = s
  <1> DEFINE Pre(n) == SubSeq(s, 1, n)
             Out(n) == Utf!FlattenSeq(AllQuoted(Pre(n)))
             Holds(n) == Out(n) \in Seq(B) /\ HtmlReading(Out(n)) = Read0(Pre(n))
             S == {n \in 0..Len(s) : Holds(n)}
  <1>0. Quoting(B)
    BY QuotedIsText, Zenon
  <1>1. 0 \in S
    <2>1. Pre(0) = <<>> /\ 0 \in 0..Len(s)
      BY Prefixes
    <2>2. AllQuoted(<<>>) = <<>>
      BY DEF AllQuoted
    <2>3. Out(0) = <<>>
      BY <2>1, <2>2, FlattenOfEmpty, Zenon
    <2>4. HtmlReading(<<>>) = Read0(<<>>) /\ <<>> \in Seq(B)
      BY HtmlReadingOfEmpty DEF ReadStart, Read0, Cnt!Empty
    <2>5. QED BY <2>1, <2>3, <2>4, Zenon
  <1>2. ASSUME NEW n \in 1..Len(s), n - 1 \in S PROVE n \in S
    <2>1. Holds(n - 1) /\ n \in 0..Len(s) /\ n - 1 \in 0..Len(s) /\ s[n] \in B
      BY <1>2, Prefixes, Zenon
    <2>2. Pre(n) = Append(Pre(n - 1), s[n]) /\ Pre(n - 1) \in Seq(B)
      BY <2>1, Prefixes, PrefixGrows, Zenon
    <2>3. AllQuoted(Pre(n)) = Append(AllQuoted(Pre(n - 1)), Quoted(s[n]))
      BY <1>0, <2>1, <2>2, AllQuotedOfLonger, Zenon
    <2>4. AllQuoted(Pre(n - 1)) \in Seq(Seq(B)) /\ Quoted(s[n]) \in Seq(B)
      BY <1>0, <2>1, <2>2, AllQuotedAreTexts, Zenon DEF Quoting
    <2>5. Out(n) = Out(n - 1) \o Quoted(s[n])
      BY <2>3, <2>4, FlattenOfLonger, Zenon
    <2>6. Holds(n)
      <3>1. Out(n - 1) \in Seq(B) /\ HtmlReading(Out(n - 1)) = Read0(Pre(n - 1))
        BY <2>1, Zenon
      <3> HIDE DEF Out, Pre
      <3>2. /\ Out(n - 1) \o Quoted(s[n]) \in Seq(B)
            /\ HtmlReading(Out(n - 1) \o Quoted(s[n])) = Read0(Append(Pre(n - 1), s[n]))
        BY <2>1, <3>1, QuotedIsRead
      <3>3. QED BY <2>2, <2>5, <3>2, Zenon
    <2>7. QED BY <2>1, <2>6, Zenon
  <1> HIDE DEF S
  <1>3. Len(s) \in S
    <2>1. Len(s) \in Nat /\ Len(s) \in 0..Len(s)
      OBVIOUS
    <2>2. QED BY <1>1, <1>2, <2>1, InductionUpTo, Zenon
  <1>4. Pre(Len(s)) = s /\ Holds(Len(s))
    BY <1>3, Prefixes, Zenon DEF S
  <1>5. HtmlReading(Cnt!HtmlEscaped(s)) = Read0(s)
    BY <1>4, HtmlEscapedIs, Zenon
  <1>6. Read0(s).open = <<>> /\ Read0(s).text = s
    BY Zenon DEF Read0
  <1>7. QED BY <1>5, <1>6, Zenon DEF Cnt!Read, HtmlReading

(* A text without the characters that each pattern needs is not withheld. *)
Unsuspected(s) == \A p \in 1..Len(s) : s[p] \notin Cnt!Suspicious

LEMMA PlainIsSafe ==
  ASSUME NEW B, NEW s \in Seq(B), Unsuspected(s)
  PROVE  Cnt!is_safe_string(s)
  <1>1. DOMAIN s = 1..Len(s) /\ Len(s) \in Nat
    OBVIOUS
  <1>2. ASSUME NEW p \in 1..Len(s)
        PROVE  /\ s[p] # "{" /\ s[p] # "%" /\ s[p] # "-" /\ s[p] # ";"
               /\ s[p] # "union" /\ s[p] # "drop"
    BY Zenon DEF Unsuspected, Cnt!Suspicious
  <1>3. ASSUME NEW p \in 1..Len(s), p + 1 <= Len(s) PROVE s[p + 1] # "{" /\ s[p + 1] # "%"
    <2>1. p + 1 \in 1..Len(s)
      BY <1>1, <1>3
    <2>2. QED BY <1>2, <2>1, Zenon
  <1>4. ~Cnt!Ssti(s)
    <2>1. \A p, q \in 1..Len(s) : ~Template(s, p, q)
      BY <1>2, <1>3, Zenon DEF Template, Two
    <2>2. QED BY <2>1, SstiIsTemplate, Zenon
  <1>5. ~Cnt!UnionSelect(s)
    BY <1>1, <1>2, Zenon DEF Cnt!UnionSelect
  <1>6. ~Cnt!DropTable(s)
    BY <1>1, <1>2, Zenon DEF Cnt!DropTable
  <1>7. ~Cnt!CommentAtEnd(s)
    BY <1>1, <1>2, StartsWithTwo, Zenon DEF Cnt!CommentAtEnd
  <1>8. ~Cnt!SecondStatement(s)
    BY <1>1, <1>2, Zenon DEF Cnt!SecondStatement
  <1>9. QED BY <1>4, <1>5, <1>6, <1>7, <1>8, Zenon DEF Cnt!is_safe_string

LEMMA RangeIs ==
  ASSUME NEW s
  PROVE  Cnt!Range(s) = {s[p] : p \in DOMAIN s}
  BY Zenon DEF Cnt!Range

LEMMA InWider == ASSUME NEW A, NEW B, A \subseteq B, NEW s \in Seq(A) PROVE s \in Seq(B)
  OBVIOUS

LEMMA ElementsIn ==
  ASSUME NEW B, NEW s \in Seq(B)
  PROVE  DOMAIN s = 1..Len(s) /\ \A p \in 1..Len(s) : s[p] \in B
  OBVIOUS

(* Nor is what is stored of it. *)
LEMMA PlainAndStored ==
  ASSUME NEW s, Cnt!IsText(s), Cnt!Range(s) \cap Cnt!Suspicious = {}, NEW n \in Nat
  PROVE  Cnt!is_safe_string(s) /\ Cnt!is_safe_string(Cnt!Sanitized(s, n))
  <1> DEFINE A == Cnt!Range(s)
             B == A \cup {" "}
             t == Cnt!Sanitized(s, n)
  <1>1. s \in Seq(A) /\ A \subseteq B /\ HasBlank(B)
    BY Zenon DEF Cnt!IsText, HasBlank
  <1>2. s \in Seq(B)
    BY <1>1, InWider, Zenon
  <1>3. t \in Seq(B)
    BY <1>1, <1>2, SanitizedKeeps, Zenon
  <1>4. \A c \in B : c \notin Cnt!Suspicious
    BY Zenon DEF Cnt!Suspicious
  <1> HIDE DEF A, B, t
  <1>5. Unsuspected(s) /\ Unsuspected(t)
    BY <1>2, <1>3, <1>4, ElementsIn, Zenon DEF Unsuspected
  <1>6. QED BY <1>2, <1>3, <1>5, PlainIsSafe, Zenon DEF t

(* What the preview shows is a part of the description, and an ellipsis. *)
LEMMA TruncatedIsPart ==
  ASSUME NEW B, HasEllipsis(B), NEW s \in Seq(B), NEW n \in Nat
  PROVE  /\ Cnt!truncate_alloc(s, n) \in Seq(B)
         /\ Cnt!Ssti(Cnt!truncate_alloc(s, n)) => Cnt!Ssti(s)
  <1> DEFINE copy == Cnt!Trim(s)
             u == Cnt!Cut(copy, n)
             t == Cnt!truncate_alloc(s, n)
  <1>1. PICK off \in Nat : copy \in Seq(B) /\ IsPart(copy, s, off)
    BY TrimIsPart, Zenon
  <1>2. IsCut(t, u)
    BY Zenon DEF Cnt!truncate_alloc, Cnt!Cut, IsCut
  <1> HIDE DEF copy
  <1>3. u \in Seq(B) /\ IsPart(u, copy, 0)
    BY <1>1, CutIsPart
  <1> HIDE DEF u, t
  <1>4. IsPart(u, s, off)
    BY <1>1, <1>3 DEF IsPart
  <1>5. t \in Seq(B)
    <2>1. \A e \in B : Append(u, e) \in Seq(B)
      BY <1>3
    <2>2. QED BY <1>2, <1>3, <2>1, Zenon DEF IsCut, HasEllipsis
  <1>6. Cnt!Ssti(t) => Cnt!Ssti(s)
    BY <1>2, <1>3, <1>4, TemplateOfPart, Zenon
  <1>7. QED BY <1>5, <1>6, Zenon DEF t

(* The lines that the parts of a message are. *)
Aline(kind, shown) == [kind |-> kind, shown |-> shown]
DatesOf(e) == Aline("dates", Cnt!DaysShown(e, TRUE))
TitleOf(e) == Aline("title", Cnt!HtmlEscaped(e.title))
PlaceOf(e) == Aline("place", Cnt!HtmlEscaped(e.location))
TextOf(e) == Cnt!truncate_alloc(e.description, PreviewLen)
PreviewOf(e) == Aline("preview", Cnt!HtmlEscaped(TextOf(e)))
LinksOf(e) == Aline("links", <<Cnt!HtmlEscaped(e.url), Cnt!HtmlEscaped(e.ctftime_url)>>)
Linked(e) == ~(e.url = Cnt!Empty /\ e.ctftime_url = Cnt!Empty)

LEMMA ElementsOfLines ==
  /\ ElementsOf(<<>>) = {}
  /\ \A l : ElementsOf(<<l>>) = {l}
  /\ \A l, k : ElementsOf(<<l>> \o <<k>>) = {l, k}
  <1>1. ElementsOf(<<>>) = {}
    BY DEF ElementsOf
  <1>2. ASSUME NEW l PROVE ElementsOf(<<l>>) = {l}
    BY DEF ElementsOf
  <1>3. ASSUME NEW l, NEW k PROVE ElementsOf(<<l>> \o <<k>>) = {l, k}
    <2> DEFINE B == {l, k}
    <2>1. l \in B /\ k \in B
      OBVIOUS
    <2> HIDE DEF B
    <2>2. <<l>> \in Seq(B) /\ <<k>> \in Seq(B)
      BY <2>1
    <2>3. ElementsOf(<<l>> \o <<k>>) = ElementsOf(<<l>>) \cup ElementsOf(<<k>>)
      BY <2>2, JoinedElements, Zenon
    <2>4. QED BY <1>2, <2>3
  <1>4. QED BY <1>1, <1>2, <1>3, Zenon

LEMMA PartsOfMessage ==
  ASSUME NEW e
  PROVE  /\ ElementsOf(Cnt!Line("title", Cnt!HtmlEscaped(e.title))) = {TitleOf(e)}
         /\ ElementsOf(Cnt!BlankLine) = {Aline("blank", Cnt!Empty)}
         /\ ElementsOf(Cnt!Dates(e)) = IF e.start_time = NoTime THEN {} ELSE {DatesOf(e)}
         /\ \A l \in ElementsOf(Cnt!Meta(e)) : \E x : l = Aline("meta", x)
         /\ ElementsOf(Cnt!Place(e)) =
              {IF Cnt!OnSite(e) THEN PlaceOf(e) ELSE Aline("online", Cnt!Empty)}
         /\ ElementsOf(Cnt!Preview(e)) =
              IF TextOf(e) = Cnt!Empty THEN {} ELSE {Aline("blank", Cnt!Empty), PreviewOf(e)}
         /\ ElementsOf(Cnt!Links(e)) =
              IF Linked(e) THEN {Aline("blank", Cnt!Empty), LinksOf(e)} ELSE {}
  <1>0. \A kind, shown : Cnt!Line(kind, shown) = <<Aline(kind, shown)>>
    BY Zenon DEF Cnt!Line, Aline
  <1>1. ElementsOf(Cnt!Line("title", Cnt!HtmlEscaped(e.title))) = {TitleOf(e)}
    BY <1>0, ElementsOfLines, Zenon DEF TitleOf
  <1>2. ElementsOf(Cnt!BlankLine) = {Aline("blank", Cnt!Empty)}
    BY <1>0, ElementsOfLines, Zenon DEF Cnt!BlankLine
  <1>3. ElementsOf(Cnt!Dates(e)) = IF e.start_time = NoTime THEN {} ELSE {DatesOf(e)}
    BY <1>0, ElementsOfLines, Zenon DEF Cnt!Dates, DatesOf
  <1>4. \A l \in ElementsOf(Cnt!Meta(e)) : \E x : l = Aline("meta", x)
    <2> DEFINE weight == IF e.weight # NoWeight /\ e.weight > 0 THEN e.weight ELSE NoWeight
               x == <<Cnt!HtmlEscaped(e.format), weight>>
    <2>1. Cnt!Meta(e) = <<>> \/ Cnt!Meta(e) = <<Aline("meta", x)>>
      BY <1>0, Zenon DEF Cnt!Meta
    <2> HIDE DEF x
    <2>2. ElementsOf(Cnt!Meta(e)) = {} \/ ElementsOf(Cnt!Meta(e)) = {Aline("meta", x)}
      BY <2>1, ElementsOfLines, Zenon
    <2>3. \A l \in ElementsOf(Cnt!Meta(e)) : l = Aline("meta", x)
      BY <2>2, Zenon
    <2>4. QED BY <2>3, Zenon
  <1>5. ElementsOf(Cnt!Place(e)) =
          {IF Cnt!OnSite(e) THEN PlaceOf(e) ELSE Aline("online", Cnt!Empty)}
    BY <1>0, ElementsOfLines, Zenon DEF Cnt!Place, PlaceOf
  <1>6. ElementsOf(Cnt!Preview(e)) =
          IF TextOf(e) = Cnt!Empty THEN {} ELSE {Aline("blank", Cnt!Empty), PreviewOf(e)}
    <2>1. Cnt!Preview(e) = IF TextOf(e) = Cnt!Empty THEN <<>>
                           ELSE <<Aline("blank", Cnt!Empty)>> \o <<PreviewOf(e)>>
      BY <1>0, Zenon DEF Cnt!Preview, Cnt!BlankLine, PreviewOf, TextOf
    <2>2. QED BY <2>1, ElementsOfLines, Zenon
  <1>7. ElementsOf(Cnt!Links(e)) =
          IF Linked(e) THEN {Aline("blank", Cnt!Empty), LinksOf(e)} ELSE {}
    <2>1. Cnt!Links(e) = IF Linked(e) THEN <<Aline("blank", Cnt!Empty)>> \o <<LinksOf(e)>>
                         ELSE <<>>
      BY <1>0, Zenon DEF Cnt!Links, Cnt!BlankLine, LinksOf, Linked
    <2>2. QED BY <2>1, ElementsOfLines, Zenon
  <1>8. QED BY <1>1, <1>2, <1>3, <1>4, <1>5, <1>6, <1>7

(* So a message shows of a kind what the event has of it. *)
OneOf(kind, shown) ==
  /\ Aline(kind, shown) \in ElementsOf(message)
  /\ \A l \in ElementsOf(message) : l.kind = kind => l = Aline(kind, shown)
NoneOf(kind) == \A l \in ElementsOf(message) : l.kind # kind

LEMMA ShownOf ==
  ASSUME NEW kind
  PROVE  /\ \A shown : OneOf(kind, shown) => Cnt!Shown(kind) = shown
         /\ NoneOf(kind) => Cnt!Shown(kind) = Cnt!Empty
  <1> DEFINE at == {p \in DOMAIN message : message[p].kind = kind}
  <1>1. Cnt!Shown(kind) = IF at = {} THEN Cnt!Empty ELSE message[CHOOSE p \in at : TRUE].shown
    BY Zenon DEF Cnt!Shown
  <1>2. at # {} => (CHOOSE p \in at : TRUE) \in at
    BY Zenon
  <1>3. \A x, y : Aline(x, y).kind = x /\ Aline(x, y).shown = y
    BY Zenon DEF Aline
  <1>4. ASSUME NEW shown, OneOf(kind, shown) PROVE Cnt!Shown(kind) = shown
    <2>1. at # {}
      <3>1. PICK q \in DOMAIN message : message[q] = Aline(kind, shown)
        BY <1>4, Zenon DEF OneOf, ElementsOf
      <3>2. message[q].kind = kind
        BY <1>3, <3>1, Zenon
      <3>3. QED BY <3>2, Zenon
    <2>2. PICK p \in DOMAIN message : message[p].kind = kind /\ Cnt!Shown(kind) = message[p].shown
      BY <1>1, <1>2, <2>1, Zenon
    <2>3. message[p] = Aline(kind, shown)
      BY <1>4, <2>2, Zenon DEF OneOf, ElementsOf
    <2>4. QED BY <1>3, <2>2, <2>3, Zenon
  <1>5. ASSUME NoneOf(kind) PROVE at = {}
    BY <1>5, Zenon DEF NoneOf, ElementsOf
  <1>6. QED BY <1>1, <1>4, <1>5, Zenon

LEMMA ShownIs ==
  ASSUME NEW e, message = Cnt!formatter_event(e)
  PROVE  /\ Cnt!Shown("title") = Cnt!HtmlEscaped(e.title)
         /\ Cnt!Shown("dates") =
              IF e.start_time = NoTime THEN Cnt!Empty ELSE Cnt!DaysShown(e, TRUE)
         /\ Cnt!Shown("place") =
              IF Cnt!OnSite(e) THEN Cnt!HtmlEscaped(e.location) ELSE Cnt!Empty
         /\ Cnt!Shown("preview") =
              IF TextOf(e) = Cnt!Empty THEN Cnt!Empty ELSE Cnt!HtmlEscaped(TextOf(e))
         /\ Linked(e) => Cnt!Shown("links") =
              <<Cnt!HtmlEscaped(e.url), Cnt!HtmlEscaped(e.ctftime_url)>>
  <1> DEFINE M == ElementsOf(message)
             title == TitleOf(e)
             dates == DatesOf(e)
             place == PlaceOf(e)
             preview == PreviewOf(e)
             links == LinksOf(e)
             blank == Aline("blank", Cnt!Empty)
             online == Aline("online", Cnt!Empty)
  <1>1. \A l : l \in M <=>
          \/ l = title \/ l = blank
          \/ l = dates /\ e.start_time # NoTime
          \/ l \in ElementsOf(Cnt!Meta(e))
          \/ l = place /\ Cnt!OnSite(e)
          \/ l = online /\ ~Cnt!OnSite(e)
          \/ l = preview /\ TextOf(e) # Cnt!Empty
          \/ l = links /\ Linked(e)
    <2>1. M = ElementsOf(Cnt!Line("title", Cnt!HtmlEscaped(e.title)))
                \cup ElementsOf(Cnt!BlankLine) \cup ElementsOf(Cnt!Dates(e))
                \cup ElementsOf(Cnt!Meta(e)) \cup ElementsOf(Cnt!Place(e))
                \cup ElementsOf(Cnt!Preview(e)) \cup ElementsOf(Cnt!Links(e))
      BY MessageLines, Zenon
    <2> HIDE DEF M
    <2>2. M = {title} \cup {blank} \cup (IF e.start_time = NoTime THEN {} ELSE {dates})
                \cup ElementsOf(Cnt!Meta(e)) \cup {IF Cnt!OnSite(e) THEN place ELSE online}
                \cup (IF TextOf(e) = Cnt!Empty THEN {} ELSE {blank, preview})
                \cup (IF Linked(e) THEN {blank, links} ELSE {})
      BY <2>1, PartsOfMessage, Zenon
    <2> HIDE DEF title, dates, place, preview, links, blank, online
    <2>3. QED BY <2>2
  <1>2. /\ title.kind = "title" /\ blank.kind = "blank" /\ dates.kind = "dates"
        /\ place.kind = "place" /\ online.kind = "online" /\ preview.kind = "preview"
        /\ links.kind = "links" /\ \A l \in ElementsOf(Cnt!Meta(e)) : l.kind = "meta"
    <2>1. \A x, y : Aline(x, y).kind = x
      BY Zenon DEF Aline
    <2>2. /\ title.kind = "title" /\ blank.kind = "blank" /\ dates.kind = "dates"
          /\ place.kind = "place" /\ online.kind = "online"
          /\ preview.kind = "preview" /\ links.kind = "links"
      BY <2>1, Zenon DEF TitleOf, DatesOf, PlaceOf, PreviewOf, LinksOf
    <2>3. \A l \in ElementsOf(Cnt!Meta(e)) : l.kind = "meta"
      <3>1. \A l \in ElementsOf(Cnt!Meta(e)) : \E x : l = Aline("meta", x)
        BY PartsOfMessage, Zenon
      <3>2. QED BY <2>1, <3>1, Zenon
    <2>4. QED BY <2>2, <2>3, Zenon
  <1> HIDE DEF M, title, dates, place, preview, links, blank, online
  <1>3. title \in M /\ \A l \in M : l.kind = "title" => l = title
    BY <1>1, <1>2, Zenon
  <1>4. /\ e.start_time # NoTime => dates \in M
        /\ \A l \in M : l.kind = "dates" => l = dates /\ e.start_time # NoTime
    BY <1>1, <1>2, Zenon
  <1>5. /\ Cnt!OnSite(e) => place \in M
        /\ \A l \in M : l.kind = "place" => l = place /\ Cnt!OnSite(e)
    BY <1>1, <1>2, Zenon
  <1>6. /\ TextOf(e) # Cnt!Empty => preview \in M
        /\ \A l \in M : l.kind = "preview" => l = preview /\ TextOf(e) # Cnt!Empty
    BY <1>1, <1>2, Zenon
  <1>7. /\ Linked(e) => links \in M
        /\ \A l \in M : l.kind = "links" => l = links /\ Linked(e)
    BY <1>1, <1>2, Zenon
  <1>8. Cnt!Shown("title") = Cnt!HtmlEscaped(e.title)
    BY <1>3, ShownOf, Zenon DEF OneOf, M, title, TitleOf
  <1>9. Cnt!Shown("dates") =
          IF e.start_time = NoTime THEN Cnt!Empty ELSE Cnt!DaysShown(e, TRUE)
    BY <1>4, ShownOf, Zenon DEF OneOf, NoneOf, M, dates, DatesOf
  <1>10. Cnt!Shown("place") =
           IF Cnt!OnSite(e) THEN Cnt!HtmlEscaped(e.location) ELSE Cnt!Empty
    BY <1>5, ShownOf, Zenon DEF OneOf, NoneOf, M, place, PlaceOf
  <1>11. Cnt!Shown("preview") =
           IF TextOf(e) = Cnt!Empty THEN Cnt!Empty ELSE Cnt!HtmlEscaped(TextOf(e))
    BY <1>6, ShownOf, Zenon DEF OneOf, NoneOf, M, preview, PreviewOf
  <1>12. Linked(e) => Cnt!Shown("links") =
           <<Cnt!HtmlEscaped(e.url), Cnt!HtmlEscaped(e.ctftime_url)>>
    BY <1>7, ShownOf, Zenon DEF OneOf, NoneOf, M, links, LinksOf
  <1>13. QED BY <1>8, <1>9, <1>10, <1>11, <1>12

LEMMA NoneInEmpty == ~Cnt!Ssti(Cnt!Empty) /\ Cnt!Read(Cnt!Empty) = Cnt!Empty
  <1>1. HtmlReading(<<>>) = Read0(<<>>)
    BY HtmlReadingOfEmpty, Zenon DEF ReadStart, Read0, Cnt!Empty
  <1>2. Read0(<<>>).open = <<>> /\ Read0(<<>>).text = <<>>
    BY Zenon DEF Read0
  <1>3. Cnt!Read(<<>>) = <<>>
    BY <1>1, <1>2, Zenon DEF Cnt!Read, HtmlReading
  <1>4. DOMAIN <<>> = {}
    OBVIOUS
  <1>5. ~Cnt!Ssti(<<>>)
    BY <1>4, Zenon DEF Cnt!Ssti
  <1>6. QED BY <1>3, <1>5, Zenon DEF Cnt!Empty

LEMMA NoTemplateInLines ==
  ASSUME NEW B, Marks \subseteq B, PreviewLen \in Nat, NEW e,
         e.title \in Seq(B), e.location \in Seq(B), e.description \in Seq(B),
         ~Cnt!Ssti(e.title), ~Cnt!Ssti(e.location), ~Cnt!Ssti(e.description),
         message = Cnt!formatter_event(e)
  PROVE  \A kind \in {"title", "place", "preview"} : ~Cnt!Ssti(Cnt!Read(Cnt!Shown(kind)))
  <1> DEFINE preview == TextOf(e)
  <1>1. preview \in Seq(B) /\ ~Cnt!Ssti(preview)
    <2>1. HasEllipsis(B)
      BY Zenon DEF Marks, HasEllipsis
    <2>2. QED BY <2>1, TruncatedIsPart, Zenon DEF TextOf
  <1>2. /\ Cnt!Read(Cnt!HtmlEscaped(e.title)) = e.title
        /\ Cnt!Read(Cnt!HtmlEscaped(e.location)) = e.location
        /\ Cnt!Read(Cnt!HtmlEscaped(preview)) = preview
    BY <1>1, ReadsAsIs, Zenon
  <1>3. QED BY <1>1, <1>2, ShownIs, NoneInEmpty, Zenon

(* The texts served are texts, and what is stored is made of them. *)
LEMMA ServedAreTexts ==
  ASSUME Cnt!DetailConstants, NEW batch \in Details, NEW raw \in batch,
         NEW key \in {"title", "description", "location", "format", "url",
                  "ctftime_url"}
  PROVE  Cnt!IsText(Cnt!String(raw, key))
  <1>1. CASE raw[key].type = "string"
    BY <1>1, Zenon DEF Cnt!DetailConstants, Cnt!String, Cnt!json_get_string
  <1>2. CASE raw[key].type # "string"
    <2>1. Cnt!String(raw, key) = <<>>
      BY <1>2, Zenon DEF Cnt!String, Cnt!json_get_string, Cnt!Empty
    <2>2. \A A : <<>> \in Seq(A)
      OBVIOUS
    <2>3. QED BY <2>1, <2>2, Zenon DEF Cnt!IsText
  <1>3. QED BY <1>1, <1>2, Zenon

(* What holds of the event under way. *)
EventInv ==
  /\ content_pc # "idle" => \E batch \in Details : detail \in batch
  /\ Cnt!Judged => ev = Cnt!SanitizedEvent(detail)
  /\ content_pc = "shown" =>
        message = Cnt!formatter_event(ev) /\ item = Cnt!DigestItem(ev)

LEMMA StepKeepsEventInv ==
  ASSUME EventInv, [Cnt!Next]_contentVars
  PROVE  EventInv'
  <1>1. CASE Cnt!Fetch
    <2>1. content_pc' = "fetched" /\ \E batch \in Details : detail' \in batch
      BY <1>1, Zenon DEF Cnt!Fetch
    <2>2. QED BY <2>1, Zenon DEF EventInv, Cnt!Judged
  <1>2. CASE Cnt!Reject
    <2>1. content_pc = "fetched" /\ content_pc' = "rejected" /\ detail' = detail
      BY <1>2, Zenon DEF Cnt!Reject
    <2>2. QED BY <2>1, Zenon DEF EventInv, Cnt!Judged
  <1>3. CASE Cnt!Sanitize
    <2>1. /\ content_pc = "fetched" /\ content_pc' = "sanitized" /\ detail' = detail
          /\ ev' = Cnt!SanitizedEvent(detail)
      BY <1>3, Zenon DEF Cnt!Sanitize
    <2>2. QED BY <2>1, Zenon DEF EventInv, Cnt!Judged
  <1>4. CASE Cnt!Insert
    <2>1. content_pc = "sanitized" /\ detail' = detail /\ ev' = ev
      BY <1>4, Zenon DEF Cnt!Insert
    <2>2. content_pc' \in {"stored", "refused"}
      BY <1>4, Zenon DEF Cnt!Insert
    <2>3. QED BY <2>1, <2>2, Zenon DEF EventInv, Cnt!Judged
  <1>5. CASE Cnt!Show
    <2>1. /\ content_pc = "stored" /\ content_pc' = "shown" /\ detail' = detail /\ ev' = ev
          /\ message' = Cnt!formatter_event(ev) /\ item' = Cnt!DigestItem(ev)
      BY <1>5, Zenon DEF Cnt!Show
    <2>2. QED BY <2>1, Zenon DEF EventInv, Cnt!Judged
  <1>6. CASE Cnt!Free
    <2>1. content_pc' = "idle"
      BY <1>6, Zenon DEF Cnt!Free
    <2>2. QED BY <2>1, Zenon DEF EventInv, Cnt!Judged
  <1>7. CASE UNCHANGED contentVars
    BY <1>7, Zenon DEF contentVars, EventInv, Cnt!Judged
  <1>8. QED BY <1>1, <1>2, <1>3, <1>4, <1>5, <1>6, <1>7, Zenon DEF Cnt!Next

-----------------------------------------------------------------------------
(* What is stored of a text does not begin with what is trimmed, so of a    *)
(* description that is trimmed again only its end may be missing.           *)
Unindented(s) == s = <<>> \/ ~Cnt!IsTrimmed(s[1])

LEMMA TrimIs ==
  ASSUME NEW B, NEW s \in Seq(B)
  PROVE  /\ Unindented(Cnt!Trim(s))
         /\ Unindented(s) => \E k \in 0..Len(s) :
              /\ Cnt!Trim(s) = SubSeq(s, 1, k)
              /\ \A p \in (k + 1)..Len(s) : Cnt!IsTrimmed(s[p])
  <1> DEFINE solid == {p \in DOMAIN s : ~Cnt!IsTrimmed(s[p])}
             a == Cnt!Min(solid)
             b == Cnt!Max(solid)
  <1>1. Cnt!Trim(s) = IF solid = {} THEN <<>> ELSE SubSeq(s, a, b)
    BY Zenon DEF Cnt!Trim, Cnt!Empty
  <1>2. Len(s) \in Nat /\ DOMAIN s = 1..Len(s) /\ solid \subseteq 1..Len(s)
    OBVIOUS
  <1>3. CASE solid = {}
    <2>1. Cnt!Trim(s) = SubSeq(s, 1, 0)
      BY <1>1, <1>3, Prefixes, Zenon
    <2>2. \A p \in 1..Len(s) : Cnt!IsTrimmed(s[p])
      BY <1>2, <1>3, Zenon
    <2>3. 0 \in 0..Len(s) /\ 0 + 1 = 1
      BY <1>2
    <2>4. QED BY <1>1, <1>3, <2>1, <2>2, <2>3, Zenon DEF Unindented
  <1>4. CASE solid # {}
    <2>1. /\ a \in solid /\ b \in solid /\ a <= b
          /\ \A p \in solid : a <= p /\ p <= b
      BY <1>2, <1>4, Ends, Zenon
    <2>2. \A p \in 1..Len(s) : p \in solid <=> ~Cnt!IsTrimmed(s[p])
      BY <1>2, Zenon
    <2> HIDE DEF solid, a, b
    <2>3. Len(SubSeq(s, a, b)) >= 1 /\ SubSeq(s, a, b)[1] = s[a]
      <3>1. IsPart(SubSeq(s, a, b), s, a - 1)
        BY <1>2, <2>1, SubSeqIsPart
      <3>2. Len(SubSeq(s, a, b)) = (b - a) + 1
        BY <1>2, <2>1
      <3>3. QED BY <1>2, <2>1, <3>1, <3>2 DEF IsPart
    <2>4. ASSUME Unindented(s) PROVE a = 1
      <3>1. Len(s) # 0 /\ 1 \in 1..Len(s)
        BY <1>2, <2>1
      <3>2. s # <<>>
        BY <3>1
      <3>3. 1 \in solid
        BY <2>2, <2>4, <3>1, <3>2, Zenon DEF Unindented
      <3>4. QED BY <1>2, <2>1, <3>3
    <2>5. \A p \in (b + 1)..Len(s) : Cnt!IsTrimmed(s[p])
      <3>1. \A p \in (b + 1)..Len(s) : p \in 1..Len(s) /\ ~(p <= b)
        BY <1>2, <2>1
      <3>2. QED BY <2>1, <2>2, <3>1, Zenon
    <2>6. b \in 0..Len(s)
      BY <1>2, <2>1
    <2>7. Unindented(Cnt!Trim(s))
      BY <1>1, <1>4, <2>1, <1>2, <2>2, <2>3, Zenon DEF Unindented
    <2>8. QED BY <1>1, <1>4, <2>4, <2>5, <2>6, <2>7, Zenon
  <1>5. QED BY <1>3, <1>4, Zenon

LEMMA SanitizedIsUnindented ==
  ASSUME NEW B, HasBlank(B), NEW s \in Seq(B), NEW n \in Nat
  PROVE  Unindented(Cnt!Sanitized(s, n))
  <1>1. CASE ~Cnt!utf8_valid(s)
    BY <1>1, Zenon DEF Cnt!Sanitized, Cnt!Empty, Unindented
  <1>2. CASE Cnt!utf8_valid(s)
    <2> DEFINE collapsed == Cnt!Collapse(Cnt!StripTags(s))
               t == Cnt!Trim(collapsed)
               u == Cnt!Cut(t, n)
    <2>1. Cnt!Sanitized(s, n) = u
      BY <1>2, Zenon DEF Cnt!Sanitized
    <2>2. collapsed \in Seq(B)
      <3>1. Cnt!StripTags(s) \in Seq(B)
        BY WithoutKeeps, Zenon DEF Cnt!StripTags
      <3>2. QED BY <3>1, CollapseKeeps, Zenon
    <2> HIDE DEF collapsed
    <2>3. t \in Seq(B) /\ Unindented(t)
      BY <2>2, TrimIs, TrimIsPart, Zenon
    <2> HIDE DEF t
    <2>4. u \in Seq(B) /\ IsPart(u, t, 0)
      BY <2>3, CutIsPart, Zenon
    <2> HIDE DEF u
    <2>5. u = <<>> \/ (t # <<>> /\ u[1] = t[1])
      <3>1. ASSUME u # <<>> PROVE Len(u) >= 1 /\ 1 \in 1..Len(u)
        BY <2>4, <3>1
      <3>2. ASSUME u # <<>> PROVE u[1] = t[1] /\ Len(t) >= 1
        BY <2>3, <2>4, <3>1, <3>2 DEF IsPart
      <3>3. QED BY <2>3, <3>2
    <2>6. QED BY <2>1, <2>3, <2>5, Zenon DEF Unindented
  <1>3. QED BY <1>1, <1>2, Zenon

LEMMA SubSeqOfPrefix ==
  ASSUME NEW B, NEW s \in Seq(B), NEW k \in 0..Len(s), NEW n \in Nat, n < k
  PROVE  Len(SubSeq(s, 1, k)) = k /\ SubSeq(SubSeq(s, 1, k), 1, n) = SubSeq(s, 1, n)
  <1> DEFINE t == SubSeq(s, 1, k)
             u == SubSeq(t, 1, n)
             v == SubSeq(s, 1, n)
  <1>1. Len(s) \in Nat /\ k \in Nat /\ k <= Len(s)
    OBVIOUS
  <1>2. t \in Seq(B) /\ Len(t) = k /\ \A p \in 1..k : t[p] = s[p]
    BY <1>1
  <1> HIDE DEF t
  <1>3. u \in Seq(B) /\ Len(u) = n /\ \A p \in 1..n : u[p] = t[p]
    BY <1>1, <1>2
  <1>4. v \in Seq(B) /\ Len(v) = n /\ \A p \in 1..n : v[p] = s[p]
    BY <1>1
  <1>5. \A p \in 1..n : u[p] = v[p]
    BY <1>1, <1>2, <1>3, <1>4
  <1> HIDE DEF u, v
  <1>6. u = v
    BY <1>3, <1>4, <1>5
  <1>7. QED BY <1>2, <1>6, Zenon DEF t, u, v

LEMMA PreviewIs ==
  ASSUME NEW B, NEW d \in Seq(B), Unindented(d), NEW n \in Nat
  PROVE  LET t == Cnt!truncate_alloc(d, n)
         IN  \/ Len(d) > n /\ t = Append(SubSeq(d, 1, n), "...")
             \/ \E k \in 0..Len(d) : /\ k <= n /\ t = SubSeq(d, 1, k)
                                     /\ Cnt!AllSpace(d, k + 1, Len(d))
  <1> DEFINE copy == Cnt!Trim(d)
             t == Cnt!truncate_alloc(d, n)
             cut == SubSeq(copy, 1, n)
  <1>1. PICK k \in 0..Len(d) :
          copy = SubSeq(d, 1, k) /\ \A p \in (k + 1)..Len(d) : Cnt!IsTrimmed(d[p])
    BY TrimIs, Zenon
  <1>2. Cnt!AllSpace(d, k + 1, Len(d))
    BY <1>1, Zenon DEF Cnt!AllSpace, Cnt!IsTrimmed, Cnt!IsSpace
  <1>3. Len(copy) = k
    BY <1>1
  <1>4. t = IF Len(copy) <= n THEN copy ELSE Append(cut, "...")
    BY Zenon DEF Cnt!truncate_alloc, Cnt!Cut
  <1>5. CASE k <= n
    <2>1. t = copy
      BY <1>3, <1>4, <1>5, Zenon
    <2>2. QED BY <1>1, <1>2, <1>5, <2>1, Zenon
  <1>6. CASE ~(k <= n)
    <2>1. t = Append(cut, "...")
      BY <1>3, <1>4, <1>6, Zenon
    <2>2. n < k /\ Len(d) > n
      BY <1>6
    <2>3. cut = SubSeq(d, 1, n)
      BY <1>1, <2>2, SubSeqOfPrefix, Zenon
    <2>4. QED BY <2>1, <2>2, <2>3, Zenon
  <1>7. QED BY <1>5, <1>6, Zenon

(* All texts of an event are texts over one alphabet. *)
AreTexts(e, B) ==
  /\ Marks \subseteq B
  /\ e.title \in Seq(B) /\ e.location \in Seq(B) /\ e.description \in Seq(B)
  /\ e.url \in Seq(B) /\ e.ctftime_url \in Seq(B)

LEMMA UrlKeeps ==
  ASSUME NEW B, NEW s \in Seq(B), NEW any
  PROVE  Cnt!UrlOrEmpty(s, any) \in Seq(B)
  <1>1. <<>> \in Seq(B)
    OBVIOUS
  <1>2. QED BY <1>1, Zenon DEF Cnt!UrlOrEmpty, Cnt!Empty

LEMMA EventTexts ==
  ASSUME EventInv, Cnt!DetailConstants, Cnt!ContentConstants, Cnt!Judged
  PROVE  (\E B : AreTexts(ev, B)) /\ Unindented(ev.description)
  <1> DEFINE t == Cnt!String(detail, "title")
             l == Cnt!String(detail, "location")
             d == Cnt!String(detail, "description")
             u == Cnt!String(detail, "url")
             p == Cnt!String(detail, "ctftime_url")
             page == IF p = Cnt!Empty THEN Fallback ELSE p
             B == Cnt!Range(t) \cup Cnt!Range(l) \cup Cnt!Range(d) \cup Cnt!Range(u)
                    \cup Cnt!Range(p) \cup Cnt!Range(Fallback) \cup Marks
  <1>1. PICK batch \in Details : detail \in batch
    BY Zenon DEF EventInv, Cnt!Judged
  <1>2. ev = Cnt!SanitizedEvent(detail)
    BY Zenon DEF EventInv
  <1>3. /\ ev.title = Cnt!Sanitized(t, TitleMax) /\ ev.location = Cnt!Sanitized(l, LocationMax)
        /\ ev.description = Cnt!Sanitized(d, DescMax)
        /\ ev.url = Cnt!UrlOrEmpty(u, TRUE) /\ ev.ctftime_url = Cnt!UrlOrEmpty(page, FALSE)
    BY <1>2 DEF Cnt!SanitizedEvent, Cnt!Title, Cnt!Location, Cnt!Description, Cnt!String
  <1>4. /\ Cnt!IsText(t) /\ Cnt!IsText(l) /\ Cnt!IsText(d) /\ Cnt!IsText(u) /\ Cnt!IsText(p)
        /\ Cnt!IsText(Fallback)
    BY <1>1, ServedAreTexts, Zenon DEF Cnt!DetailConstants
  <1>5. TitleMax \in Nat /\ LocationMax \in Nat /\ DescMax \in Nat
    BY Zenon DEF Cnt!ContentConstants
  <1>6. Marks \subseteq B /\ HasBlank(B)
    BY Zenon DEF Marks, HasBlank
  <1>7. /\ Cnt!Range(t) \subseteq B /\ Cnt!Range(l) \subseteq B /\ Cnt!Range(d) \subseteq B
        /\ Cnt!Range(u) \subseteq B /\ Cnt!Range(p) \subseteq B /\ Cnt!Range(Fallback) \subseteq B
    BY Zenon
  <1> HIDE DEF t, l, d, u, p, B
  <1>8. /\ t \in Seq(B) /\ l \in Seq(B) /\ d \in Seq(B) /\ u \in Seq(B) /\ p \in Seq(B)
        /\ Fallback \in Seq(B)
    BY <1>4, <1>7, InWider, Zenon DEF Cnt!IsText
  <1>9. page \in Seq(B)
    BY <1>8, Zenon
  <1>10. /\ ev.title \in Seq(B) /\ ev.location \in Seq(B) /\ ev.description \in Seq(B)
         /\ Unindented(ev.description)
    BY <1>3, <1>5, <1>6, <1>8, SanitizedKeeps, SanitizedIsUnindented, Zenon
  <1>11. ev.url \in Seq(B) /\ ev.ctftime_url \in Seq(B)
    BY <1>3, <1>8, <1>9, UrlKeeps, Zenon
  <1>12. QED BY <1>6, <1>10, <1>11, Zenon DEF AreTexts

LEMMA OnlineIsRead == Cnt!Read(<<"Online">>) = <<"Online">>
  <1> DEFINE c == "Online"
             s == Append(<<>>, c)
  <1>1. c \notin DOMAIN Cnt!Entity
    BY EntityIs, Zenon
  <1>2. s = <<c>> /\ <<>> \in Seq({c}) /\ c \in {c}
    OBVIOUS
  <1> HIDE DEF c, s
  <1>3. HtmlReading(s) = Read0(s)
    <2>1. HtmlReading(s) = Cnt!ReadNext(Read0(<<>>), c)
      BY <1>2, HtmlReadingOfLonger, HtmlReadingOfEmpty, Zenon DEF s, ReadStart, Read0, Cnt!Empty
    <2>2. QED BY <1>1, <2>1, ReadPlain, Zenon DEF s
  <1>4. Read0(s).open = <<>> /\ Read0(s).text = s
    BY Zenon DEF Read0
  <1>5. Cnt!Read(s) = s
    BY <1>3, <1>4, Zenon DEF Cnt!Read, HtmlReading
  <1>6. QED BY <1>2, <1>5, Zenon DEF c

LEMMA TextsAreShown ==
  ASSUME NEW B, AreTexts(ev, B), Unindented(ev.description), PreviewLen \in Nat,
         message = Cnt!formatter_event(ev), item = Cnt!DigestItem(ev)
  PROVE  Cnt!TextsShown
  <1> DEFINE place == IF ev.onsite THEN ev.location ELSE Cnt!Empty
             text == ev.description
             preview == TextOf(ev)
             Abridged(t) ==
               \/ Len(text) > PreviewLen /\ t = Append(SubSeq(text, 1, PreviewLen), "...")
               \/ \E n \in 0..Len(text) : /\ n <= PreviewLen /\ t = SubSeq(text, 1, n)
                                          /\ Cnt!AllSpace(text, n + 1, Len(text))
  <1>1. HasEllipsis(B) /\ Marks \subseteq B
    BY Zenon DEF AreTexts, Marks, HasEllipsis
  <1>2. preview \in Seq(B)
    BY <1>1, TruncatedIsPart, Zenon DEF TextOf, AreTexts
  <1>3. \A s \in Seq(B) : Cnt!Read(Cnt!HtmlEscaped(s)) = s
    BY <1>1, ReadsAsIs, Zenon
  <1>4. Cnt!Read(Cnt!Shown("title")) = ev.title /\ Cnt!Read(item.title) = ev.title
    <2>1. item.title = Cnt!HtmlEscaped(ev.title)
      BY DEF Cnt!DigestItem
    <2>2. QED BY <1>3, <2>1, ShownIs, Zenon DEF AreTexts
  <1>5. /\ Cnt!Read(Cnt!Shown("place")) = place
        /\ Cnt!Read(item.place) = IF place = Cnt!Empty THEN <<"Online">> ELSE place
    <2>1. item.place = IF Cnt!OnSite(ev) THEN Cnt!HtmlEscaped(ev.location) ELSE <<"Online">>
      BY DEF Cnt!DigestItem
    <2>2. Cnt!Shown("place") = IF Cnt!OnSite(ev) THEN Cnt!HtmlEscaped(ev.location) ELSE Cnt!Empty
      BY ShownIs, Zenon
    <2>3. Cnt!Read(Cnt!HtmlEscaped(ev.location)) = ev.location
      BY <1>3, Zenon DEF AreTexts
    <2>4. Cnt!OnSite(ev) => place = ev.location /\ place # Cnt!Empty
      BY Zenon DEF Cnt!OnSite
    <2>5. ~Cnt!OnSite(ev) => place = Cnt!Empty
      BY Zenon DEF Cnt!OnSite
    <2> HIDE DEF place
    <2>6. QED BY <2>1, <2>2, <2>3, <2>4, <2>5, NoneInEmpty, OnlineIsRead, Zenon
  <1>6. Abridged(Cnt!Read(Cnt!Shown("preview")))
    <2>1. Abridged(preview)
      BY PreviewIs, Zenon DEF TextOf, AreTexts
    <2>2. Cnt!Read(Cnt!Shown("preview")) = preview
      BY <1>2, <1>3, ShownIs, NoneInEmpty, Zenon
    <2> HIDE DEF Abridged, preview
    <2>3. QED BY <2>1, <2>2, Zenon
  <1>7. ev.url \o ev.ctftime_url # Cnt!Empty =>
          /\ Cnt!Read(Cnt!Shown("links")[1]) = ev.url
          /\ Cnt!Read(Cnt!Shown("links")[2]) = ev.ctftime_url
    <2>1. ASSUME ~Linked(ev) PROVE ev.url \o ev.ctftime_url = Cnt!Empty
      <3>1. ev.url = <<>> /\ ev.ctftime_url = <<>>
        BY <2>1, Zenon DEF Linked, Cnt!Empty
      <3>2. <<>> \o <<>> = <<>>
        OBVIOUS
      <3>3. QED BY <3>1, <3>2, Zenon DEF Cnt!Empty
    <2>2. ASSUME Linked(ev)
          PROVE  /\ Cnt!Shown("links")[1] = Cnt!HtmlEscaped(ev.url)
                 /\ Cnt!Shown("links")[2] = Cnt!HtmlEscaped(ev.ctftime_url)
      <3> DEFINE x == Cnt!HtmlEscaped(ev.url)
                 y == Cnt!HtmlEscaped(ev.ctftime_url)
      <3>1. Cnt!Shown("links") = <<x, y>>
        BY <2>2, ShownIs, Zenon
      <3> HIDE DEF x, y
      <3>2. Cnt!Shown("links")[1] = x /\ Cnt!Shown("links")[2] = y
        BY <3>1
      <3>3. QED BY <3>2, Zenon DEF x, y
    <2>3. QED BY <1>3, <2>1, <2>2, Zenon DEF AreTexts
  <1>8. QED BY <1>4, <1>5, <1>6, <1>7, Zenon DEF Cnt!TextsShown

-----------------------------------------------------------------------------
(* The calendar: a year has 365 days or 366, later years begin later, and   *)
(* the months fill each year.                                               *)
LEMMA NextQuotient ==
  ASSUME NEW y \in Nat, y > 0
  PROVE  /\ y \div 4 = (y - 1) \div 4 + (IF y % 4 = 0 THEN 1 ELSE 0)
         /\ y \div 100 = (y - 1) \div 100 + (IF y % 100 = 0 THEN 1 ELSE 0)
         /\ y \div 400 = (y - 1) \div 400 + (IF y % 400 = 0 THEN 1 ELSE 0)
         /\ (y % 400 = 0 => y % 100 = 0) /\ (y % 100 = 0 => y % 4 = 0)
  <1>1. y \div 4 = (y - 1) \div 4 + (IF y % 4 = 0 THEN 1 ELSE 0)
    OBVIOUS
  <1>2. y \div 100 = (y - 1) \div 100 + (IF y % 100 = 0 THEN 1 ELSE 0)
    OBVIOUS
  <1>3. y \div 400 = (y - 1) \div 400 + (IF y % 400 = 0 THEN 1 ELSE 0)
    OBVIOUS
  <1>4. (y % 400 = 0 => y % 100 = 0) /\ (y % 100 = 0 => y % 4 = 0)
    OBVIOUS
  <1>5. QED BY <1>1, <1>2, <1>3, <1>4

LeapDay(y) == IF Cnt!Leap(y) THEN 1 ELSE 0

LEMMA YearLength ==
  ASSUME NEW y \in Nat, y > 0
  PROVE  /\ Cnt!DaysBeforeYear(y) \in Int /\ LeapDay(y) \in {0, 1}
         /\ Cnt!DaysBeforeYear(y + 1) = Cnt!DaysBeforeYear(y) + 365 + LeapDay(y)
  <1>1. y - 1 \in Nat /\ (y + 1) - 1 = y
    OBVIOUS
  <1>2. /\ (y - 1) \div 4 \in Int /\ (y - 1) \div 100 \in Int /\ (y - 1) \div 400 \in Int
    BY <1>1
  <1>3. /\ Cnt!DaysBeforeYear(y) = 365 * (y - 1970) + (y - 1) \div 4 - (y - 1) \div 100
                                     + (y - 1) \div 400 - 477
        /\ Cnt!DaysBeforeYear(y + 1) = 365 * ((y + 1) - 1970) + y \div 4 - y \div 100
                                     + y \div 400 - 477
    BY <1>1 DEF Cnt!DaysBeforeYear
  <1>4. QED BY <1>2, <1>3, NextQuotient DEF LeapDay, Cnt!Leap

LEMMA YearsFollow ==
  ASSUME NEW a \in Nat, NEW b \in Nat, a > 0, a <= b
  PROVE  Cnt!DaysBeforeYear(a) <= Cnt!DaysBeforeYear(b)
  <1>1. a - 1 \in Nat /\ b - 1 \in Nat
    OBVIOUS
  <1> DEFINE x == a - 1
             y == b - 1
  <1>2. /\ x \div 4 \in Int /\ x \div 100 \in Int /\ x \div 400 \in Int
        /\ y \div 4 \in Int /\ y \div 100 \in Int /\ y \div 400 \in Int
        /\ x \div 4 <= y \div 4 /\ x \div 400 <= y \div 400
        /\ y \div 100 - x \div 100 <= y - x
    BY <1>1
  <1>3. /\ Cnt!DaysBeforeYear(a) = 365 * (a - 1970) + x \div 4 - x \div 100 + x \div 400 - 477
        /\ Cnt!DaysBeforeYear(b) = 365 * (b - 1970) + y \div 4 - y \div 100 + y \div 400 - 477
    BY DEF Cnt!DaysBeforeYear
  <1>4. QED BY <1>2, <1>3

YearGuess(day) == 1969 + day \div 366

LEMMA YearOfDay ==
  ASSUME NEW day \in Nat, day <= Cnt!FarthestDay
  PROVE  \E y \in YearGuess(day)..(YearGuess(day) + 3) :
            Cnt!DaysBeforeYear(y) <= day /\ day < Cnt!DaysBeforeYear(y + 1)
  <1> DEFINE k == day \div 366
             guess == 1969 + k
             B(y) == Cnt!DaysBeforeYear(y)
  <1>1. k \in Nat /\ k <= 274 /\ 366 * k <= day /\ day <= 366 * k + 365
    <2>1. day \in Nat /\ day <= 100000
      BY SMT DEF Cnt!FarthestDay
    <2>2. k \in Int /\ 366 * k <= day /\ day <= 366 * k + 365
      BY <2>1, SMT
    <2> HIDE DEF k
    <2>3. QED BY <2>1, <2>2, SMT
  <1> HIDE DEF k
  <1>2. B(guess) <= day
    <2>1. /\ B(guess) = 365 * (guess - 1970) + (guess - 1) \div 4 - (guess - 1) \div 100
                          + (guess - 1) \div 400 - 477
      BY DEF Cnt!DaysBeforeYear
    <2>2. guess - 1 = 1968 + k
      BY <1>1
    <2>3. /\ (1968 + k) \div 4 <= 492 + k /\ (1968 + k) \div 4 \in Int
          /\ (1968 + k) \div 100 >= 19 /\ (1968 + k) \div 100 \in Int
          /\ (1968 + k) \div 400 <= 5 /\ (1968 + k) \div 400 \in Int
      BY <1>1
    <2>4. QED BY <1>1, <2>1, <2>2, <2>3
  <1>3. day < B(guess + 4)
    <2>1. /\ B(guess + 4) = 365 * ((guess + 4) - 1970) + ((guess + 4) - 1) \div 4
                          - ((guess + 4) - 1) \div 100 + ((guess + 4) - 1) \div 400 - 477
      BY DEF Cnt!DaysBeforeYear
    <2>2. (guess + 4) - 1 = 1972 + k
      BY <1>1
    <2>3. /\ (1972 + k) \div 4 >= 493 /\ (1972 + k) \div 4 \in Int
          /\ (1972 + k) \div 100 <= 22 /\ (1972 + k) \div 100 \in Int
          /\ (1972 + k) \div 400 >= 4 /\ (1972 + k) \div 400 \in Int
      BY <1>1
    <2>4. QED BY <1>1, <2>1, <2>2, <2>3
  <1>4. /\ guess \in guess..(guess + 3) /\ guess + 1 \in guess..(guess + 3)
        /\ guess + 2 \in guess..(guess + 3) /\ guess + 3 \in guess..(guess + 3)
        /\ (guess + 1) + 1 = guess + 2 /\ (guess + 2) + 1 = guess + 3 /\ (guess + 3) + 1 = guess + 4
    BY <1>1
  <1>5. /\ B(guess) \in Int /\ B(guess + 1) \in Int /\ B(guess + 2) \in Int /\ B(guess + 3) \in Int
        /\ day \in Int
    <2>1. /\ guess \in Nat /\ guess + 1 \in Nat /\ guess + 2 \in Nat /\ guess + 3 \in Nat
          /\ guess > 0 /\ guess + 1 > 0 /\ guess + 2 > 0 /\ guess + 3 > 0
      BY <1>1
    <2>2. QED BY <2>1, YearLength
  <1> HIDE DEF B, guess
  <1>6. \E y \in guess..(guess + 3) : B(y) <= day /\ day < B(y + 1)
    BY <1>2, <1>3, <1>4, <1>5
  <1>7. QED BY <1>6 DEF YearGuess, B, guess, k

(* The days of a year before its months, and behind them. *)
MonthEnd(y, mo) == Cnt!DaysBeforeMonth(y, mo) + Cnt!MonthLength(y, mo)

LEMMA MonthTable ==
  ASSUME NEW y, NEW l, l = LeapDay(y)
  PROVE  /\ Cnt!DaysBeforeMonth(y, 1) = 0 /\ Cnt!DaysBeforeMonth(y, 2) = 31
         /\ Cnt!DaysBeforeMonth(y, 3) = 59 + l /\ Cnt!DaysBeforeMonth(y, 4) = 90 + l
         /\ Cnt!DaysBeforeMonth(y, 5) = 120 + l /\ Cnt!DaysBeforeMonth(y, 6) = 151 + l
         /\ Cnt!DaysBeforeMonth(y, 7) = 181 + l /\ Cnt!DaysBeforeMonth(y, 8) = 212 + l
         /\ Cnt!DaysBeforeMonth(y, 9) = 243 + l /\ Cnt!DaysBeforeMonth(y, 10) = 273 + l
         /\ Cnt!DaysBeforeMonth(y, 11) = 304 + l /\ Cnt!DaysBeforeMonth(y, 12) = 334 + l
  BY SMT DEF Cnt!DaysBeforeMonth, LeapDay

LEMMA MonthEnds ==
  ASSUME NEW y, NEW l, l = LeapDay(y)
  PROVE  /\ MonthEnd(y, 1) = 31 /\ MonthEnd(y, 2) = 59 + l /\ MonthEnd(y, 3) = 90 + l
         /\ MonthEnd(y, 4) = 120 + l /\ MonthEnd(y, 5) = 151 + l /\ MonthEnd(y, 6) = 181 + l
         /\ MonthEnd(y, 7) = 212 + l /\ MonthEnd(y, 8) = 243 + l /\ MonthEnd(y, 9) = 273 + l
         /\ MonthEnd(y, 10) = 304 + l /\ MonthEnd(y, 11) = 334 + l
         /\ MonthEnd(y, 12) = 365 + l
  <1>1. l \in {0, 1}
    BY DEF LeapDay
  <1>2. QED BY <1>1, MonthTable, SMT DEF MonthEnd, Cnt!MonthLength

LEMMA MonthOfDay ==
  ASSUME NEW y, NEW yday \in Nat, yday < 365 + LeapDay(y)
  PROVE  \E mo \in 1..12 : Cnt!DaysBeforeMonth(y, mo) <= yday /\ yday < MonthEnd(y, mo)
  <1> DEFINE l == LeapDay(y)
             D(mo) == Cnt!DaysBeforeMonth(y, mo)
             F(mo) == MonthEnd(y, mo)
  <1>1. l \in {0, 1}
    BY DEF LeapDay
  <1>2. /\ D(1) = 0 /\ D(2) = F(1) /\ D(3) = F(2) /\ D(4) = F(3) /\ D(5) = F(4)
        /\ D(6) = F(5) /\ D(7) = F(6) /\ D(8) = F(7) /\ D(9) = F(8) /\ D(10) = F(9)
        /\ D(11) = F(10) /\ D(12) = F(11) /\ F(12) = 365 + l
    BY MonthTable, MonthEnds, SMT
  <1>3. \A mo \in 1..12 : F(mo) \in Int
    BY <1>1, MonthEnds
  <1> HIDE DEF l, D, F
  <1>4. yday < F(12)
    BY <1>2 DEF l
  <1>5. \E mo \in 1..12 : D(mo) <= yday /\ yday < F(mo)
    BY <1>2, <1>3, <1>4
  <1>6. QED BY <1>5 DEF D, F

LEMMA MonthBounds ==
  ASSUME NEW y, NEW mo \in 1..12
  PROVE  Cnt!DaysBeforeMonth(y, mo) \in Int /\ MonthEnd(y, mo) \in Int
  <1>1. LeapDay(y) \in {0, 1}
    BY DEF LeapDay
  <1>2. QED BY <1>1, MonthTable, MonthEnds

LEMMA MonthsFollow ==
  ASSUME NEW y, NEW a \in 1..12, NEW b \in 1..12, a < b
  PROVE  /\ MonthEnd(y, a) <= Cnt!DaysBeforeMonth(y, b)
         /\ MonthEnd(y, a) \in Int /\ Cnt!DaysBeforeMonth(y, b) \in Int
  <1> DEFINE l == LeapDay(y)
             D(mo) == Cnt!DaysBeforeMonth(y, mo)
             F(mo) == MonthEnd(y, mo)
  <1>1. l \in {0, 1}
    BY DEF LeapDay
  <1>2. /\ D(1) = 0 /\ D(2) = 31 /\ D(3) = 59 + l /\ D(4) = 90 + l /\ D(5) = 120 + l
        /\ D(6) = 151 + l /\ D(7) = 181 + l /\ D(8) = 212 + l /\ D(9) = 243 + l
        /\ D(10) = 273 + l /\ D(11) = 304 + l /\ D(12) = 334 + l
    BY MonthTable
  <1>3. /\ F(1) = 31 /\ F(2) = 59 + l /\ F(3) = 90 + l /\ F(4) = 120 + l /\ F(5) = 151 + l
        /\ F(6) = 181 + l /\ F(7) = 212 + l /\ F(8) = 243 + l /\ F(9) = 273 + l
        /\ F(10) = 304 + l /\ F(11) = 334 + l /\ F(12) = 365 + l
    BY MonthEnds
  <1> HIDE DEF l, D, F
  <1>4. F(a) <= D(b) /\ F(a) \in Int /\ D(b) \in Int
    BY <1>1, <1>2, <1>3
  <1>5. QED BY <1>4 DEF D, F

(* What gmtime() makes of an instant: the year and the month that it lies   *)
(* in, from which timegm() gives it back.                                   *)
IsInstant(t) ==
  /\ t = [day |-> t.day, second |-> t.second]
  /\ t.day \in Nat /\ t.day <= Cnt!FarthestDay
  /\ t.second \in Nat /\ t.second < 86400

DateOf(f, day) ==
  /\ f.y \in Nat /\ f.y > 0 /\ f.mo \in 1..12 /\ f.d \in Int
  /\ Cnt!DaysBeforeYear(f.y) <= day /\ day < Cnt!DaysBeforeYear(f.y + 1)
  /\ day = Cnt!DaysBeforeYear(f.y) + Cnt!DaysBeforeMonth(f.y, f.mo) + f.d - 1
  /\ f.d >= 1 /\ Cnt!DaysBeforeMonth(f.y, f.mo) + f.d <= MonthEnd(f.y, f.mo)

LEMMA SecondOfDay ==
  ASSUME NEW s \in Nat
  PROVE  (s \div 3600) * 3600 + (s \div 60 % 60) * 60 + (s % 60) = s
  <1> DEFINE q == s \div 60
             a == q \div 60
  <1>1. q \in Nat /\ s % 60 \in Nat /\ s % 60 < 60 /\ s = 60 * q + (s % 60)
    BY DivMod
  <1> HIDE DEF q
  <1>2. a \in Nat /\ q % 60 \in Nat /\ q % 60 < 60 /\ q = 60 * a + (q % 60)
    BY <1>1, DivMod
  <1> HIDE DEF a
  <1>3. 3600 * a <= s /\ s < 3600 * a + 3600
    BY <1>1, <1>2
  <1>4. s \div 3600 = a
    BY <1>2, <1>3
  <1>5. a * 3600 + (q % 60) * 60 + (s % 60) = s
    BY <1>1, <1>2
  <1>6. QED BY <1>4, <1>5 DEF q

LEMMA GmtimeIs ==
  ASSUME NEW t, IsInstant(t)
  PROVE  DateOf(Cnt!gmtime(t), t.day) /\ Cnt!timegm(Cnt!gmtime(t)) = t
  <1> DEFINE guess == YearGuess(t.day)
             y == CHOOSE y \in guess..(guess + 3) :
                     Cnt!DaysBeforeYear(y) <= t.day /\ t.day < Cnt!DaysBeforeYear(y + 1)
             yday == t.day - Cnt!DaysBeforeYear(y)
             mo == CHOOSE mo \in 1..12 :
                     /\ Cnt!DaysBeforeMonth(y, mo) <= yday
                     /\ yday < Cnt!DaysBeforeMonth(y, mo) + Cnt!MonthLength(y, mo)
             f == Cnt!gmtime(t)
  <1>1. f = [y |-> y, mo |-> mo, d |-> yday - Cnt!DaysBeforeMonth(y, mo) + 1,
             h |-> t.second \div 3600, mi |-> t.second \div 60 % 60, se |-> t.second % 60]
    BY Zenon DEF Cnt!gmtime, YearGuess
  <1>2. /\ y \in guess..(guess + 3)
        /\ Cnt!DaysBeforeYear(y) <= t.day /\ t.day < Cnt!DaysBeforeYear(y + 1)
    <2>1. \E z \in guess..(guess + 3) :
            Cnt!DaysBeforeYear(z) <= t.day /\ t.day < Cnt!DaysBeforeYear(z + 1)
      <3>1. t.day \in Nat /\ t.day <= Cnt!FarthestDay
        BY SMT DEF IsInstant
      <3>2. QED BY <3>1, YearOfDay, Zenon
    <2>2. QED BY <2>1, Zenon
  <1>3. y \in Nat /\ y > 0 /\ t.day \in Nat
    <2>1. t.day \in Nat /\ guess \in Nat /\ guess > 0
      BY DEF IsInstant, YearGuess
    <2> HIDE DEF y, guess
    <2>2. QED BY <1>2, <2>1
  <1> HIDE DEF y
  <1>4. yday \in Nat /\ yday < 365 + LeapDay(y)
    BY <1>2, <1>3, YearLength
  <1>5. /\ mo \in 1..12 /\ Cnt!DaysBeforeMonth(y, mo) <= yday
        /\ yday < MonthEnd(y, mo)
    <2>1. \E m \in 1..12 : Cnt!DaysBeforeMonth(y, m) <= yday /\ yday < MonthEnd(y, m)
      BY <1>4, MonthOfDay, Zenon
    <2>2. QED BY <2>1, Zenon DEF MonthEnd
  <1> HIDE DEF mo
  <1> DEFINE before == Cnt!DaysBeforeMonth(y, mo)
             d == yday - before + 1
  <1>6. /\ before \in Int /\ MonthEnd(y, mo) \in Int /\ Cnt!DaysBeforeYear(y) \in Int
    BY <1>3, <1>5, YearLength, MonthBounds
  <1> HIDE DEF f
  <1>7. f.y = y /\ f.mo = mo /\ f.d = d
    BY <1>1, SMT
  <1>8. /\ d \in Int /\ d >= 1 /\ before + d <= MonthEnd(y, mo)
        /\ t.day = Cnt!DaysBeforeYear(y) + before + d - 1
    <2> DEFINE e == MonthEnd(y, mo)
               b == Cnt!DaysBeforeYear(y)
    <2>1. before <= yday /\ yday < e /\ before \in Int /\ e \in Int /\ b \in Int /\ yday = t.day - b
      BY <1>5, <1>6
    <2> HIDE DEF e, b, yday, before
    <2>2. d \in Int /\ d >= 1 /\ before + d <= e /\ t.day = b + before + d - 1
      BY <1>3, <1>4, <2>1
    <2>3. QED BY <2>2 DEF e, b
  <1> HIDE DEF d, before, yday
  <1>9. DateOf(f, t.day)
    BY <1>2, <1>3, <1>5, <1>7, <1>8 DEF DateOf, before
  <1>10. Cnt!timegm(f) = t
    <2> DEFINE s == t.second
    <2>1. f.h = s \div 3600 /\ f.mi = s \div 60 % 60 /\ f.se = s % 60
      BY <1>1, SMT
    <2>2. s \in Nat /\ s < 86400 /\ t = [day |-> t.day, second |-> s]
      BY SMT DEF IsInstant
    <2> HIDE DEF s
    <2>3. f.h * 3600 + f.mi * 60 + f.se = s
      BY <2>1, <2>2, SecondOfDay, SMT
    <2>4. s \div 86400 = 0 /\ s % 86400 = s
      BY <2>2, SMT
    <2>5. Cnt!timegm(f) = Cnt!Instant(t.day, s)
      <3>1. Cnt!timegm(f) = Cnt!Instant(Cnt!DaysBeforeYear(f.y) + Cnt!DaysBeforeMonth(f.y, f.mo)
                                          + f.d - 1, f.h * 3600 + f.mi * 60 + f.se)
        BY SMT DEF Cnt!timegm
      <3>2. QED BY <1>7, <1>8, <2>3, <3>1, SMT DEF before
    <2>6. Cnt!Instant(t.day, s) = [day |-> t.day, second |-> s]
      BY <1>3, <2>4, SMT DEF Cnt!Instant
    <2>7. QED BY <2>2, <2>5, <2>6
  <1>11. QED BY <1>9, <1>10, Zenon DEF f

(* So dates are in the order of their days. *)
LEMMA LaterDay ==
  ASSUME NEW f, NEW g, NEW a \in Nat, NEW b \in Nat, DateOf(f, a), DateOf(g, b), Cnt!Later(g, f)
  PROVE  a < b
  <1> DEFINE Y(y) == Cnt!DaysBeforeYear(y)
             M(y, mo) == Cnt!DaysBeforeMonth(y, mo)
             E(y, mo) == MonthEnd(y, mo)
  <1>1. /\ f.y \in Nat /\ f.y > 0 /\ f.mo \in 1..12 /\ f.d \in Int
        /\ Y(f.y) <= a /\ a < Y(f.y + 1) /\ a = Y(f.y) + M(f.y, f.mo) + f.d - 1
        /\ f.d >= 1 /\ M(f.y, f.mo) + f.d <= E(f.y, f.mo)
    BY Zenon DEF DateOf
  <1>2. /\ g.y \in Nat /\ g.y > 0 /\ g.mo \in 1..12 /\ g.d \in Int
        /\ Y(g.y) <= b /\ b = Y(g.y) + M(g.y, g.mo) + g.d - 1 /\ g.d >= 1
    BY Zenon DEF DateOf
  <1>3. /\ Y(f.y) \in Int /\ Y(g.y) \in Int /\ Y(f.y + 1) \in Int
        /\ M(f.y, f.mo) \in Int /\ M(g.y, g.mo) \in Int /\ E(f.y, f.mo) \in Int
    <2>1. f.y + 1 \in Nat /\ f.y + 1 > 0
      BY <1>1
    <2>2. QED BY <1>1, <1>2, <2>1, YearLength, MonthBounds
  <1>4. CASE g.y > f.y
    <2>1. f.y + 1 \in Nat /\ f.y + 1 > 0 /\ f.y + 1 <= g.y
      BY <1>1, <1>2, <1>4
    <2>2. Y(f.y + 1) <= Y(g.y)
      BY <1>2, <2>1, YearsFollow
    <2> HIDE DEF Y, M, E
    <2>3. QED BY <1>1, <1>2, <1>3, <2>2
  <1>5. CASE g.y = f.y /\ g.mo > f.mo
    <2>1. f.mo < g.mo
      BY <1>1, <1>2, <1>5
    <2>2. E(f.y, f.mo) <= M(f.y, g.mo)
      BY <1>1, <1>2, <2>1, MonthsFollow
    <2> HIDE DEF Y, M, E
    <2>3. QED BY <1>1, <1>2, <1>3, <1>5, <2>2
  <1>6. CASE g.y = f.y /\ g.mo = f.mo /\ g.d > f.d
    <2> HIDE DEF Y, M, E
    <2>1. QED BY <1>1, <1>2, <1>3, <1>6
  <1>7. QED BY <1>4, <1>5, <1>6, Zenon DEF Cnt!Later

SameDate(f, g) == f.y = g.y /\ f.mo = g.mo /\ f.d = g.d

LEMMA DateOrder ==
  ASSUME NEW f, NEW g, NEW a \in Nat, NEW b \in Nat, DateOf(f, a), DateOf(g, b)
  PROVE  /\ Cnt!Later(g, f) <=> a < b
         /\ a = b => SameDate(f, g)
         /\ Cnt!Later(g, f) => ~SameDate(f, g)
  <1>1. /\ Cnt!Later(g, f) => a < b
        /\ Cnt!Later(f, g) => b < a
    BY LaterDay, Zenon
  <1>2. /\ f.y \in Int /\ f.mo \in Int /\ f.d \in Int /\ g.y \in Int /\ g.mo \in Int /\ g.d \in Int
    BY DEF DateOf
  <1>3. /\ Cnt!Later(g, f) \/ Cnt!Later(f, g) \/ SameDate(f, g)
        /\ Cnt!Later(g, f) => ~SameDate(f, g)
    BY <1>2 DEF Cnt!Later, SameDate
  <1>4. SameDate(f, g) => a = b
    BY SMT DEF DateOf, SameDate
  <1>5. QED BY <1>1, <1>3, <1>4

(* What is stored of a time. *)
IsStored(time) == time = NoTime \/ \E t : IsInstant(t) /\ time = Cnt!gmtime(t)

LEMMA InstantIs ==
  ASSUME NEW day \in Int, NEW second \in Int
  PROVE  /\ Cnt!Instant(day, second).day \in Int
         /\ Cnt!Instant(day, second).second \in Nat /\ Cnt!Instant(day, second).second < 86400
         /\ Cnt!Instant(day, second) = [day |-> Cnt!Instant(day, second).day,
                                        second |-> Cnt!Instant(day, second).second]
  <1>1. second \div 86400 \in Int /\ second % 86400 \in Nat /\ second % 86400 < 86400
    BY SMT
  <1>2. QED BY <1>1, SMT DEF Cnt!Instant

LEMMA TimeIsStored ==
  ASSUME Cnt!ContentConstants, NEW iso, iso = NoTime \/ Cnt!IsTime(iso)
  PROVE  IsStored(Cnt!Time(iso))
  <1> DEFINE p == Cnt!parse_iso8601(iso)
             ok == /\ iso # NoTime /\ Cnt!Parses(iso)
                   /\ ~Cnt!Earlier(p, Cnt!Instant(FirstDay, 0))
                   /\ ~Cnt!Earlier(Cnt!Instant(LastDay, 0), p)
  <1>1. Cnt!Time(iso) = IF ok THEN Cnt!gmtime(p) ELSE NoTime
    BY Zenon DEF Cnt!Time, Cnt!format_mysql_datetime
  <1>2. ASSUME ok PROVE IsInstant(p)
    <2> DEFINE local == iso.local
               t == Cnt!timegm(local)
               off == Cnt!Offset(iso.zone)
    <2>1. /\ local.y \in Int /\ off \in Int
          /\ local.mo \in 1..12 /\ local.d \in Int /\ local.h \in Int
          /\ local.mi \in Int /\ local.se \in Int
      BY <1>2 DEF Cnt!IsTime, Cnt!Parses, Cnt!FieldsInRange
    <2>2. p = Cnt!Instant(t.day, t.second - 60 * off)
      BY Zenon DEF Cnt!parse_iso8601, Cnt!Shifted
    <2> HIDE DEF off, p, local
    <2>3. t.day \in Int /\ t.second \in Int
      <3> DEFINE day == Cnt!DaysBeforeYear(local.y) + Cnt!DaysBeforeMonth(local.y, local.mo)
                          + local.d - 1
                 second == local.h * 3600 + local.mi * 60 + local.se
      <3>1. Cnt!DaysBeforeYear(local.y) \in Int
        BY <2>1 DEF Cnt!DaysBeforeYear
      <3>2. Cnt!DaysBeforeMonth(local.y, local.mo) \in Int
        BY <2>1, MonthBounds
      <3>3. day \in Int /\ second \in Int
        BY <2>1, <3>1, <3>2
      <3>4. t = Cnt!Instant(day, second)
        BY DEF Cnt!timegm
      <3> HIDE DEF day, second, t
      <3>5. QED BY <3>3, <3>4, InstantIs
    <2> HIDE DEF t
    <2>4. t.second - 60 * off \in Int
      BY <2>1, <2>3
    <2>5. /\ p.day \in Int /\ p.second \in Nat /\ p.second < 86400
          /\ p = [day |-> p.day, second |-> p.second]
      BY <2>2, <2>3, <2>4, InstantIs
    <2>6. FirstDay \in Nat /\ LastDay \in Nat /\ LastDay <= Cnt!FarthestDay /\ Cnt!FarthestDay \in Nat
      BY DEF Cnt!ContentConstants, Cnt!FarthestDay
    <2>7. Cnt!Instant(FirstDay, 0).day = FirstDay /\ Cnt!Instant(LastDay, 0).day = LastDay
      BY <2>6, SMT DEF Cnt!Instant
    <2>8. p.day >= FirstDay /\ p.day <= LastDay
      BY <1>2, <2>5, <2>6, <2>7 DEF Cnt!Earlier
    <2>9. p.day \in Nat /\ p.day <= Cnt!FarthestDay
      BY <2>5, <2>6, <2>8
    <2>10. QED BY <2>5, <2>9, SMT DEF IsInstant
  <1>3. QED BY <1>1, <1>2, Zenon DEF IsStored

LEMMA StoredTimes ==
  ASSUME EventInv, Cnt!DetailConstants, Cnt!ContentConstants, Cnt!Judged
  PROVE  IsStored(ev.start_time) /\ IsStored(ev.finish_time)
  <1>1. PICK batch \in Details : detail \in batch
    BY Zenon DEF EventInv, Cnt!Judged
  <1>2. ev = Cnt!SanitizedEvent(detail)
    BY Zenon DEF EventInv
  <1> DEFINE iso(key) == Cnt!json_get_string(detail, key, NoTime)
  <1>3. ASSUME NEW key \in {"start", "finish"} PROVE iso(key) = NoTime \/ Cnt!IsTime(iso(key))
    BY <1>1, Zenon DEF Cnt!DetailConstants, Cnt!json_get_string
  <1>4. ev.start_time = Cnt!Time(iso("start")) /\ ev.finish_time = Cnt!Time(iso("finish"))
    BY <1>2 DEF Cnt!SanitizedEvent
  <1> HIDE DEF iso
  <1>5. IsStored(Cnt!Time(iso("start"))) /\ IsStored(Cnt!Time(iso("finish")))
    BY <1>3, TimeIsStored, Zenon
  <1>6. QED BY <1>4, <1>5, Zenon

Short(f) == <<f.d, f.mo>>
Long(f) == <<f.d, f.mo, f.y>>
EndsLater(e) == e.finish_time # NoTime /\ Cnt!Later(e.finish_time, e.start_time)

LEMMA DaysShownAre ==
  ASSUME NEW e, IsStored(e.start_time), IsStored(e.finish_time), e.start_time # NoTime
  PROVE  /\ Cnt!DaysShown(e, TRUE) =
              IF EndsLater(e) THEN <<Long(e.start_time), Long(e.finish_time)>>
                              ELSE <<Long(e.start_time)>>
         /\ Cnt!DaysShown(e, FALSE) =
              IF EndsLater(e) /\ Short(e.finish_time) # Short(e.start_time)
              THEN <<Short(e.start_time), Short(e.finish_time)>> ELSE <<Short(e.start_time)>>
  <1> DEFINE s == e.start_time
             f == e.finish_time
  <1>1. PICK t : IsInstant(t) /\ s = Cnt!gmtime(t)
    BY Zenon DEF IsStored
  <1>2. Cnt!parse_mysql_datetime(s) = t /\ DateOf(s, t.day)
    BY <1>1, GmtimeIs, Zenon DEF Cnt!parse_mysql_datetime
  <1>3. Cnt!Day(t, TRUE) = Long(s) /\ Cnt!Day(t, FALSE) = Short(s)
    BY <1>1, Zenon DEF Cnt!Day, Long, Short
  <1>4. CASE f = NoTime
    BY <1>2, <1>3, <1>4, Zenon DEF Cnt!DaysShown, EndsLater
  <1>5. CASE f # NoTime
    <2>1. PICK u : IsInstant(u) /\ f = Cnt!gmtime(u)
      BY <1>5, Zenon DEF IsStored
    <2>2. Cnt!parse_mysql_datetime(f) = u /\ DateOf(f, u.day)
      BY <2>1, GmtimeIs, Zenon DEF Cnt!parse_mysql_datetime
    <2>3. Cnt!Day(u, TRUE) = Long(f) /\ Cnt!Day(u, FALSE) = Short(f)
      BY <2>1, Zenon DEF Cnt!Day, Long, Short
    <2>4. \A w : Cnt!DaysShown(e, w) =
                    IF Cnt!Earlier(t, u) /\ Cnt!Day(u, w) # Cnt!Day(t, w)
                    THEN <<Cnt!Day(t, w), Cnt!Day(u, w)>> ELSE <<Cnt!Day(t, w)>>
      BY <1>2, <1>5, <2>2, Zenon DEF Cnt!DaysShown
    <2> HIDE DEF s, f
    <2>5. /\ t.day \in Nat /\ u.day \in Nat
      BY <1>1, <2>1, SMT DEF IsInstant
    <2>6. /\ Cnt!Later(f, s) <=> t.day < u.day
          /\ t.day = u.day => SameDate(s, f)
          /\ Cnt!Later(f, s) => ~SameDate(s, f)
      BY <1>2, <2>2, <2>5, DateOrder, Zenon
    <2>7. /\ SameDate(s, f) <=> Long(f) = Long(s)
          /\ SameDate(s, f) => Short(f) = Short(s)
      BY DEF SameDate, Long, Short
    <2>8. Cnt!Earlier(t, u) => t.day < u.day \/ t.day = u.day
      BY Zenon DEF Cnt!Earlier
    <2>9. t.day < u.day => Cnt!Earlier(t, u)
      BY Zenon DEF Cnt!Earlier
    <2>10. Cnt!Earlier(t, u) /\ Long(f) # Long(s) <=> Cnt!Later(f, s)
      BY <2>6, <2>7, <2>8, <2>9, Zenon
    <2>11. Cnt!Earlier(t, u) /\ Short(f) # Short(s) <=> Cnt!Later(f, s) /\ Short(f) # Short(s)
      BY <2>6, <2>7, <2>8, <2>9, Zenon
    <2>12. EndsLater(e) <=> Cnt!Later(f, s)
      BY <1>5, Zenon DEF EndsLater, s, f
    <2>13. Cnt!DaysShown(e, TRUE) =
             IF Cnt!Later(f, s) THEN <<Long(s), Long(f)>> ELSE <<Long(s)>>
      BY <1>3, <2>3, <2>4, <2>10, Zenon
    <2>14. Cnt!DaysShown(e, FALSE) =
             IF Cnt!Later(f, s) /\ Short(f) # Short(s) THEN <<Short(s), Short(f)>>
                                                     ELSE <<Short(s)>>
      BY <1>3, <2>3, <2>4, <2>11, Zenon
    <2>15. QED BY <2>12, <2>13, <2>14, Zenon DEF s, f
  <1>6. QED BY <1>4, <1>5, Zenon

LEMMA DatesAreShown ==
  ASSUME IsStored(ev.start_time), IsStored(ev.finish_time),
         message = Cnt!formatter_event(ev), item = Cnt!DigestItem(ev)
  PROVE  Cnt!DatesShown
  <1>1. item.days = IF ev.start_time = NoTime THEN <<>> ELSE Cnt!DaysShown(ev, FALSE)
    BY DEF Cnt!DigestItem
  <1>2. Cnt!Shown("dates") =
          IF ev.start_time = NoTime THEN <<>> ELSE Cnt!DaysShown(ev, TRUE)
    BY ShownIs, Zenon DEF Cnt!Empty
  <1>3. CASE ev.start_time = NoTime
    BY <1>1, <1>2, <1>3, Zenon DEF Cnt!DatesShown
  <1>4. CASE ev.start_time # NoTime
    BY <1>1, <1>2, <1>4, DaysShownAre, Zenon DEF Cnt!DatesShown, EndsLater, Long, Short
  <1>5. QED BY <1>3, <1>4, Zenon

LEMMA ShownHasNoTemplate ==
  ASSUME EventInv, Cnt!DetailConstants, Cnt!ContentConstants, Cnt!FormatterConstants,
         content_pc = "shown", ev.is_safe
  PROVE  \A kind \in {"title", "place", "preview"} : ~Cnt!Ssti(Cnt!Read(Cnt!Shown(kind)))
  <1>1. /\ Cnt!Judged /\ ev = Cnt!SanitizedEvent(detail) /\ message = Cnt!formatter_event(ev)
    BY Zenon DEF EventInv, Cnt!Judged
  <1>2. PICK B : AreTexts(ev, B)
    BY <1>1, EventTexts, Zenon
  <1>3. /\ ev.title = Cnt!Title(detail) /\ ev.location = Cnt!Location(detail)
        /\ ev.description = Cnt!Description(detail) /\ ev.is_safe = Cnt!Verdict(detail)
    BY <1>1 DEF Cnt!SanitizedEvent
  <1>4. \A s \in {ev.title, ev.location, ev.description} : Cnt!is_safe_string(s)
    BY <1>3, Zenon DEF Cnt!Verdict, Cnt!Stored
  <1>5. ~Cnt!Ssti(ev.title) /\ ~Cnt!Ssti(ev.location) /\ ~Cnt!Ssti(ev.description)
    BY <1>4, Zenon DEF Cnt!is_safe_string
  <1>6. PreviewLen \in Nat
    BY Zenon DEF Cnt!FormatterConstants
  <1>7. QED BY <1>1, <1>2, <1>5, <1>6, NoTemplateInLines, Zenon DEF AreTexts

LEMMA ProseIsSafe ==
  ASSUME EventInv, Cnt!DetailConstants, Cnt!ContentConstants,
         Cnt!Judged, ~Cnt!UrlRefused(detail),
         \A s \in Cnt!Served(detail) : Cnt!Range(s) \cap Cnt!Suspicious = {}
  PROVE  ev.is_safe
  <1> DEFINE t == Cnt!String(detail, "title")
             l == Cnt!String(detail, "location")
             d == Cnt!String(detail, "description")
  <1>1. PICK batch \in Details : detail \in batch
    BY Zenon DEF EventInv, Cnt!Judged
  <1>2. Cnt!IsText(t) /\ Cnt!IsText(l) /\ Cnt!IsText(d)
    BY <1>1, ServedAreTexts, Zenon
  <1>3. Cnt!Served(detail) = {t, d, l}
    BY Zenon DEF Cnt!Served
  <1>4. Cnt!Stored(detail) = {Cnt!Sanitized(t, TitleMax), Cnt!Sanitized(d, DescMax),
                              Cnt!Sanitized(l, LocationMax)}
    BY Zenon DEF Cnt!Stored, Cnt!Title, Cnt!Location, Cnt!Description
  <1>5. TitleMax \in Nat /\ LocationMax \in Nat /\ DescMax \in Nat
    BY Zenon DEF Cnt!ContentConstants
  <1> HIDE DEF t, l, d
  <1>6. /\ Cnt!is_safe_string(t) /\ Cnt!is_safe_string(Cnt!Sanitized(t, TitleMax))
        /\ Cnt!is_safe_string(d) /\ Cnt!is_safe_string(Cnt!Sanitized(d, DescMax))
        /\ Cnt!is_safe_string(l) /\ Cnt!is_safe_string(Cnt!Sanitized(l, LocationMax))
    BY <1>2, <1>3, <1>5, PlainAndStored, Zenon
  <1>7. Cnt!Verdict(detail)
    BY <1>3, <1>4, <1>6, Zenon DEF Cnt!Verdict
  <1>8. ev = Cnt!SanitizedEvent(detail)
    BY Zenon DEF EventInv
  <1>9. ev.is_safe = Cnt!Verdict(detail)
    BY <1>8 DEF Cnt!SanitizedEvent
  <1>10. QED BY <1>7, <1>9, Zenon

LEMMA EventInvariant == Spec => []EventInv
  <1>1. Init => EventInv
    BY Zenon DEF Init, Cnt!Init, EventInv, Cnt!Judged
  <1>2. EventInv /\ [Next]_vars => EventInv'
    BY StepOfPart, StepKeepsEventInv, Zenon
  <1>3. QED BY <1>1, <1>2, PTL DEF Spec

(* Whatever the API serves: an event that may be published shows no template *)
(* in its message, since nothing between the verdict and the message adds a  *)
(* bracket to the texts (a cut and an ellipsis make none, and what is        *)
(* escaped reads as it was).  And an event whose texts have nothing of a     *)
(* pattern in them is not withheld for them.                                 *)
THEOREM NoTemplateIsShown == Spec => []VerdictCoversShown
  <1>1. Cnt!DetailConstants /\ Cnt!ContentConstants /\ Cnt!FormatterConstants
    BY LibraryAssumption
  <1>2. EventInv => VerdictCoversShown
    BY <1>1, ShownHasNoTemplate, ProseIsSafe, Zenon
    DEF VerdictCoversShown, Cnt!VerdictCoversShown
  <1>3. QED BY <1>2, EventInvariant, PTL

(* Whatever the API serves, what the message and the block in the digest    *)
(* say is what is stored: escaping and reading are inverse (for texts of    *)
(* every length), the preview is the beginning of the description, and the  *)
(* days are those of the stored times, in the order of the calendar.        *)
THEOREM WhatIsShownIsStored == Spec => []ShownAsStored
  <1>1. Cnt!DetailConstants /\ Cnt!ContentConstants /\ Cnt!FormatterConstants
    BY LibraryAssumption
  <1>2. ASSUME EventInv, content_pc = "shown" PROVE Cnt!TextsShown /\ Cnt!DatesShown
    <2>1. Cnt!Judged /\ message = Cnt!formatter_event(ev) /\ item = Cnt!DigestItem(ev)
      BY <1>2, Zenon DEF EventInv, Cnt!Judged
    <2>2. PICK B : AreTexts(ev, B)
      BY <1>1, <1>2, <2>1, EventTexts, Zenon
    <2>3. Unindented(ev.description)
      BY <1>1, <1>2, <2>1, EventTexts, Zenon
    <2>4. Cnt!TextsShown
      BY <1>1, <2>1, <2>2, <2>3, TextsAreShown, Zenon DEF Cnt!FormatterConstants
    <2>5. Cnt!DatesShown
      BY <1>1, <1>2, <2>1, StoredTimes, DatesAreShown, Zenon
    <2>6. QED BY <2>4, <2>5
  <1>3. EventInv => ShownAsStored
    BY <1>2, Zenon DEF ShownAsStored, Cnt!ShownAsStored
  <1>4. QED BY <1>3, EventInvariant, PTL
=============================================================================
