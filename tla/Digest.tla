-------------------------------- MODULE Digest --------------------------------
(***************************************************************************)
(* formatter_digest() of formatter.c: the events of the Monday digest are  *)
(* packed into Telegram messages.  A text is what the packing sees of it:  *)
(* the events it shows, in order, and its length in characters.            *)
(***************************************************************************)
EXTENDS Naturals, Sequences

CONSTANTS MaxLen,           \* TELEGRAM_MAX_LEN
          HeaderLen,        \* "CTF Events - next ... days" and the dates
          ContHeaderLen,    \* "CTF Events (cont.)"
          SepLen,           \* "\n\n"
          ItemLen,          \* lengths an event's block may have
          MaxEvents         \* bound: events of one digest

(* What the constants have to satisfy. *)
DigestConstants ==
    /\ MaxLen \in Nat /\ HeaderLen \in Nat /\ ContHeaderLen \in Nat
    /\ SepLen \in Nat
    /\ ItemLen \subseteq Nat \ {0}      \* a block starts with a bullet
    /\ MaxEvents \in Nat

VARIABLES digest_pc,      \* the call: "idle", "pack", or "returned"
          items,          \* lengths of the events' blocks
          i,              \* the loop index
          header,         \* length of current_header
          body,           \* current_body
          parts           \* the messages done, header included

digestVars == <<digest_pc, items, i, header, body, parts>>

Text == [events : Seq(Nat \ {0}), length : Nat]
Empty == [events |-> <<>>, length |-> 0]

DigestTypeOK ==
    /\ digest_pc \in {"idle", "pack", "returned"}
    /\ items \in Seq(ItemLen)
    /\ i \in 1..(Len(items) + 1)
    /\ header \in {HeaderLen, ContHeaderLen}
    /\ body \in Text
    /\ parts \in Seq(Text)

Init ==
    /\ digest_pc = "idle" /\ items = <<>> /\ i = 1
    /\ header = HeaderLen /\ body = Empty /\ parts = <<>>

(* formatter_digest() with the blocks of its events. *)
Call ==
    /\ digest_pc = "idle"
    /\ \E n \in 1..MaxEvents : items' \in [1..n -> ItemLen]
    /\ digest_pc' = "pack"
    /\ UNCHANGED <<i, header, body, parts>>

(* The body with the block of event k behind it, *)
With(text, k) ==
    IF text.events = <<>>
    THEN [events |-> <<k>>, length |-> items[k]]
    ELSE [events |-> Append(text.events, k),
          length |-> text.length + SepLen + items[k]]

(* and a body under its header: a message. *)
Message(text) == [text EXCEPT !.length = header + SepLen + @]

TooLongUnheaded == With(body, i).length > MaxLen  \* header not counted

TooLong == Message(With(body, i)).length > MaxLen

(* The block fits, or it is the first of its message: it joins the body. *)
Add ==
    /\ digest_pc = "pack" /\ i <= Len(items)
    /\ ~TooLong \/ body.events = <<>>
    /\ body' = With(body, i)
    /\ i' = i + 1
    /\ UNCHANGED <<digest_pc, items, header, parts>>

CloseAndSkip ==                                   \* the block is left out
    /\ digest_pc = "pack" /\ i <= Len(items)
    /\ TooLong /\ body.events # <<>>
    /\ parts' = Append(parts, Message(body))
    /\ header' = ContHeaderLen
    /\ body' = Empty
    /\ i' = i + 1
    /\ UNCHANGED <<digest_pc, items>>

(* It does not: the message is complete, and the block starts the next. *)
Close ==
    /\ digest_pc = "pack" /\ i <= Len(items)
    /\ TooLong /\ body.events # <<>>
    /\ parts' = Append(parts, Message(body))
    /\ header' = ContHeaderLen
    /\ body' = With(Empty, i)
    /\ i' = i + 1
    /\ UNCHANGED <<digest_pc, items>>

(* After the loop: the rest is the last message. *)
Flush ==
    /\ digest_pc = "pack" /\ i > Len(items)
    /\ parts' = IF body.events = <<>> THEN parts ELSE Append(parts, Message(body))
    /\ body' = Empty
    /\ digest_pc' = "returned"
    /\ UNCHANGED <<items, i, header>>

(* formatter_free_parts(), once the publisher has sent them. *)
Free ==
    /\ digest_pc = "returned"
    /\ digest_pc' = "idle" /\ items' = <<>> /\ i' = 1
    /\ header' = HeaderLen /\ body' = Empty /\ parts' = <<>>

Next == Call \/ Add \/ Close \/ Flush \/ Free

Spec == Init /\ [][Next]_digestVars

-----------------------------------------------------------------------------
(* The messages as far as they are decided, the open one included. *)
Decided == IF body.events = <<>> THEN parts ELSE Append(parts, Message(body))

Last(s) == s[Len(s)]

HeaderOf(k) == IF k = 1 THEN HeaderLen ELSE ContHeaderLen

(* Every event is shown once and the order is kept: each message continues  *)
(* where the one before it ended, without a gap, and all of them together   *)
(* show what the loop has been through.  So the array of count + 1 messages *)
(* that the code allocates is large enough, too.                            *)
EventsInOrder ==
    LET n == Len(Decided) IN
    /\ \A k \in 1..n : LET e == Decided[k].events IN
        /\ e # <<>>
        /\ e[1] = IF k = 1 THEN 1 ELSE Last(Decided[k - 1].events) + 1
        /\ \A j \in 1..(Len(e) - 1) : e[j + 1] = e[j] + 1
    /\ i = IF n = 0 THEN 1 ELSE Last(Decided[n].events) + 1

(* A message is longer than MaxLen only when it shows a single event, whose *)
(* block does not fit under the message's header; and none is closed while  *)
(* the next event would still have fitted in it.                            *)
MessagesPacked ==
    /\ \A k \in 1..Len(Decided) :
        Decided[k].length > MaxLen => \E e \in 1..Len(items) :
            /\ Decided[k].events = <<e>>
            /\ HeaderOf(k) + SepLen + items[e] > MaxLen
    /\ \A k \in 1..(Len(Decided) - 1) :
        Decided[k].length + SepLen + items[Decided[k + 1].events[1]] > MaxLen
=============================================================================
