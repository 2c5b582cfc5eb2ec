------------------------------ MODULE Formatter ------------------------------
(***************************************************************************)
(* formatter.c: what the daily message and the digest show of an event.  A *)
(* text is a sequence of lines, each of a kind (its icon and its fixed     *)
(* words) with what it shows of the event, escaped as it is in the text.   *)
(* Digest.tla has the packing of the digest's blocks into messages.        *)
(***************************************************************************)
EXTENDS Event, Calendar

CONSTANT PreviewLen       \* DESC_PREVIEW_LEN

FormatterConstants == PreviewLen \in Nat

Line(kind, shown) == <<[kind |-> kind, shown |-> shown]>>
BlankLine == Line("blank", Empty)

(* format_date_str() *)
Day(t, with_year) ==
    LET f == gmtime(t) IN IF with_year THEN <<f.d, f.mo, f.y>> ELSE <<f.d, f.mo>>

(* format_dates_alloc() and format_compact_dates_alloc(): the first day,    *)
(* and the last where the event ends later and on what reads differently.   *)
DaysShown(ev, with_year) ==
    LET start == parse_mysql_datetime(ev.start_time)
        finish == parse_mysql_datetime(ev.finish_time)
    IN  IF /\ ev.finish_time # NoTime
           /\ Earlier(start, finish)
           /\ Day(finish, with_year) # Day(start, with_year)
        THEN <<Day(start, with_year), Day(finish, with_year)>> ELSE <<Day(start, with_year)>>

OnSite(ev) == ev.onsite /\ ev.location # Empty

truncate_alloc(text, max_chars) ==
    LET copy == Trim(text)
    IN  IF Len(copy) <= max_chars THEN copy
        ELSE Append(Cut(copy, max_chars), "...")

Dates(ev) ==
    IF ev.start_time = NoTime THEN <<>>
    ELSE Line("dates", DaysShown(ev, TRUE))

(* format_meta_alloc(): the format, and a weight above 0. *)
Meta(ev) ==
    LET weight == IF ev.weight # NoWeight /\ ev.weight > 0
                  THEN ev.weight ELSE NoWeight
    IN  IF ev.format = Empty /\ weight = NoWeight THEN <<>>
        ELSE Line("meta", <<HtmlEscaped(ev.format), weight>>)

Place(ev) ==
    IF OnSite(ev) THEN Line("place", HtmlEscaped(ev.location))
                  ELSE Line("online", Empty)

Preview(ev) ==
    LET preview == truncate_alloc(ev.description, PreviewLen)
    IN  IF preview = Empty THEN <<>>
        ELSE BlankLine \o Line("preview", HtmlEscaped(preview))

Links(ev) ==
    IF ev.url = Empty /\ ev.ctftime_url = Empty THEN <<>>
    ELSE BlankLine \o Line("links", <<HtmlEscaped(ev.url), HtmlEscaped(ev.ctftime_url)>>)

(* formatter_event() *)
formatter_event(ev) ==
    Line("title", HtmlEscaped(ev.title)) \o BlankLine
        \o Dates(ev) \o Meta(ev) \o Place(ev) \o Preview(ev) \o Links(ev)

(* The block of an event in formatter_digest(). *)
DigestItem(ev) ==
    [link |-> HtmlEscaped(ev.ctftime_url), title |-> HtmlEscaped(ev.title),
     days |-> IF ev.start_time = NoTime THEN <<>> ELSE DaysShown(ev, FALSE),
     format |-> HtmlEscaped(ev.format),
     place |-> IF OnSite(ev) THEN HtmlEscaped(ev.location) ELSE <<"Online">>]
===============================================================================
