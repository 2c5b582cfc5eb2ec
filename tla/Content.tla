------------------------------- MODULE Content -------------------------------
(***************************************************************************)
(* The way of one event's texts, dates and links through both binaries:    *)
(* served by the API, sanitized and inserted by the parser, read back and  *)
(* formatted by the publisher.  Every step is a function of the one before *)
(* (ContentSecurity, Formatter); what it meets in between are the columns  *)
(* of ctf_events.                                                          *)
(***************************************************************************)
EXTENDS ContentSecurity, Formatter

CONSTANTS Details,        \* sets of details that the API may serve
          UrlParts        \* what the site urls among them are made of

VARIABLES content_pc,     \* "idle", "fetched", "rejected", "sanitized",
                          \* "refused", "stored" or "shown"
          detail,         \* what the API served
          ev,             \* the event as sanitized, then as read back
          message, item   \* its daily message, and its block in the digest

contentVars == <<content_pc, detail, ev, message, item>>

BlankDetail ==
    [key \in {"title", "description", "location", "format", "url", "logo",
              "ctftime_url", "start", "finish", "weight", "onsite"} |-> Absent]

(* What the constants have to satisfy: a detail says of every key what it   *)
(* has, if only that it is absent; strings are texts, of any characters,    *)
(* and times have a year and a zone.                                        *)
IsText(s) == s \in Seq(Range(s))
IsTime(iso) == iso.local.y \in Int /\ Offset(iso.zone) \in Int
DetailConstants ==
    /\ IsText(Fallback)
    /\ \A batch \in Details : \A raw \in batch :
        /\ DOMAIN raw = DOMAIN BlankDetail
        /\ \A key \in {"title", "description", "location", "format", "url", "ctftime_url"} :
            raw[key].type = "string" => IsText(raw[key].is)
        /\ \A key \in {"start", "finish"} :
            raw[key].type = "string" => IsTime(raw[key].is)

Init ==
    /\ content_pc = "idle" /\ detail = BlankDetail
    /\ ev = BlankEvent /\ message = <<>> /\ item = <<>>

(* ctftime_fetch_event_detail() *)
Fetch ==
    /\ content_pc = "idle"
    /\ content_pc' = "fetched"
    /\ \E batch \in Details : detail' \in batch
    /\ UNCHANGED <<ev, message, item>>

Reject ==
    /\ content_pc = "fetched" /\ ~Sanitizable(detail)
    /\ content_pc' = "rejected"
    /\ UNCHANGED <<detail, ev, message, item>>

Sanitize ==
    /\ content_pc = "fetched" /\ Sanitizable(detail)
    /\ content_pc' = "sanitized"
    /\ ev' = SanitizedEvent(detail)
    /\ UNCHANGED <<detail, message, item>>

(* What the columns of ctf_events take, in strict mode: characters of       *)
(* utf8mb4 up to their width, and a weight of DECIMAL(8,5).                 *)
Fits(s, width) == utf8_valid(s) /\ Len(s) <= width
InColumns(e) ==
    /\ Fits(e.title, TitleMax) /\ Fits(e.location, LocationMax)
    /\ Fits(e.format, FormatMax)
    /\ utf8_valid(e.description)             \* a MEDIUMTEXT is never full
    /\ \A url \in {e.url, e.logo_url, e.ctftime_url} : Fits(url, UrlMax)
    /\ e.weight = NoWeight \/ e.weight \in (-WeightMax)..WeightMax

(* db_insert_event() of this event, when the server can be reached. *)
Insert ==
    /\ content_pc = "sanitized"
    /\ content_pc' = IF InColumns(ev) THEN "stored" ELSE "refused"
    /\ UNCHANGED <<detail, ev, message, item>>

(* row_to_event() gives the event back as it is, NULL for an absent field;  *)
(* then the publisher formats it.                                           *)
Show ==
    /\ content_pc = "stored"
    /\ content_pc' = "shown"
    /\ message' = formatter_event(ev)
    /\ item' = DigestItem(ev)
    /\ UNCHANGED <<detail, ev>>

(* ctf_event_free(), json_free() *)
Free ==
    /\ content_pc \in {"rejected", "refused", "shown"}
    /\ content_pc' = "idle" /\ detail' = BlankDetail
    /\ ev' = BlankEvent /\ message' = <<>> /\ item' = <<>>

Next == Fetch \/ Reject \/ Sanitize \/ Insert \/ Show \/ Free
-----------------------------------------------------------------------------
Judged == content_pc \in {"sanitized", "refused", "stored", "shown"}

ContentTypeOK ==
    /\ content_pc \in {"idle", "fetched", "rejected"} \/ Judged
    /\ DOMAIN detail = DOMAIN BlankDetail
    /\ DOMAIN ev = DOMAIN BlankEvent
    /\ content_pc = "shown" => Len(message) \in 3..9      \* char *lines[9]

(* A text as HTML: what is inside of a tag, or of one that does not end.    *)
OutsideTags(s) ==
    FoldLeft(LAMBDA r, c :
                 IF r.tag THEN [r EXCEPT !.tag = c # ">"]
                 ELSE IF c = "<" THEN [r EXCEPT !.tag = TRUE]
                 ELSE [r EXCEPT !.text = Append(@, c)],
             [tag |-> FALSE, text |-> Empty], s).text

Solid(s) == SelectSeq(s, LAMBDA c : ~IsSpace(c))

CleanOf(text, served, max_len) ==
    IF ~utf8_valid(served) THEN text = Empty
    ELSE /\ "<" \notin Range(text) /\ Len(text) <= max_len
         /\ \A p \in 3..Len(text) : \E q \in (p - 2)..p : ~IsSpace(text[q])
         /\ IsPrefix(Solid(text), Solid(OutsideTags(served)))
         /\ Len(text) < max_len => Solid(text) = Solid(OutsideTags(served))

(* The stored texts are those served, without tags and wide gaps, and only  *)
(* the end of one that is too long is missing: no order of stripping,       *)
(* collapsing, trimming and cutting is neutral.  No column refuses what was *)
(* sanitized: such an event would be fetched again by each run for ever.    *)
(* Only a url with bytes that are no UTF-8 is, as urls are not checked for  *)
(* them.                                                                    *)
StoredClean ==
    /\ Judged =>
        /\ CleanOf(ev.title, String(detail, "title"), TitleMax)
        /\ CleanOf(ev.description, String(detail, "description"), DescMax)
        /\ CleanOf(ev.location, String(detail, "location"), LocationMax)
        /\ CleanOf(ev.format, String(detail, "format"), FormatMax)
    /\ content_pc = "refused" =>
        \E url \in {ev.url, ev.logo_url, ev.ctftime_url} : "stray" \in Range(url)

(* Telegram's reading of an escaped text: what it shows so far, and the     *)
(* entity it is in.  A "<", or an "&" that begins no entity, and it refuses *)
(* the message.                                                             *)
Refused == [text |-> <<"error">>, open |-> <<"<">>]
Named(name) == {c \in DOMAIN Entity : Entity[c] = name}
ReadNext(r, c) ==
    CASE r.open = <<>> /\ c \notin {"<", "&"} -> [r EXCEPT !.text = Append(@, c)]
      [] (r.open = <<>> /\ c = "&") \/ r.open = <<"&">> -> [r EXCEPT !.open = Append(@, c)]
      [] Len(r.open) = 2 /\ c = ";" /\ Named(r.open[2]) # {} ->
            [text |-> Append(r.text, CHOOSE d \in Named(r.open[2]) : TRUE), open |-> <<>>]
      [] OTHER -> Refused
ReadUpTo(s) ==
    LET upto[n \in 0..Len(s)] ==
            IF n = 0 THEN [text |-> Empty, open |-> <<>>] ELSE ReadNext(upto[n - 1], s[n])
    IN  upto
Read(s) == LET r == ReadUpTo(s)[Len(s)]
           IN  IF r.open = <<>> THEN r.text ELSE Refused.text

Shown(kind) ==
    LET at == {p \in DOMAIN message : message[p].kind = kind}
    IN  IF at = {} THEN Empty ELSE message[CHOOSE p \in at : TRUE].shown

(* An event that may be published shows no template in its message, however *)
(* the tags in it were placed (the comment on is_safe); and an event whose  *)
(* texts have nothing of a pattern in them is not withheld for them (the    *)
(* comment on ordinary prose).                                              *)
Suspicious == {"{", "%", "-", ";", "union", "drop"}
VerdictCoversShown ==
    /\ content_pc = "shown" /\ ev.is_safe =>
        \A kind \in {"title", "place", "preview"} : ~Ssti(Read(Shown(kind)))
    /\ Judged /\ ~UrlRefused(detail)
       /\ (\A s \in Served(detail) : Range(s) \cap Suspicious = {}) => ev.is_safe

(* The title, the place of an onsite event, the beginning of the            *)
(* description (in full but for white space at its end, or with an ellipsis *)
(* where it goes on) and the links.                                         *)
TextsShown ==
    LET place == IF ev.onsite THEN ev.location ELSE Empty
        text == ev.description
        preview == Read(Shown("preview"))
    IN  /\ Read(Shown("title")) = ev.title /\ Read(item.title) = ev.title
        /\ Read(Shown("place")) = place
        /\ Read(item.place) = IF place = Empty THEN <<"Online">> ELSE place
        /\ \/ Len(text) > PreviewLen /\ preview = Append(SubSeq(text, 1, PreviewLen), "...")
           \/ \E n \in 0..Len(text) :
                /\ n <= PreviewLen /\ preview = SubSeq(text, 1, n)
                /\ AllSpace(text, n + 1, Len(text))
        /\ ev.url \o ev.ctftime_url # Empty =>
            /\ Read(Shown("links")[1]) = ev.url
            /\ Read(Shown("links")[2]) = ev.ctftime_url

(* The first day, and the last where the event ends on a later one; in the  *)
(* digest without the year, where a year later is the same day.             *)
Later(f, s) == \/ f.y > s.y
               \/ f.y = s.y /\ f.mo > s.mo
               \/ f.y = s.y /\ f.mo = s.mo /\ f.d > s.d
DatesShown ==
    LET s == ev.start_time
        f == ev.finish_time
        ends_later == f # NoTime /\ Later(f, s)
    IN  IF s = NoTime THEN Shown("dates") = <<>> /\ item.days = <<>>
        ELSE /\ Shown("dates") =
                  IF ends_later THEN <<<<s.d, s.mo, s.y>>, <<f.d, f.mo, f.y>>>>
                                ELSE <<<<s.d, s.mo, s.y>>>>
             /\ item.days =
                  IF ends_later /\ <<f.d, f.mo>> # <<s.d, s.mo>>
                  THEN <<<<s.d, s.mo>>, <<f.d, f.mo>>>> ELSE <<<<s.d, s.mo>>>>

(* What the message and the block in the digest say, read as HTML, is what  *)
(* is stored.                                                               *)
ShownAsStored == content_pc = "shown" => TextsShown /\ DatesShown

(* The calendar day by day. *)
DaysIn(y, mo) ==
    <<31, IF y % 4 = 0 /\ (y % 100 # 0 \/ y % 400 = 0) THEN 29 ELSE 28,
      31, 30, 31, 30, 31, 31, 30, 31, 30, 31>>[mo]
NextDay(f) ==
    IF f.d < DaysIn(f.y, f.mo) THEN [f EXCEPT !.d = @ + 1]
    ELSE IF f.mo < 12 THEN [f EXCEPT !.d = 1, !.mo = @ + 1]
    ELSE [f EXCEPT !.d = 1, !.mo = 1, !.y = @ + 1]
DayBefore(f) ==
    IF f.d > 1 THEN [f EXCEPT !.d = @ - 1]
    ELSE IF f.mo > 1 THEN [f EXCEPT !.d = DaysIn(f.y, f.mo - 1), !.mo = @ - 1]
    ELSE [f EXCEPT !.d = 31, !.mo = 12, !.y = @ - 1]
Times(n, Op(_), f) == FoldLeft(LAMBDA g, k : Op(g), f, [k \in 1..n |-> k])

(* A local date and time in UTC. *)
InUtc(iso) ==
    LET f == iso.local
        excess == IF f.d > DaysIn(f.y, f.mo) THEN f.d - DaysIn(f.y, f.mo) ELSE 0
        date == Times(excess, NextDay, [f EXCEPT !.d = @ - excess])
        second == f.h * 3600 + f.mi * 60 + f.se - 60 * Offset(iso.zone)
        day == second \div 86400
        utc == IF day >= 0 THEN Times(day, NextDay, date)
                           ELSE Times(-day, DayBefore, date)
    IN  [utc EXCEPT !.h = (second % 86400) \div 3600,
                    !.mi = (second % 3600) \div 60, !.se = second % 60]

DateKept(stored, key) ==
    LET iso == json_get_string(detail, key, NoTime) IN
    IF iso = NoTime \/ ~FieldsInRange(iso.local) THEN stored = NoTime
    ELSE LET utc == InUtc(iso)
             in_range == \/ utc.y \in 2000..2099
                         \/ utc = [y |-> 2100, mo |-> 1, d |-> 1,
                                   h |-> 0, mi |-> 0, se |-> 0]
         IN  stored = IF in_range THEN utc ELSE NoTime

(* The stored times are the served ones in UTC, over the ends of days,      *)
(* months, leap years and the century; a time outside of it is none.  A day *)
(* that the month does not have (February 30) is stored as that many days   *)
(* behind the month's end, it is not refused.                               *)
DatesKept ==
    Judged => DateKept(ev.start_time, "start") /\ DateKept(ev.finish_time, "finish")

Composed(p) == p.scheme \o Separator \o p.user \o p.host \o p.port \o p.rest
Bare(host) == IF Head(host) = "[" THEN SubSeq(host, 2, Len(host) - 1) ELSE host
WebUrl(p) ==
    /\ p.scheme \in {<<"http">>, <<"https">>} /\ p.user = Empty /\ p.host # Empty
    /\ Bytes(Bare(p.host)) <= HostMax
    /\ Range(p.rest) \cap {" ", "\n", "<", ">", "\"", "'"} = {}
    /\ Bytes(Composed(p)) <= UrlMax

(* A url is stored, and shown as a link, just when it is one of the web     *)
(* without credentials, for a public host or, of the event's page, for one  *)
(* of ctftime.org.  The host is what RFC 3986 makes it, whatever "@", ":",  *)
(* "//" or "?" come behind it.  An event served without a page gets the one *)
(* that its id gives it.                                                    *)
UrlsKept ==
    LET url == String(detail, "url")
        page == String(detail, "ctftime_url")
    IN  content_pc = "sanitized" =>
        /\ url = Empty => ev.url = Empty
        /\ url # Empty => \A p \in UrlParts : url = Composed(p) =>
            (ev.url = url <=> WebUrl(p) /\ Bare(p.host) \notin InternalHosts)
        /\ page = Empty => ev.ctftime_url = Fallback
        /\ page # Empty => \A p \in UrlParts : page = Composed(p) =>
            (ev.ctftime_url = page <=>
                /\ WebUrl(p)
                /\ \/ p.host = <<"ctftime.org">>
                   \/ Len(p.host) > 2 /\ IsSuffix(<<".", "ctftime.org">>, p.host))
=============================================================================
