---------------------------- MODULE ContentSecurity ----------------------------
(***************************************************************************)
(* content_security_sanitize() of content_security.c: from the detail the  *)
(* API served to the event that is stored, with its verdict.  A detail has *)
(* under each key a JSON value, or Absent.                                 *)
(***************************************************************************)
EXTENDS Url, Calendar, Event

CONSTANTS Letter,         \* characters that are letters or whole words
          FirstDay,       \* TS_MIN: 2000-01-01
          LastDay,        \* TS_MAX: 2100-01-01, its first second included
          WeightMax,      \* 999.99999, in units of the last decimal
          Fallback        \* the event's page at ctftime.org

(* What the constants have to satisfy. *)
ContentConstants ==
    /\ {TitleMax, DescMax, FormatMax, LocationMax, UrlMax, HostMax,
        WeightMax} \subseteq Nat
    /\ FirstDay \in Nat /\ LastDay \in Nat
    /\ LastDay <= FarthestDay

(* \b before and behind p. *)
IsWord(s, p) == /\ p = 1 \/ s[p - 1] \notin Letter
                /\ p = Len(s) \/ s[p + 1] \notin Letter

AllSpace(s, p, q) == \A r \in p..q : IsSpace(s[r])

Brackets == {<<<<"{", "{">>, <<"}", "}">>>>, <<<<"{", "%">>, <<"%", "}">>>>,
             <<<<"<", "%">>, <<"%", ">">>>>, <<<<"$", "{">>, <<"}">>>>,
             <<<<"#", "{">>, <<"}">>>>}

(* g_ssti_re: an opening bracket and, anywhere behind it, the closing one. *)
Ssti(s) == \E b \in Brackets : \E p, q \in DOMAIN s :
    StartsAt(s, p, b[1]) /\ StartsAt(s, q, b[2]) /\ q >= p + Len(b[1])

(* g_sqli_re *)
UnionSelect(s) == \E p, q \in DOMAIN s :
    /\ s[p] = "union" /\ s[q] = "select" /\ IsWord(s, p) /\ IsWord(s, q)
    /\ \/ p + 1 < q /\ AllSpace(s, p + 1, q - 1)
       \/ \E a \in (p + 2)..(q - 2) :
            s[a] = "all" /\ AllSpace(s, p + 1, a - 1) /\ AllSpace(s, a + 1, q - 1)
DropTable(s) == \E p, q \in DOMAIN s :
    /\ s[p] = "drop" /\ s[q] = "table" /\ IsWord(s, p) /\ IsWord(s, q)
    /\ p + 1 < q /\ AllSpace(s, p + 1, q - 1)
CommentAtEnd(s) == \E p \in DOMAIN s :
    StartsAt(s, p, <<"-", "-">>) /\ AllSpace(s, p + 2, Len(s))
SecondStatement(s) == \E p, q \in DOMAIN s :
    /\ s[p] = ";" /\ p < q /\ AllSpace(s, p + 1, q - 1)
    /\ s[q] \in {"drop", "insert", "update", "delete", "truncate"}
    /\ q < Len(s) /\ IsSpace(s[q + 1])

is_safe_string(s) ==
    ~(Ssti(s) \/ UnionSelect(s) \/ DropTable(s) \/ CommentAtEnd(s) \/ SecondStatement(s))

(* The getters of json.c: a value of another type counts as absent. *)
Absent == [type |-> "absent"]
json_get_string(raw, key, default) ==
    IF raw[key].type = "string" THEN raw[key].is ELSE default
json_get_number(raw, key, default) ==
    IF raw[key].type = "number" THEN raw[key].is ELSE default
json_get_bool(raw, key) ==
    CASE raw[key].type \in {"absent", "null"} -> FALSE
      [] raw[key].type = "bool" -> raw[key].is
      [] raw[key].type = "number" -> raw[key].is # 0
      [] raw[key].type = "string" -> raw[key].is # Empty
      [] OTHER -> TRUE

String(raw, key) == json_get_string(raw, key, Empty)

Title(raw) == Sanitized(String(raw, "title"), TitleMax)
Description(raw) == Sanitized(String(raw, "description"), DescMax)
Location(raw) == Sanitized(String(raw, "location"), LocationMax)

UrlOrEmpty(url, allow_any_domain) ==
    IF UrlAccepted(url, allow_any_domain) THEN url ELSE Empty

UrlRefused(raw) == String(raw, "url") # Empty /\ ~UrlAccepted(String(raw, "url"), TRUE)
Served(raw) == {String(raw, "title"), String(raw, "description"), String(raw, "location")}
Stored(raw) == {Title(raw), Description(raw), Location(raw)}

VerdictOnRaw(raw) ==                              \* not as it is stored
    ~UrlRefused(raw) /\ \A s \in Served(raw) : is_safe_string(s)

(* Title, description and location as served and as stored, and a site url  *)
(* that was served and not accepted.                                        *)
Verdict(raw) ==
    ~UrlRefused(raw) /\ \A s \in Served(raw) \cup Stored(raw) : is_safe_string(s)

(* A time that parses and lies from TS_MIN to TS_MAX, as the DATETIME of    *)
(* its column.                                                              *)
Time(iso) ==
    IF /\ iso # NoTime /\ Parses(iso)
       /\ ~Earlier(parse_iso8601(iso), Instant(FirstDay, 0))
       /\ ~Earlier(Instant(LastDay, 0), parse_iso8601(iso))
    THEN format_mysql_datetime(parse_iso8601(iso)) ELSE NoTime

(* round() of tenths of the last decimal, away from zero at a half. *)
Rounded(tenths) ==
    IF tenths >= 0 THEN (tenths + 5) \div 10 ELSE -((5 - tenths) \div 10)

(* Dropped when DECIMAL(8,5) cannot hold it. *)
Weight(tenths) ==
    IF tenths = NoWeight \/ Rounded(tenths) \notin (-WeightMax)..WeightMax
    THEN NoWeight ELSE Rounded(tenths)

(* content_security_sanitize() returns 0 without a title and 1 with: *)
Sanitizable(raw) == Title(raw) # Empty

SanitizedEvent(raw) ==
    LET page == json_get_string(raw, "ctftime_url", Empty) IN
    [title |-> Title(raw), description |-> Description(raw),
     format |-> Sanitized(String(raw, "format"), FormatMax),
     location |-> Location(raw),
     url |-> UrlOrEmpty(String(raw, "url"), TRUE),
     logo_url |-> UrlOrEmpty(String(raw, "logo"), TRUE),
     ctftime_url |-> UrlOrEmpty(IF page = Empty THEN Fallback ELSE page, FALSE),
     start_time |-> Time(json_get_string(raw, "start", NoTime)),
     finish_time |-> Time(json_get_string(raw, "finish", NoTime)),
     weight |-> Weight(json_get_number(raw, "weight", NoWeight)),
     onsite |-> json_get_bool(raw, "onsite"),
     is_safe |-> Verdict(raw)]
================================================================================
