------------------------------ MODULE MCLibrary ------------------------------
(* Lengths scaled down so that every boundary is met: a message of 10       *)
(* characters, of which a header takes 2 or 3; containers that grow at the  *)
(* second element; a size_t of 4 bits; a response of at most 12 bytes; two  *)
(* levels of nesting in texts of at most 9 tokens; columns of 2 to 4        *)
(* characters and a preview of 3.  Numbers that are not counted up to keep  *)
(* their size: years, code points, octets of an address.                    *)
EXTENDS Library

MCItemLen == {1, 2, 4, 9}
MCPiece == {0, 1, 3, 5, 13}
MCFields == {"port", "request_timeout", "sleep_between_requests", "thread_id"}
MCValue == {-1, 0, 1, 65536}

(* Both ends of every range of UTF-8's bytes, and a neighbour of each. *)
MCByte == {65, 128, 143, 144, 159, 160, 191, 192, 193, 194, 223, 224, 237,
           239, 240, 244, 245, 248}

(* Every kind of escape, and code units at the ends of their ranges. *)
MCPieces ==
    [kind : {"byte"}, n : {1, 34, 97, 195}] \cup [kind : {"escape"}, n : {34, 92, 110, 120}]
    \cup [kind : {"end"}, n : {0}]
    \cup [kind : {"unit"}, n : {-1, 0, 1, 127, 128, 2047, 2048, 55295, 55296,
                                56319, 56320, 57343, 57344, 65535}]

(* Addresses at both ends of every range of is_internal_host(), in IPv4 and *)
(* embedded in IPv6, and short names of a few characters.                   *)
Octet1 == {0, 1, 9, 10, 11, 99, 100, 101, 126, 127, 128} \cup 168..173
          \cup {191, 192, 193, 197, 198, 199, 202, 203, 204, 223, 224, 239, 240, 255}
Octet2 == {0, 1, 31, 32, 50, 51, 52, 63, 64, 87, 88, 89, 127, 128, 253, 254, 255}
          \cup 15..20 \cup 167..169
Octet3 == {0, 1, 2, 3, 98, 99, 100, 101, 112, 113, 114, 255}
MCHosts ==
    [v4 |-> {<<a, b, c, d>> : a \in Octet1, b \in Octet2, c \in Octet3, d \in {0, 1}},
     v6 |-> {<<0, 0, 0, 0, 0, sixth, 256 * a + b, 256 * c + 1>> :
                sixth \in {0, 65535}, a \in Octet1, b \in Octet2, c \in Octet3}
            \cup {<<0, 0, 0, 0, 0, sixth, 0, last>> :
                sixth \in {0, 65535}, last \in 0..2}
            \cup {<<first, 0, 0, 0, 0, sixth, 2560, 1>> :
                first \in {1, 64511, 64512, 65023, 65024, 65151, 65152, 65215,
                           65216, 65279, 65280, 65535},
                sixth \in {0, 65535}},
     name |-> {<<"localhost">>, <<"metadata.google.internal">>}
              \cup UNION {[1..k -> {"0", "1", "x", "a", ".", "g", "-"}] : k \in 1..4}]

MCUrlParts ==
    [scheme : {<<"https">>, <<"ftp">>}, user : {<<>>, <<"a", "@">>},
     host : {<<>>, <<"a">>, <<"localhost">>, <<"[", ":", ":", "1", "]">>,
             <<"[", "2001", ":", ":", "1", "]">>, <<"ctftime.org">>,
             <<"a", ".", "ctftime.org">>, <<"a", "ctftime.org">>,
             <<".", "ctftime.org">>, <<"ctftime.org", ".", "a">>, <<"a", "a", "a", "a", "a">>},
     port : {<<>>, <<":", "80">>},
     rest : {<<>>, <<"/", "@", "a">>, <<"?", ":", "/", "/", "a">>, <<"#", "'">>,
             <<"/", " ">>, <<"/", "stray">>, <<"/", "a", "a", "a", "a", "a", "a">>}]
MCInternalHosts == {<<"localhost">>, <<":", ":", "1">>}
MCFallback == <<"https", ":", "/", "/", "ctftime.org">>

(* Details that vary in one field each, or in two that meet. *)
Is(text) == [type |-> "string", is |-> text]
None == [type |-> "absent"]
Plain ==
    [key \in {"title", "description", "location", "format", "url", "logo",
              "ctftime_url", "start", "finish", "weight", "onsite"} |->
        IF key = "title" THEN Is(<<"a">>) ELSE None]
With(key, values) == {[Plain EXCEPT ![key] = v] : v \in values}
Strings(key, texts) == With(key, {Is(t) : t \in texts})
UpTo(n, chars) == {[1..k -> chars] : k \in 0..n}
AllOf(key, n, chars) == {Strings(key, t) : t \in UpTo(n, chars)}

Locals ==
    {[y |-> y, mo |-> date[1], d |-> date[2], h |-> t[1], mi |-> t[2], se |-> t[3]] :
        y \in {1999, 2000, 2024, 2025, 2099, 2100},
        date \in {<<1, 1>>, <<2, 28>>, <<2, 29>>, <<2, 30>>, <<3, 1>>, <<4, 31>>,
                  <<12, 31>>, <<13, 1>>, <<1, 0>>, <<1, 32>>},
        t \in {<<0, 0, 0>>, <<12, 0, 1>>, <<23, 59, 60>>, <<24, 0, 0>>}}
Zone(written, sign, hours, minutes) ==
    [written |-> written, sign |-> sign, hours |-> hours, minutes |-> minutes]
Zones == {Zone(w, 1, 2, 30) : w \in {"Z", "hh:mm", "hhmm", "hh"}}
         \cup {Zone("hh:mm", s, 12, 0) : s \in {-1, 1}}
Utc(y, mo, d, h) ==
    Is([local |-> [y |-> y, mo |-> mo, d |-> d, h |-> h, mi |-> 0, se |-> 0],
        zone |-> Zone("Z", 1, 0, 0)])
Some == {Utc(2024, 2, 28, 12), Utc(2024, 2, 28, 13), Utc(2024, 3, 1, 0),
         Utc(2025, 2, 28, 12), Utc(2025, 2, 28, 13), Utc(1990, 1, 1, 0)}

MCDetails ==
    AllOf("title", 6, {"<", ">", "{", "}"})
    \cup AllOf("title", 6, {"<", ">", " "})
    \cup AllOf("description", 5, {"-", " ", "&", "lt", ";"})
    \cup AllOf("description", 4, {"union", "select", "all", " ", "a"})
    \cup AllOf("description", 4, {"drop", "table", ";", " ", "a"})
    \cup {{[d EXCEPT !.onsite = [type |-> "bool", is |-> TRUE]] : d \in batch} :
            batch \in AllOf("location", 4, {"\f", " ", "wide", "stray", "'"})}
    \cup AllOf("format", 3, {"a", "\n", "\""})
    \cup {Strings(key, {p.scheme \o <<":", "/", "/">> \o p.user \o p.host \o p.port \o p.rest :
                            p \in MCUrlParts}) : key \in {"url", "ctftime_url"}}
    \cup {Strings("logo", {<<"a">>, MCFallback}),
          {[Plain EXCEPT !.start = Is([local |-> l, zone |-> z])] : l \in Locals, z \in Zones},
          {[Plain EXCEPT !.start = s, !.finish = f] : s \in Some, f \in Some \cup {None}},
          With("finish", Some),
          With("weight", [type : {"number"},
                          is : {-1000, -999, -995, -994, -1, 0, 4, 5, 994, 995, 1000}]),
          With("onsite", [type : {"null", "array"}] \cup [type : {"number"}, is : {0, 2}]
                         \cup {Is(<<>>), Is(<<"a">>)}),
          With("title", {[type |-> "null"], [type |-> "number", is |-> 0]})}
=============================================================================
