---------------------------------- MODULE Url ---------------------------------
(***************************************************************************)
(* The URL checks of content_security.c on a string of characters.  Case   *)
(* is left out, since the code compares schemes and hosts in lower case.   *)
(***************************************************************************)
EXTENDS Text

CONSTANTS UrlMax,         \* URL_MAX, in bytes
          HostMax,        \* what char host[256] holds
          InternalHosts   \* hosts of the instance that is_internal_host()
                          \* calls internal (Host.tla says which these are)

StartsAt(s, p, word) ==
    p + Len(word) - 1 <= Len(s) /\ SubSeq(s, p, p + Len(word) - 1) = word

Before(s, stops) ==
    LET stopped == {p \in DOMAIN s : s[p] \in stops}
    IN  IF stopped = {} THEN s ELSE SubSeq(s, 1, Min(stopped) - 1)

Separator == <<":", "/", "/">>
Separators(url) == {p \in DOMAIN url : StartsAt(url, p, Separator)}

(* url_scheme_and_host(), for a url with a separator. *)
Scheme(url) == SubSeq(url, 1, Min(Separators(url)) - 1)
Authority(url) ==
    Before(SubSeq(url, Min(Separators(url)) + 3, Len(url)), {"/", "?", "#"})

(* Behind the last "@"; of a bracketed host what the brackets hold, of any  *)
(* other what comes before the first ":".  Empty where the code finds none. *)
Hostname(authority) ==
    LET ats == {p \in DOMAIN authority : authority[p] = "@"}
        hostport == SubSeq(authority, Max(ats \cup {0}) + 1, Len(authority))
    IN  IF hostport = Empty \/ hostport[1] # "[" THEN Before(hostport, {":"})
        ELSE IF "]" \in Range(hostport) THEN Before(Tail(hostport), {"]"})
        ELSE Empty

(* The host is ctftime.org or a name below it. *)
OnCtftime(host) ==
    \/ host = <<"ctftime.org">>
    \/ Len(host) > 2 /\ StartsAt(host, Len(host) - 1, <<".", "ctftime.org">>)

UrlAcceptedByColon(url, allow_any_domain) ==      \* brackets not looked at
    /\ url # Empty /\ Bytes(url) <= UrlMax
    /\ Separators(url) # {}
    /\ Scheme(url) \in {<<"http">>, <<"https">>}
    /\ "@" \notin Range(Authority(url))
    /\ LET host == Before(Authority(url), {":"}) IN
        /\ host # Empty /\ Bytes(host) <= HostMax
        /\ IF allow_any_domain THEN host \notin InternalHosts ELSE OnCtftime(host)

(* sanitize_url() returns 1 and the url itself; the scheme compared at the  *)
(* end is made of letters, as url_scheme_and_host() asks for.               *)
UrlAccepted(url, allow_any_domain) ==
    /\ url # Empty /\ Bytes(url) <= UrlMax
    /\ \A p \in DOMAIN url : ~IsSpace(url[p]) /\ url[p] \notin {"<", ">", "\"", "'"}
    /\ Separators(url) # {}
    /\ Scheme(url) \in {<<"http">>, <<"https">>}
    /\ "@" \notin Range(Authority(url))
    /\ LET host == Hostname(Authority(url)) IN
        /\ host # Empty /\ Bytes(host) <= HostMax
        /\ IF allow_any_domain THEN host \notin InternalHosts ELSE OnCtftime(host)
===============================================================================
