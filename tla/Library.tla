------------------------------- MODULE Library -------------------------------
(***************************************************************************)
(* The parts of the program that one process uses by itself, called by one *)
(* thread.  They share no state, so one call at a time is all there is to  *)
(* see: where the code nests them (a text is built while a digest is       *)
(* packed, a response is held while it is parsed), the outer one rests.    *)
(***************************************************************************)
EXTENDS Integers, JsonGrammar

CONSTANTS MaxLen, HeaderLen, ContHeaderLen, SepLen, ItemLen, MaxEvents,
          VectorCap,
          SizeMax, StringCap,
          MaxResponse, ResponseCap, Piece,
          Fields, Value,
          Pieces, MaxPieces, Byte, MaxBytes,
          TitleMax, DescMax, FormatMax, LocationMax, UrlMax, HostMax, PreviewLen,
          Letter, FirstDay, LastDay, WeightMax, Fallback, NoTime, NoWeight,
          InternalHosts, Details, UrlParts,
          Hosts

VARIABLES digest_pc, items, i, header, body, parts,
          json_pc, read, token, depth, frames, value, heap, oom,
          string_pc, source, out, high,
          utf8_pc, bytes, cp, left, min_cp,
          strbuf_pc, string_cap, string_len, extra, string_newcap,
          http_pc, response_cap, response_len, add, response_newcap, sent,
          config_pc, section, cfg, named,
          content_pc, detail, ev, message, item,
          host_pc, host, internal

Dig == INSTANCE Digest
Jsn == INSTANCE Json WITH FirstCap <- VectorCap
Jst == INSTANCE JsonString
Utf == INSTANCE Utf8
Str == INSTANCE StrBuf WITH
    FirstCap <- StringCap, cap <- string_cap, len <- string_len,
    newcap <- string_newcap
Rsp == INSTANCE Response WITH
    FirstCap <- ResponseCap, cap <- response_cap, len <- response_len,
    newcap <- response_newcap
Cfg == INSTANCE Config
Cnt == INSTANCE Content
Hst == INSTANCE Host

ASSUME LibraryAssumption ==
    /\ Dig!DigestConstants /\ Jsn!JsonConstants /\ Str!StrBufConstants
    /\ Rsp!ResponseConstants /\ Cfg!ConfigConstants /\ Jst!StringConstants
    /\ Utf!Utf8Constants /\ Cnt!ContentConstants /\ Cnt!FormatterConstants
    /\ Cnt!DetailConstants /\ Hst!HostConstants

digestVars == <<digest_pc, items, i, header, body, parts>>
jsonVars == <<json_pc, read, token, depth, frames, value, heap, oom>>
stringVars == <<string_pc, source, out, high>>
utf8Vars == <<utf8_pc, bytes, cp, left, min_cp>>
strbufVars == <<strbuf_pc, string_cap, string_len, extra, string_newcap>>
httpVars == <<http_pc, response_cap, response_len, add, response_newcap, sent>>
configVars == <<config_pc, section, cfg, named>>
contentVars == <<content_pc, detail, ev, message, item>>
hostVars == <<host_pc, host, internal>>
vars == <<digestVars, jsonVars, stringVars, utf8Vars, strbufVars, httpVars,
          configVars, contentVars, hostVars>>

Init ==
    /\ Dig!Init /\ Jsn!Init /\ Jst!Init /\ Utf!Init /\ Str!Init
    /\ Rsp!Init /\ Cfg!Init /\ Cnt!Init /\ Hst!Init

Idle(pc) == pc \in {"idle", "free"}

(* No part but this one is in a call. *)
Alone(part) ==
    LET pc == [digest |-> digest_pc, json |-> json_pc, string |-> string_pc,
           utf8 |-> utf8_pc, strbuf |-> strbuf_pc,
           http |-> http_pc, config |-> config_pc,
           content |-> content_pc, host |-> host_pc]
    IN  \A other \in DOMAIN pc \ {part} : Idle(pc[other])

DigestCall ==
    /\ Alone("digest") /\ Dig!Next
    /\ UNCHANGED <<jsonVars, stringVars, utf8Vars, strbufVars, httpVars,
                   configVars, contentVars, hostVars>>

JsonCall ==
    /\ Alone("json") /\ Jsn!Next
    /\ UNCHANGED <<digestVars, stringVars, utf8Vars, strbufVars, httpVars,
                   configVars, contentVars, hostVars>>

StringCall ==
    /\ Alone("string") /\ Jst!Next
    /\ UNCHANGED <<digestVars, jsonVars, utf8Vars, strbufVars, httpVars,
                   configVars, contentVars, hostVars>>

Utf8Call ==
    /\ Alone("utf8") /\ Utf!Next
    /\ UNCHANGED <<digestVars, jsonVars, stringVars, strbufVars, httpVars,
                   configVars, contentVars, hostVars>>

StrBufCall ==
    /\ Alone("strbuf") /\ Str!Next
    /\ UNCHANGED <<digestVars, jsonVars, stringVars, utf8Vars, httpVars,
                   configVars, contentVars, hostVars>>

HttpCall ==
    /\ Alone("http") /\ Rsp!Next
    /\ UNCHANGED <<digestVars, jsonVars, stringVars, utf8Vars, strbufVars,
                   configVars, contentVars, hostVars>>

ConfigCall ==
    /\ Alone("config") /\ Cfg!Next
    /\ UNCHANGED <<digestVars, jsonVars, stringVars, utf8Vars, strbufVars,
                   httpVars, contentVars, hostVars>>

ContentCall ==
    /\ Alone("content") /\ Cnt!Next
    /\ UNCHANGED <<digestVars, jsonVars, stringVars, utf8Vars, strbufVars,
                   httpVars, configVars, hostVars>>

HostCall ==
    /\ Alone("host") /\ Hst!Next
    /\ UNCHANGED <<digestVars, jsonVars, stringVars, utf8Vars, strbufVars,
                   httpVars, configVars, contentVars>>

Next ==
    \/ DigestCall \/ JsonCall \/ StringCall \/ Utf8Call \/ StrBufCall
    \/ HttpCall \/ ConfigCall \/ ContentCall \/ HostCall

(* The machine goes on executing a call of strbuf_append(). *)
InStrBuf ==
    /\ Str!InCall
    /\ UNCHANGED <<digestVars, jsonVars, stringVars, utf8Vars, httpVars,
                   configVars, contentVars, hostVars>>

Spec == Init /\ [][Next]_vars /\ WF_vars(InStrBuf)
-----------------------------------------------------------------------------
(* The types of all parts.  A run starts with a database name, a positive    *)
(* request timeout and sleeps that are not negative, whatever config.ini     *)
(* says.                                                                     *)
LibraryTypeOK ==
    /\ Dig!DigestTypeOK /\ Jsn!JsonTypeOK /\ Str!StrBufTypeOK
    /\ Rsp!HttpTypeOK /\ Cfg!ConfigTypeOK /\ Cfg!LoadedInRange
    /\ Jst!StringTypeOK /\ Utf!Utf8TypeOK
    /\ Cnt!ContentTypeOK /\ Hst!HostTypeOK

(* The Monday digest shows every event once and in order.  No message is    *)
(* shorter than it has to be, and longer than the limit only when a single  *)
(* event does not fit in one (formatter.c).                                 *)
DigestPacked == Dig!EventsInOrder /\ Dig!MessagesPacked

(* json_parse() accepts JSON of limited depth and nothing else.  What it    *)
(* rejects, when no allocation failed, it rejects at a token with which no  *)
(* such text goes on.                                                       *)
ParsesJson ==
    /\ json_pc = "returned" => read \in Sentences
    /\ json_pc = "null" /\ ~oom =>
        \A s \in Sentences :
            \/ Len(read) > Len(s)
            \/ Append(read, token) # SubSeq(Append(s, "end"), 1, Len(read) + 1)
    /\ Jsn!DepthIsNesting

(* It neither leaks nor frees twice on any path. *)
NothingLeaks == Jsn!NothingLeaks

(* Strings are decoded from JSON, and escaped for JSON again, without loss  *)
(* (json.c, util.c).                                                        *)
StringsExact == Jst!StringsDecoded /\ Jst!EscapesReadBack

(* Texts are judged as UTF-8, counted and cut as the standard has it        *)
(* (util.c).                                                                *)
Utf8Exact == Utf!Utf8Exact

(* A strbuf_t holds what is written to it, near SIZE_MAX as well (util.c);  *)
(* a response stays inside its buffer and the buffer below its limit, and   *)
(* none is passed on in part (http.c).                                      *)
BuffersHold == Str!WritesFit /\ Rsp!BodyKept

(* Every append to a strbuf_t returns. *)
AppendReturns == Str!AppendReturns

(* What is stored is what was served: the texts, clean and as long as the   *)
(* columns take them, the dates as the UTC times they stand for, and a url  *)
(* just when it leads to a public host of the web (content_security.c,      *)
(* util.c).                                                                 *)
StoredAsServed == Cnt!StoredClean /\ Cnt!DatesKept /\ Cnt!UrlsKept

(* No template reaches the topic under a verdict of safe, and plain prose   *)
(* is not withheld (content_security.c).                                    *)
VerdictCoversShown == Cnt!VerdictCoversShown

(* An address is public just when it is in none of the ranges the code      *)
(* names, and a name when it has a letter, is not a hexadecimal number and  *)
(* not one of two known names (util.c).                                     *)
HostsJudged == Hst!HostsJudged

(* The message and the digest say what is stored (formatter.c).             *)
ShownAsStored == Cnt!ShownAsStored
=============================================================================
