-------------------------------- MODULE Config --------------------------------
(***************************************************************************)
(* config.c: config_load() reads config.ini line by line.  Of the fields,  *)
(* the numeric ones are modelled with their values and [db] name by        *)
(* whether it is set; other keys have no effect on the outcome.            *)
(***************************************************************************)
EXTENDS Integers

CONSTANTS Fields,         \* the numeric fields looked at
          Value           \* values atoi() may yield

(* The section, default and least value of each numeric field.  Only the    *)
(* port has a greatest one.                                                 *)
Field == [
    port                   |-> [section |-> "db", default |-> 3306, least |-> 1],
    days_ahead             |-> [section |-> "parser", default |-> 14, least |-> 1],
    events_limit           |-> [section |-> "parser", default |-> 100, least |-> 1],
    request_timeout        |-> [section |-> "parser", default |-> 10, least |-> 1],
    sleep_between_requests |-> [section |-> "parser", default |-> 1, least |-> 0],
    thread_id              |-> [section |-> "telegram", default |-> 0, least |-> 0],
    sleep_between_messages |-> [section |-> "telegram", default |-> 2, least |-> 0]]

(* What the constants have to satisfy. *)
ConfigConstants ==
    /\ Fields \subseteq DOMAIN Field
    /\ Value \subseteq Int

Section == {"", "db", "parser", "telegram", "logging", "unknown"}

VARIABLES config_pc,      \* "idle", "read", "loaded" or "failed"
          section,        \* the section of the lines that follow
          cfg,            \* the numeric fields
          named           \* db.name is set

configVars == <<config_pc, section, cfg, named>>

ConfigTypeOK ==
    /\ config_pc \in {"idle", "read", "loaded", "failed"}
    /\ section \in Section
    /\ cfg \in [Fields -> Int]
    /\ named \in BOOLEAN

Defaults == [f \in Fields |-> Field[f].default]

Init ==
    /\ config_pc = "idle" /\ section = "" /\ cfg = Defaults /\ named = FALSE

(* set_defaults() and fopen() *)
Open ==
    /\ config_pc = "idle"
    /\ config_pc' \in {"read", "failed"}
    /\ UNCHANGED <<section, cfg, named>>

(* "[section]" *)
SectionLine ==
    /\ config_pc = "read"
    /\ section' \in Section
    /\ UNCHANGED <<config_pc, cfg, named>>

(* "key = value": keys of other sections are ignored, later lines win. *)
NumberLine ==
    /\ config_pc = "read"
    /\ \E f \in Fields, v \in Value :
        /\ Field[f].section = section
        /\ cfg' = [cfg EXCEPT ![f] = v]
    /\ UNCHANGED <<config_pc, section, named>>

NameLine ==
    /\ config_pc = "read" /\ section = "db"
    /\ named' \in BOOLEAN                   \* "name =" empties it again
    /\ UNCHANGED <<config_pc, section, cfg>>

(* A line without "=": the rest of the file is not read. *)
MalformedLine ==
    /\ config_pc = "read"
    /\ config_pc' = "failed"
    /\ UNCHANGED <<section, cfg, named>>

InRangeOrZero(f, v) == v >= 0 /\ (f = "port" => v <= 65535)  \* < 0 for all

InRange(f, v) == v >= Field[f].least /\ (f = "port" => v <= 65535)

(* validate_and_clamp() *)
Clamped == [f \in Fields |-> IF InRange(f, cfg[f]) THEN cfg[f]
                                                   ELSE Field[f].default]

(* The end of the file. *)
EndOfFile ==
    /\ config_pc = "read"
    /\ IF named THEN config_pc' = "loaded" /\ cfg' = Clamped
                ELSE config_pc' = "failed" /\ UNCHANGED cfg
    /\ UNCHANGED <<section, named>>

(* The run that loaded it ends. *)
Exit ==
    /\ config_pc \in {"loaded", "failed"}
    /\ config_pc' = "idle" /\ section' = "" /\ cfg' = Defaults /\ named' = FALSE

Next ==
    \/ Open \/ SectionLine \/ NumberLine \/ NameLine \/ MalformedLine
    \/ EndOfFile \/ Exit

Spec == Init /\ [][Next]_configVars

-----------------------------------------------------------------------------
(* Whatever lines a file has and in whatever order, a run that starts has a *)
(* database name, a request timeout (libcurl takes 0 as none), and no       *)
(* negative sleep, of which sleep() makes decades.  The fairness assumed of a *)
(* request and a pause in the runs of both binaries rests on this.          *)
LoadedInRange ==
    config_pc = "loaded" =>
        /\ named
        /\ \A f \in Fields : cfg[f] >= Field[f].least
        /\ "port" \in Fields => cfg["port"] >= 1 /\ cfg["port"] <= 65535
=============================================================================
