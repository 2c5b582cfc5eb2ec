--------------------------------- MODULE Event ---------------------------------
(***************************************************************************)
(* The record ctf_event_t of event.h, which both binaries pass around.  A  *)
(* field that is absent is the empty string, NoTime or NoWeight; has_url   *)
(* and the like say no more.                                               *)
(***************************************************************************)
EXTENDS Text

CONSTANTS TitleMax, DescMax, FormatMax, LocationMax,   \* widths of event.h
          NoTime, NoWeight

(* ctf_event_init() *)
BlankEvent ==
    [title |-> Empty, description |-> Empty, format |-> Empty, location |-> Empty,
     url |-> Empty, logo_url |-> Empty, ctftime_url |-> Empty,
     start_time |-> NoTime, finish_time |-> NoTime, weight |-> NoWeight,
     onsite |-> FALSE, is_safe |-> FALSE]
================================================================================
