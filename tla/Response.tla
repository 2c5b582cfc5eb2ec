------------------------------- MODULE Response -------------------------------
(***************************************************************************)
(* http.c: one request of do_request() and the buffer in which write_cb()  *)
(* collects the response as libcurl hands it over, piece by piece.         *)
(***************************************************************************)
EXTENDS Naturals

CONSTANTS MaxResponse,    \* MAX_RESPONSE_SIZE
          FirstCap,       \* 4096, the first capacity
          Piece           \* sizes of the pieces libcurl may hand over

(* What the constants have to satisfy. *)
ResponseConstants ==
    /\ MaxResponse \in Nat /\ FirstCap \in Nat \ {0}
    /\ FirstCap <= 2 * MaxResponse
    /\ Piece \subseteq Nat

VARIABLES http_pc,        \* "idle", "transfer", "grow", "failed" or "returned"
          cap,            \* ctx.cap (0: ctx.data is NULL)
          len,            \* ctx.len
          add,            \* the piece at hand
          newcap,         \* write_cb()'s local
          sent            \* history: bytes libcurl has received

httpVars == <<http_pc, cap, len, add, newcap, sent>>

HttpTypeOK ==
    /\ http_pc \in {"idle", "transfer", "grow", "failed", "returned"}
    /\ cap \in Nat /\ len \in Nat /\ newcap \in Nat /\ sent \in Nat
    /\ add \in Piece \cup {0}

Init ==
    /\ http_pc = "idle"
    /\ cap = 0 /\ len = 0 /\ add = 0 /\ newcap = 0 /\ sent = 0

Request ==
    /\ http_pc = "idle" /\ http_pc' = "transfer"
    /\ UNCHANGED <<cap, len, add, newcap, sent>>

TooLarge(size) == size > MaxResponse \/ len > MaxResponse - size

Stored(size) ==
    /\ len' = len + size
    /\ add' = 0 /\ newcap' = 0
    /\ http_pc' = "transfer"

WriteCbTruncates ==                               \* over the limit: skipped
    /\ http_pc = "transfer"
    /\ \E size \in Piece :
        /\ sent' = sent + size
        /\ \/ TooLarge(size) /\ UNCHANGED <<http_pc, len, add, newcap>>
           \/ /\ ~TooLarge(size) /\ len + size + 1 <= cap
              /\ Stored(size)
           \/ /\ ~TooLarge(size) /\ len + size + 1 > cap
              /\ http_pc' = "grow" /\ add' = size
              /\ newcap' = IF cap = 0 THEN FirstCap ELSE 2 * cap
              /\ UNCHANGED len
    /\ UNCHANGED cap

(* write_cb(): over the limit, room enough, or the buffer has to grow.      *)
WriteCb ==
    /\ http_pc = "transfer"
    /\ \E size \in Piece :
        /\ sent' = sent + size
        /\ \/ /\ TooLarge(size)
              /\ http_pc' = "failed"
              /\ UNCHANGED <<len, add, newcap>>
           \/ /\ ~TooLarge(size) /\ len + size + 1 <= cap
              /\ Stored(size)
           \/ /\ ~TooLarge(size) /\ len + size + 1 > cap
              /\ http_pc' = "grow" /\ add' = size
              /\ newcap' = IF cap = 0 THEN FirstCap ELSE 2 * cap
              /\ UNCHANGED len
    /\ UNCHANGED cap

Double ==
    /\ http_pc = "grow" /\ newcap < len + add + 1
    /\ newcap' = 2 * newcap
    /\ UNCHANGED <<http_pc, cap, len, add, sent>>

(* realloc() and memcpy(); without memory the transfer is aborted. *)
Realloc ==
    /\ http_pc = "grow" /\ newcap >= len + add + 1
    /\ \/ cap' = newcap /\ Stored(add)
       \/ /\ http_pc' = "failed" /\ add' = 0 /\ newcap' = 0
          /\ UNCHANGED <<cap, len>>
    /\ UNCHANGED sent

(* CURLE_OK: the response goes to the caller. *)
Complete ==
    /\ http_pc = "transfer" /\ http_pc' = "returned"
    /\ UNCHANGED <<cap, len, add, newcap, sent>>

(* A timeout, a broken connection, a body announced as too large. *)
Break ==
    /\ http_pc = "transfer" /\ http_pc' = "failed"
    /\ UNCHANGED <<cap, len, add, newcap, sent>>

(* free(ctx.data), or the caller's http_response_free(). *)
Free ==
    /\ http_pc \in {"failed", "returned"} /\ http_pc' = "idle"
    /\ cap' = 0 /\ len' = 0 /\ sent' = 0
    /\ UNCHANGED <<add, newcap>>

Next ==
    \/ Request \/ WriteCb \/ Double \/ Realloc \/ Complete \/ Break \/ Free

Spec == Init /\ [][Next]_httpVars

-----------------------------------------------------------------------------
(* The body and its NUL lie inside what is allocated; no response, of       *)
(* whatever pieces, makes the program allocate more than twice the limit;   *)
(* and a caller that is told 1 gets all the server sent: a body that was    *)
(* cut off is never passed on to be parsed.                                 *)
BodyKept ==
    /\ cap > 0 => len + 1 <= cap
    /\ cap = 0 => len = 0
    /\ cap <= 2 * MaxResponse /\ newcap <= 2 * MaxResponse
    /\ http_pc = "returned" => len = sent /\ sent <= MaxResponse
=============================================================================
