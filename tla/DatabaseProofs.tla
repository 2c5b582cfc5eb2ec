--------------------------- MODULE DatabaseProofs ---------------------------
(***************************************************************************)
(* What one statement of db.c does to ctf_events, for every id and content. *)
(* The proofs about both binaries rest on these facts and never look into  *)
(* a row update themselves.                                                *)
(***************************************************************************)
EXTENDS Database, TLAPS

(* A stored id has a row, and a row has its three columns. *)
LEMMA StoredRow ==
  ASSUME DatabaseTypeOK, NEW id \in Stored
  PROVE  /\ id \in Id
         /\ ctf_events[id] \in Row
         /\ ctf_events[id].content \in Content
         /\ ctf_events[id].is_safe \in BOOLEAN
         /\ ctf_events[id].posted_at \in BOOLEAN
  BY DEF DatabaseTypeOK, Stored, Row

(* The row db_insert_event() adds. *)
LEMMA NewRow ==
  ASSUME NEW content \in Content, NEW verdict \in BOOLEAN
  PROVE  [content |-> content, is_safe |-> verdict, posted_at |-> FALSE]
            \in Row \ {NoRow}
  <1>1. [content |-> content, is_safe |-> verdict, posted_at |-> FALSE] \in Row
    BY DEF Row
  <1>2. QED BY <1>1, NoRowAssumption

(* db_insert_event(): the row is there, with the new content; a new row has *)
(* the verdict of that content and is unposted, an old one keeps both       *)
(* columns; other rows are not touched.                                     *)
LEMMA UpsertFacts ==
  ASSUME DatabaseTypeOK, NEW id \in Id, NEW content \in Content,
         ctf_events' = UpsertEvent(id, content)
  PROVE  /\ ctf_events' \in [Id -> Row \cup {NoRow}]
         /\ Stored' = Stored \cup {id}
         /\ ctf_events'[id].content = content
         /\ id \notin Stored =>
              /\ ctf_events'[id].is_safe = (content \in SafeContent)
              /\ ctf_events'[id].posted_at = FALSE
         /\ id \in Stored =>
              /\ ctf_events'[id].is_safe = ctf_events[id].is_safe
              /\ ctf_events'[id].posted_at = ctf_events[id].posted_at
         /\ \A other \in Id \ {id} : ctf_events'[other] = ctf_events[other]
  <1> DEFINE verdict == content \in SafeContent
             new == [content |-> content, is_safe |-> verdict,
                     posted_at |-> FALSE]
             old == [ctf_events[id] EXCEPT !.content = content]
  <1>1. /\ ctf_events \in [Id -> Row \cup {NoRow}]
        /\ ctf_events' = [ctf_events EXCEPT ![id] =
                              IF ctf_events[id] = NoRow THEN new ELSE old]
    BY DEF UpsertEvent, DatabaseTypeOK
  <1>2. new \in Row /\ new # NoRow
    <2>1. verdict \in BOOLEAN
      OBVIOUS
    <2>2. QED BY <2>1, NewRow
  <1>3. ASSUME id \in Stored
        PROVE  /\ old \in Row /\ old # NoRow
               /\ old.content = content
               /\ old.is_safe = ctf_events[id].is_safe
               /\ old.posted_at = ctf_events[id].posted_at
    <2>1. ctf_events[id] \in Row
      BY <1>3, StoredRow
    <2>2. QED BY <2>1, NoRowAssumption DEF Row
  <1>4. CASE id \in Stored
    <2>1. ctf_events' = [ctf_events EXCEPT ![id] = old]
      BY <1>1, <1>4 DEF Stored
    <2> HIDE DEF old
    <2>2. QED BY <1>1, <1>3, <1>4, <2>1 DEF Stored
  <1>5. CASE id \notin Stored
    <2>1. ctf_events' = [ctf_events EXCEPT ![id] = new]
      BY <1>1, <1>5 DEF Stored
    <2>2. /\ new.content = content /\ new.posted_at = FALSE
          /\ new.is_safe = verdict
      OBVIOUS
    <2> HIDE DEF new
    <2>3. QED BY <1>1, <1>2, <1>5, <2>1, <2>2 DEF Stored
  <1>6. QED BY <1>4, <1>5

(* db_mark_as_posted() and the operator's review change one column of one   *)
(* row, and neither adds nor removes rows.                                  *)
LEMMA MarkFacts ==
  ASSUME DatabaseTypeOK, NEW id \in Id, ctf_events' = MarkAsPosted(id)
  PROVE  /\ ctf_events' \in [Id -> Row \cup {NoRow}]
         /\ Stored' = Stored
         /\ \A other \in Stored :
              /\ ctf_events'[other].content = ctf_events[other].content
              /\ ctf_events'[other].is_safe = ctf_events[other].is_safe
         /\ id \in Stored => ctf_events'[id].posted_at = TRUE
         /\ \A other \in Id \ {id} : ctf_events'[other] = ctf_events[other]
  <1> DEFINE marked == [ctf_events[id] EXCEPT !.posted_at = TRUE]
  <1>1. /\ ctf_events \in [Id -> Row \cup {NoRow}]
        /\ ctf_events' = [ctf_events EXCEPT ![id] =
               IF ctf_events[id] = NoRow THEN ctf_events[id] ELSE marked]
    BY DEF MarkAsPosted, DatabaseTypeOK
  <1>2. CASE id \in Stored
    <2>1. ctf_events[id] \in Row
      BY <1>2, StoredRow
    <2>2. /\ marked \in Row /\ marked # NoRow
          /\ marked.content = ctf_events[id].content
          /\ marked.is_safe = ctf_events[id].is_safe
          /\ marked.posted_at = TRUE
      BY <2>1, NoRowAssumption DEF Row
    <2>3. ctf_events' = [ctf_events EXCEPT ![id] = marked]
      BY <1>1, <1>2 DEF Stored
    <2> HIDE DEF marked
    <2>4. QED BY <1>1, <1>2, <2>2, <2>3 DEF Stored
  <1>3. CASE id \notin Stored
    BY <1>1, <1>3 DEF Stored
  <1>4. QED BY <1>2, <1>3

LEMMA ApproveFacts ==
  ASSUME DatabaseTypeOK, NEW id \in Id, OperatorApproves(id)
  PROVE  /\ ctf_events' \in [Id -> Row \cup {NoRow}]
         /\ Stored' = Stored
         /\ approved' = approved \cup {id}
         /\ \A other \in Stored :
              /\ ctf_events'[other].content = ctf_events[other].content
              /\ ctf_events'[other].posted_at = ctf_events[other].posted_at
         /\ \A other \in Id \ {id} : ctf_events'[other] = ctf_events[other]
         /\ UNCHANGED parser_buffer
  <1> DEFINE released == [ctf_events[id] EXCEPT !.is_safe = TRUE]
  <1>1. /\ ctf_events \in [Id -> Row \cup {NoRow}]
        /\ ctf_events' = [ctf_events EXCEPT ![id] = released]
        /\ id \in Stored /\ approved' = approved \cup {id}
        /\ UNCHANGED parser_buffer
    BY DEF OperatorApproves, DatabaseTypeOK
  <1>2. ctf_events[id] \in Row
    BY <1>1, StoredRow
  <1>3. /\ released \in Row /\ released # NoRow
        /\ released.content = ctf_events[id].content
        /\ released.posted_at = ctf_events[id].posted_at
    BY <1>2, NoRowAssumption DEF Row
  <1> HIDE DEF released
  <1>4. QED BY <1>1, <1>3 DEF Stored
=============================================================================
