------------------------------ MODULE HistoryRows ------------------------------
(***************************************************************************)
(* The table "items" of storage.py as a value: a function from row ids to  *)
(* rows, and what its SQL statements compute.  HistoryStore runs these     *)
(* statements inside transactions; BoundedHistory states what a whole      *)
(* transaction promises.                                                   *)
(*                                                                         *)
(* A row keeps its payload (type, preview, content, image, size and        *)
(* metadata all derive from it), its pin and its created_at.  The column   *)
(* "hash" is HashOf[payload]: HashOf need not be injective, because        *)
(* image_hash reads only a prefix and the length, and because a copied     *)
(* file list and the same text share a content_hash.                       *)
(***************************************************************************)
EXTENDS Integers, FiniteSets

CONSTANTS
    Payloads,     \* what can be copied, after newline normalisation
    HashOf,       \* the fingerprint of each payload
    Configs,      \* the settings a process may run with
    ItemCeiling,  \* upper end of the range of max_items (1000 in the code)
    PinCeiling,   \* upper end of the range of pin_limit (200 in the code)
    MaxTime       \* bound: readings of time.time() are 0..MaxTime

Times == 0..MaxTime

\* accepts: what should_capture and the size limits let through
Config == [maxItems : Int, pinLimit : Int, accepts : SUBSET Payloads]

ASSUME RowsAssumption ==
    /\ MaxTime \in Nat
    /\ ItemCeiling \in Nat \ {0}
    /\ PinCeiling \in Nat \ {0}
    /\ DOMAIN HashOf = Payloads
    /\ Configs \subseteq Config
    /\ \A c \in Configs : c.maxItems <= ItemCeiling /\ c.pinLimit <= PinCeiling

Row == [payload : Payloads, pinned : BOOLEAN, created : Times]

NoRows == [i \in {} |-> 0]

\* max(1, n), the guard both limits pass through
AtLeastOne(n) == IF n < 1 THEN 1 ELSE n

Pinned(rows) == {i \in DOMAIN rows : rows[i].pinned}
Unpinned(rows) == {i \in DOMAIN rows : ~rows[i].pinned}

\* rows told apart by what they hold, and not by the unique column
Holders_SamePayload(rows, pl) == {i \in DOMAIN rows : rows[i].payload = pl}

\* The rows that share the fingerprint of a payload; UNIQUE allows at most one.
Holders(rows, pl) == {i \in DOMAIN rows : HashOf[rows[i].payload] = HashOf[pl]}

\* DELETE FROM items WHERE id IN gone
Without(rows, gone) == [i \in DOMAIN rows \ gone |-> rows[i]]

\* out is a possible result of "ORDER BY created_at ASC LIMIT n" over the ids of
\* among: n rows (or all, when there are fewer), none younger than one left out.
Oldest(rows, among, out) ==
    \A i \in out, j \in among \ out : rows[i].created <= rows[j].created

\* INSERT ... ON CONFLICT(hash) DO UPDATE: a known fingerprint keeps its id and its
\* pin, and a pinned row its created_at too.
UpsertRow(rows, id, pl, now) ==
    IF Holders(rows, pl) = {}
    THEN [i \in DOMAIN rows \cup {id} |->
            IF i = id THEN [payload |-> pl, pinned |-> FALSE, created |-> now]
                      ELSE rows[i]]
    ELSE [i \in DOMAIN rows |->
            IF i \in Holders(rows, pl)
            THEN [payload |-> pl, pinned |-> rows[i].pinned,
                  created |-> IF rows[i].pinned THEN rows[i].created ELSE now]
            ELSE rows[i]]

\* UPDATE items SET pinned=0 WHERE id IN out
UnpinRows(rows, out) ==
    [i \in DOMAIN rows |->
        IF i \in out THEN [rows[i] EXCEPT !.pinned = FALSE] ELSE rows[i]]

\* UPDATE items SET pinned=?, created_at=? WHERE id=?  (no row, no change)
StampRow(rows, id, pin, now) ==
    [i \in DOMAIN rows |->
        IF i = id THEN [payload |-> rows[i].payload, pinned |-> pin, created |-> now]
                  ELSE rows[i]]
================================================================================
