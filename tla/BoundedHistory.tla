---------------------------- MODULE BoundedHistory -----------------------------
(***************************************************************************)
(* What the history promises to its users, whatever processes share the    *)
(* database file: every operation takes effect at one instant, pins are    *)
(* never pruned, what is pruned or unpinned is the oldest, and no more     *)
(* than the limit asks for.  HistoryStore implements this specification.   *)
(***************************************************************************)
EXTENDS HistoryRows

VARIABLES
    rows,    \* the history: row id -> row
    lastId   \* the largest id ever handed out (sqlite_sequence)

vars == <<rows, lastId>>

Init ==
    /\ rows = NoRows
    /\ lastId = 0

\* A payload is recorded: one row holds it, and then the oldest unpinned rows leave,
\* exactly as many as exceed max_items.
Capture(pl, now, limit) ==
    /\ lastId' = lastId + 1
    /\ LET stored == UpsertRow(rows, lastId + 1, pl, now)
       IN  \E gone \in SUBSET Unpinned(stored) :
               /\ rows' = Without(stored, gone)
               /\ Oldest(stored, Unpinned(stored), gone)
               /\ Cardinality(Unpinned(stored) \ gone) <= limit
               /\ gone # {} => Cardinality(Unpinned(stored) \ gone) = limit

\* A row is pinned: the oldest pins give way until there is room for it.
Pin(id, now, limit) ==
    /\ id \in Unpinned(rows)
    /\ \E out \in SUBSET Pinned(rows) :
            /\ rows' = StampRow(UnpinRows(rows, out), id, TRUE, now)
            /\ Oldest(rows, Pinned(rows), out)
            /\ Cardinality(Pinned(rows) \ out) < limit
            /\ out # {} => Cardinality(Pinned(rows) \ out) = limit - 1
    /\ UNCHANGED lastId

Unpin(id, now) ==
    /\ id \in Pinned(rows)
    /\ rows' = StampRow(rows, id, FALSE, now)
    /\ UNCHANGED lastId

\* A pasted row moves to the front and keeps its pin.
Touch(id, now) ==
    /\ id \in DOMAIN rows
    /\ rows' = StampRow(rows, id, rows[id].pinned, now)
    /\ UNCHANGED lastId

Remove(gone) ==
    /\ rows' = Without(rows, gone)
    /\ UNCHANGED lastId

Next ==
    \/ \E pl \in Payloads, now \in Times, c \in Configs :
            Capture(pl, now, AtLeastOne(c.maxItems))
    \/ \E id \in DOMAIN rows, now \in Times :
            \/ \E c \in Configs : Pin(id, now, AtLeastOne(c.pinLimit))
            \/ Unpin(id, now)
            \/ Touch(id, now)
            \/ Remove({id})
    \/ Remove(Unpinned(rows))
    \/ Remove(DOMAIN rows)

Spec == Init /\ [][Next]_vars

TypeOK ==
    /\ lastId \in Nat
    /\ DOMAIN rows \subseteq 1..lastId
    /\ rows \in [DOMAIN rows -> Row]

--------------------------------------------------------------------------------
\* The history never outgrows its two limits together, although unpinning is not
\* followed by a prune (storage.py toggle_pin) and so may leave more unpinned rows
\* than max_items until the next capture.
Bounded ==
    /\ Cardinality(Pinned(rows)) <= PinCeiling
    /\ Cardinality(DOMAIN rows) <= ItemCeiling + PinCeiling

\* An id that a window or a script remembers never comes to denote another payload:
\* a removed id stays removed, and a kept one keeps its fingerprint (AUTOINCREMENT).
IdsNeverReused ==
    [][\A i \in 1..lastId :
          i \in DOMAIN rows' =>
              /\ i \in DOMAIN rows
              /\ HashOf[rows'[i].payload] = HashOf[rows[i].payload]]_vars

\* No two rows share a fingerprint (the column is UNIQUE): copying the same thing
\* again moves its row instead of adding one.
OneRowPerHash ==
    \A i, j \in DOMAIN rows :
        HashOf[rows[i].payload] = HashOf[rows[j].payload] => i = j
================================================================================
