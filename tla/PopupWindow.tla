------------------------------ MODULE PopupWindow ------------------------------
(***************************************************************************)
(* ui/window.py and ui/dialogs.py: the list of the popup as a view of the  *)
(* history.  The window keeps the items of its last rebuild and the row    *)
(* widgets made from them; the history goes on changing.  Rebuilds are     *)
(* asked for through the main loop and coalesced by _refresh_pending, and  *)
(* a change of the store reaches the window by a second idle callback that *)
(* is ignored while the window is hidden.  Keys act on the items of the    *)
(* last rebuild, buttons on the item their row was built from.  Clear      *)
(* asks in a nested main loop, during which everything else goes on.       *)
(*                                                                         *)
(* Abstracted: a row of the table is its id and its pin; HistoryStore has  *)
(* the transactions behind each write.  Hiding by loss of focus is         *)
(* PasteFlow's.  pin_limit is above the number of rows.                    *)
(***************************************************************************)
EXTENDS Integers, FiniteSets, Sequences, SequencesExt

CONSTANTS
    MaxItems,   \* Config.max_items
    ListLimit,  \* the 200 rows _rebuild asks for
    Found,      \* ids whose text contains what the user types
    MaxId,      \* bound: rows ever recorded
    MaxQueued   \* bound: history notifications waiting in the main loop

PopupAssumption ==
    /\ MaxItems \in Nat \ {0} /\ ListLimit \in Nat \ {0}
    /\ MaxId \in Nat /\ MaxQueued \in Nat

ASSUME PopupAssumption

VARIABLES
    history,     \* the rows of the table, the latest created_at first
    nextId,      \* AUTOINCREMENT
    visible,     \* the window is mapped
    text,        \* what the search entry holds
    typed,       \* "search-changed" is on its way
    items,       \* _items
    rows,        \* the cards in list_box, each with the item it was built from
    selected,    \* _selected
    highlight,   \* the number of the card with the class "selected", 0 for none
    pending,     \* _refresh_pending: a rebuild is scheduled
    queued,      \* how many refresh_later callbacks wait
    dirty,       \* this process has changed the history since the last rebuild
    shownFor,    \* the text of the last rebuild
    broken,      \* the last rebuild raised
    dialog,      \* the confirmation that is open
    windowKeep,  \* keep_pinned_on_clear in the object the window and the app hold
    storeKeep,   \* keep_pinned_on_clear in the object the store holds
    shared       \* both are the same object

tableVars == <<history, nextId>>
viewVars == <<items, rows, selected, highlight, shownFor, broken>>
settingVars == <<windowKeep, storeKeep, shared>>
vars == <<tableVars, viewVars, settingVars, visible, text, typed, pending, queued, dirty,
          dialog>>

Items == [id : Nat, pinned : BOOLEAN]
Texts == {"", "word"}   \* no text finds everything
NoDialog == [open |-> FALSE, keep |-> FALSE]

\* the elements of s at some positions, in their order
Kept(s, positions) ==
    [n \in 1..Cardinality(positions) |->
        s[CHOOSE i \in positions : Cardinality({j \in positions : j <= i}) = n]]

PinnedAt(s) == {i \in DOMAIN s : s[i].pinned}
OnlyPinned(s) == Kept(s, PinnedAt(s))
PinnedFirst(s, positions) ==
    Kept(s, positions \cap PinnedAt(s)) \o Kept(s, positions \ PinnedAt(s))
At(s, id) == {i \in DOMAIN s : s[i].id = id}
Except(s, id) == Kept(s, DOMAIN s \ At(s, id))

\* WHERE content LIKE
Hits(h, t) == {i \in DOMAIN h : t # "word" \/ h[i].id \in Found}

\* LIMIT
Limited(list) == SubSeq(list, 1, IF Len(list) < ListLimit THEN Len(list) ELSE ListLimit)

\* ORDER BY created_at only
Listing_Latest(h, t) == Limited(Kept(h, Hits(h, t)))

\* store.list: ORDER BY pinned DESC, created_at DESC LIMIT
Listing(h, t) == Limited(PinnedFirst(h, Hits(h, t)))

\* the cards of a list: without a search text there is a section of pins above the rest
Cards(list, t) == IF t = "" THEN PinnedFirst(list, DOMAIN list) ELSE list

\* the oldest unpinned rows beyond max_items go
Pruned(h) ==
    Kept(h, {i \in DOMAIN h : h[i].pinned \/ Cardinality({j \in 1..i : ~h[j].pinned}) <= MaxItems})

Init ==
    /\ history = <<>> /\ nextId = 1
    /\ visible = FALSE
    /\ text = "" /\ typed = FALSE
    /\ items = <<>> /\ rows = <<>> /\ selected = 0 /\ highlight = 0
    /\ pending = TRUE /\ queued = 0 /\ dirty = FALSE
    /\ shownFor = "" /\ broken = FALSE
    /\ dialog = NoDialog
    /\ windowKeep \in BOOLEAN /\ storeKeep = windowKeep /\ shared = TRUE

--------------------------------------------------------------------------------
(* The history *)

\* a write of this process: its listener asks the main loop for refresh_later
Write(h) ==
    /\ queued < MaxQueued
    /\ history' = h
    /\ queued' = queued + 1
    /\ dirty' = TRUE

\* ON CONFLICT: a row becomes the newest, a pinned one keeps its created_at
Renewed(i) ==
    IF history[i].pinned THEN history ELSE <<history[i]>> \o Except(history, history[i].id)

\* the monitor records something new, or once more something that is there
Capture ==
    /\ \/ /\ nextId <= MaxId
          /\ Write(Pruned(<<[id |-> nextId, pinned |-> FALSE]>> \o history))
          /\ nextId' = nextId + 1
       \/ /\ \E i \in DOMAIN history : Write(Pruned(Renewed(i)))
          /\ UNCHANGED nextId
    /\ UNCHANGED <<viewVars, settingVars, visible, text, typed, pending, dialog>>

\* --clear or --clear --all in another process: nobody is told
ForeignClear ==
    /\ history' \in {OnlyPinned(history), <<>>}
    /\ UNCHANGED <<nextId, viewVars, settingVars, visible, text, typed, pending, queued,
                   dirty, dialog>>

--------------------------------------------------------------------------------
(* Rebuilding *)

\* refresh() sets the flag, and nothing is scheduled while it is set
Refresh(force) == pending' = (pending \/ force \/ visible)

\* the selection follows the key, not the new list
Clamped_Kept(list) == selected

Clamped(list) == IF selected < Len(list) THEN selected ELSE IF list = <<>> THEN 0 ELSE Len(list) - 1

\* _rebuild with the index it starts from
Rebuilt(index, list) ==
    /\ items' = list
    /\ rows' = Cards(list, text)
    /\ selected' = index
    /\ highlight' = IF list = <<>> THEN 0 ELSE index + 1
    /\ shownFor' = text
    /\ broken' = FALSE
    /\ dirty' = FALSE

\* _rebuild raises: in store.list, which leaves the selection where the caller has put it, or in
\* _build_row after some of the cards were made
RebuildRaises(start, index, list) ==
    /\ \/ selected' = start /\ UNCHANGED <<items, rows, highlight>>
       \/ /\ items' = list
          /\ selected' = index
          /\ highlight' = 0
          /\ \E made \in 0..(Len(list) - 1) : rows' = SubSeq(Cards(list, text), 1, made)
    /\ broken' = TRUE
    /\ UNCHANGED <<shownFor, dirty>>

\* the idle callback of refresh
Rebuild ==
    /\ pending
    /\ pending' = FALSE
    /\ \E list \in {Listing(history, text)} :
          Rebuilt(Clamped(list), list) \/ RebuildRaises(selected, Clamped(list), list)
    /\ UNCHANGED <<tableVars, settingVars, visible, text, typed, queued, dialog>>

\* a notification that finds the window open is forgotten
RefreshLater_Dropped ==
    /\ queued > 0
    /\ queued' = queued - 1
    /\ UNCHANGED <<tableVars, viewVars, settingVars, visible, text, typed, pending, dirty, dialog>>

\* the idle callback of _on_history_changed
RefreshLater ==
    /\ queued > 0
    /\ queued' = queued - 1
    /\ Refresh(FALSE)
    /\ UNCHANGED <<tableVars, viewVars, settingVars, visible, text, typed, dirty, dialog>>

--------------------------------------------------------------------------------
(* The window *)

\* present() without a refresh
Show_Unrefreshed ==
    /\ visible' = TRUE
    /\ UNCHANGED <<tableVars, viewVars, settingVars, text, typed, pending, queued, dirty, dialog>>

\* show_window, with _on_mapped when the window was hidden
Show ==
    /\ visible' = TRUE
    /\ Refresh(TRUE)
    /\ UNCHANGED <<tableVars, viewVars, settingVars, text, typed, queued, dirty, dialog>>

\* Escape, the close button, close-request, toggle, a focus loss
Hide ==
    /\ visible
    /\ visible' = FALSE
    /\ UNCHANGED <<tableVars, viewVars, settingVars, text, typed, pending, queued, dirty, dialog>>

\* the user can reach the window: the confirmation is modal
Usable == visible /\ ~dialog.open

\* the entry holds another text; GTK emits search-changed a little later
Type ==
    /\ Usable
    /\ text' \in Texts \ {text}
    /\ typed' = TRUE
    /\ UNCHANGED <<tableVars, viewVars, settingVars, visible, pending, queued, dirty, dialog>>

\* _on_search_changed: from the top, and at once
SearchChanged ==
    /\ typed
    /\ typed' = FALSE
    /\ \E list \in {Listing(history, text)} : Rebuilt(0, list) \/ RebuildRaises(0, 0, list)
    /\ UNCHANGED <<tableVars, settingVars, visible, text, pending, queued, dialog>>

\* Up, Down and Tab: _move_selection over the cards
Move ==
    /\ Usable
    /\ rows # <<>>
    /\ \E delta \in {-1, 1} :
          LET to == selected + delta
              last == Len(rows) - 1
          IN  selected' = IF to < 0 THEN 0 ELSE IF to > last THEN last ELSE to
    /\ highlight' = selected' + 1
    /\ UNCHANGED <<tableVars, settingVars, visible, text, typed, items, rows, shownFor, broken,
                   pending, queued, dirty, dialog>>

\* what Return, Ctrl+P and Delete act on
Selected == IF selected < Len(items) THEN {items[selected + 1]} ELSE {}

\* what the buttons of the cards act on
Carded == ToSet(rows)

\* Return, Ctrl+1 to Ctrl+9 or a click: paste_item hides the window and touches the row; a
\* file list whose row is gone is still announced
Activate ==
    /\ Usable
    /\ \E item \in ToSet(items) \cup Carded :
          \/ \E i \in At(history, item.id) :
                Write(<<history[i]>> \o Except(history, item.id))
          \/ /\ At(history, item.id) = {}
             /\ Write(history) \/ UNCHANGED <<history, queued, dirty>>
    /\ visible' = FALSE
    /\ UNCHANGED <<nextId, viewVars, settingVars, text, typed, pending, dialog>>

\* Ctrl+P or the pin button: the state in the table is flipped, not the one on the card
Pin ==
    /\ Usable
    /\ \E item \in Selected \cup Carded :
          \/ \E i \in At(history, item.id) :
                Write(<<[history[i] EXCEPT !.pinned = ~@]>> \o Except(history, item.id))
          \/ At(history, item.id) = {} /\ UNCHANGED <<history, queued, dirty>>
    /\ Refresh(TRUE)
    /\ UNCHANGED <<nextId, viewVars, settingVars, visible, text, typed, dialog>>

\* Delete or the trash button
Delete ==
    /\ Usable
    /\ \E item \in Selected \cup Carded :
          \/ At(history, item.id) # {} /\ Write(Except(history, item.id))
          \/ At(history, item.id) = {} /\ UNCHANGED <<history, queued, dirty>>
    /\ Refresh(TRUE)
    /\ UNCHANGED <<nextId, viewVars, settingVars, visible, text, typed, dialog>>

--------------------------------------------------------------------------------
(* Clearing *)

\* _on_clear_clicked: the sentence of the dialog goes by the window's settings
ClickClear ==
    /\ Usable
    /\ dialog' = [open |-> TRUE, keep |-> windowKeep]
    /\ UNCHANGED <<tableVars, viewVars, settingVars, visible, text, typed, pending, queued, dirty>>

\* store.clear() reads the setting again, in the store's object
Cleared == IF storeKeep THEN OnlyPinned(history) ELSE <<>>

Accept ==
    /\ dialog.open
    /\ dialog' = NoDialog
    /\ Write(Cleared)
    /\ Refresh(TRUE)
    /\ UNCHANGED <<nextId, viewVars, settingVars, visible, text, typed>>

\* cancelled, or the dialog could not be shown
Decline ==
    /\ dialog.open
    /\ dialog' = NoDialog
    /\ UNCHANGED <<tableVars, viewVars, settingVars, visible, text, typed, pending, queued, dirty>>

--------------------------------------------------------------------------------
(* Settings; every way ends in apply_config, which forces a refresh *)

\* the settings window changes the object; it cannot be reached while the dialog is open
SwitchKeep ==
    /\ ~dialog.open
    /\ windowKeep' = ~windowKeep
    /\ storeKeep' = IF shared THEN windowKeep' ELSE storeKeep
    /\ UNCHANGED shared

\* reload_config: a new object for everybody
ReloadConfig ==
    /\ windowKeep' \in BOOLEAN /\ storeKeep' = windowKeep' /\ shared' = TRUE

\* _on_reset: a new object for the application, with the default
ResetConfig ==
    /\ ~dialog.open
    /\ windowKeep' = TRUE /\ shared' = FALSE
    /\ UNCHANGED storeKeep

ApplyConfig ==
    /\ SwitchKeep \/ ReloadConfig \/ ResetConfig \/ UNCHANGED settingVars
    /\ Refresh(TRUE)
    /\ UNCHANGED <<tableVars, viewVars, visible, text, typed, queued, dirty, dialog>>

--------------------------------------------------------------------------------

MainLoop == Rebuild \/ RefreshLater \/ SearchChanged

User == Show \/ Hide \/ Type \/ Move \/ Activate \/ Pin \/ Delete \/ ClickClear \/ Accept \/ Decline

Next == MainLoop \/ User \/ Capture \/ ForeignClear \/ ApplyConfig

Spec == Init /\ [][Next]_vars

\* the main loop runs its idle callbacks and timers
FairSpec == Spec /\ WF_vars(Rebuild) /\ WF_vars(RefreshLater) /\ WF_vars(SearchChanged)

--------------------------------------------------------------------------------
(* Properties *)

TypeOK ==
    /\ history \in Seq(Items) /\ nextId \in Nat \ {0}
    /\ \A i, j \in DOMAIN history : history[i].id = history[j].id => i = j
    /\ \A i \in DOMAIN history : history[i].id < nextId
    /\ items \in Seq(Items) /\ rows \in Seq(Items)
    /\ selected \in 0..(IF items = <<>> THEN 0 ELSE Len(items) - 1)
    /\ highlight \in 0..Len(rows)
    /\ text \in Texts /\ shownFor \in Texts
    /\ queued \in 0..MaxQueued
    /\ visible \in BOOLEAN /\ typed \in BOOLEAN /\ pending \in BOOLEAN /\ dirty \in BOOLEAN
    /\ broken \in BOOLEAN /\ windowKeep \in BOOLEAN /\ storeKeep \in BOOLEAN /\ shared \in BOOLEAN
    /\ dialog \in [open : BOOLEAN, keep : BOOLEAN]

\* What the user sees is what the keys act on: the cards are the items of _items in the same
\* order (as many as were built), and the highlighted card is the one of _items[_selected] unless
\* the last rebuild raised.  Two lists that are made apart, one by ORDER BY and one by sections.
RowsAreItems ==
    /\ \A i \in DOMAIN rows : i \in DOMAIN items /\ rows[i] = items[i]
    /\ ~broken => Len(rows) = Len(items) /\ highlight = IF rows = <<>> THEN 0 ELSE selected + 1

\* No change is lost between coalesced rebuilds, ignored notifications and a hidden window: a
\* visible list that is behind this process's writes or behind the search text has something
\* in the main loop that will bring it up to date.
NoLostRefresh ==
    visible /\ (dirty \/ shownFor # text) /\ ~broken => pending \/ queued > 0 \/ typed

\* A visible list does not stay behind for good, unless a rebuild raises.
ListCatchesUp == []<>(~visible \/ broken \/ (~dirty /\ shownFor = text))

\* The dialog said that pinned items are kept, so they are there after it was accepted.
ClearKeepsPromise ==
    [][dialog.open /\ dialog.keep /\ ~dialog'.open =>
         ToSet(OnlyPinned(history)) \subseteq ToSet(history')]_vars

================================================================================
