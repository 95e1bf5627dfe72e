-------------------------------- MODULE PasteFlow ------------------------------
(***************************************************************************)
(* app.py: from choosing an item in the popup to Ctrl+V in the window the  *)
(* user came from.  The main thread puts the item on the clipboard and     *)
(* starts a timer; when it fires, a worker thread gives focus back, makes  *)
(* sure every side of the clipboard holds the text, and sends Ctrl+V.  A   *)
(* paste carries a token, and opening the window or choosing again makes   *)
(* it stale.  Main thread, workers, clipboard and user interleave between  *)
(* any two reads or writes of _paste_token, _expected_text and             *)
(* _previous_window, which the threads share without a lock.               *)
(*                                                                         *)
(* The clipboard has sides (Wayland, X11) that may disagree, and every     *)
(* write is published later.  What the handlers do to the monitor          *)
(* (suppress) and to the store (touch) is ClipboardMonitor's OwnWrite and  *)
(* HistoryStore's touch; here touch only succeeds or raises.               *)
(***************************************************************************)
EXTENDS Integers, FiniteSets

CONSTANTS
    TextItems,   \* items whose text can be compared
    OtherItems,  \* images and file lists
    Windows,     \* windows of other applications
    Popup,       \* the clipboard window
    None,        \* Python's None
    Sides,       \* sides of the clipboard
    Readable,    \* sides for which a reader is installed
    Writable,    \* sides for which a writer is installed
    Attempts,    \* VERIFY_ATTEMPTS (10 in the code)
    MaxToken     \* bound: openings and choices together

Items == TextItems \cup OtherItems

PasteAssumption ==
    /\ TextItems \cap OtherItems = {} /\ Items \cap {"before", "foreign"} = {}
    /\ Popup \notin Windows /\ None \notin Windows \cup Items
    /\ Readable \subseteq Sides /\ Writable \subseteq Sides
    /\ Attempts \in Nat \ {0}
    /\ MaxToken \in Nat

ASSUME PasteAssumption

VARIABLES
    visible,    \* the popup is on screen
    focus,      \* the window that would receive a key press
    previous,   \* _previous_window
    token,      \* _paste_token
    expected,   \* _expected_text
    main,       \* the handler the main thread is in
    chosen,     \* the item of each choice, by its token
    fate,       \* what became of each choice
    timers,     \* tokens waiting for PASTE_DELAY_MS
    worker,     \* the thread of each choice
    clip,       \* what each side of the clipboard holds, and who put it there
    inFlight    \* writes that are not published yet

vars == <<visible, focus, previous, token, expected, main, chosen, fate, timers,
          worker, clip, inFlight>>

windowVars == <<visible, focus>>
clipVars == <<clip, inFlight>>

Tokens == 1..MaxToken

\* before: on the clipboard from the start; foreign: copied elsewhere meanwhile
Contents == Items \cup {"before", "foreign"}

\* "gtk" and "helper" write for the choice with token of; "other" is somebody else
Copy(item, by, of) == [item |-> item, by |-> by, of |-> of]

NoAnswers == [s \in {} |-> None]

\* a worker that has not run; seen is the answer of each side read so far
NoWorker == [pc |-> "none", text |-> None, seen |-> NoAnswers, left |-> {}, tries |-> 0,
             verified |-> FALSE]

AtRest == [pc |-> "idle", item |-> None]

Init ==
    /\ visible = FALSE
    /\ focus \in Windows
    /\ previous = None
    /\ token = 0
    /\ expected = None
    /\ main = AtRest
    /\ chosen = [t \in Tokens |-> None]
    /\ fate = [t \in Tokens |-> "open"]
    /\ timers = {}
    /\ worker = [t \in Tokens |-> NoWorker]
    /\ clip = [s \in Sides |-> Copy("before", "other", 0)]
    /\ inFlight = {}

--------------------------------------------------------------------------------
(* The window *)

\* opening the window does not touch the paste that waits
Open_NoCancel ==
    /\ main = AtRest
    /\ token < MaxToken
    /\ ~visible
    /\ main' = [AtRest EXCEPT !.pc = "show"]
    /\ UNCHANGED <<windowVars, previous, token, expected, chosen, fate, timers, worker,
                   clipVars>>

\* show_window, up to the call of active_window; a visible window is only presented
Open ==
    /\ main = AtRest
    /\ token < MaxToken
    /\ token' = token + 1
    /\ IF visible THEN UNCHANGED main ELSE main' = [AtRest EXCEPT !.pc = "show"]
    /\ UNCHANGED <<windowVars, previous, expected, chosen, fate, timers, worker, clipVars>>

\* the rest of show_window; active_window answers only in an X11 session with xdotool
Present ==
    /\ main.pc = "show"
    /\ previous' \in {focus, None}
    /\ visible' = TRUE
    /\ focus' = Popup
    /\ main' = AtRest
    /\ UNCHANGED <<token, expected, chosen, fate, timers, worker, clipVars>>

\* toggle_window, Escape, close: the window manager gives focus to some other window
Hide ==
    /\ main = AtRest
    /\ visible
    /\ visible' = FALSE
    /\ focus' \in Windows
    /\ UNCHANGED <<previous, token, expected, main, chosen, fate, timers, worker, clipVars>>

\* focus goes to window w; a popup that loses it hides itself, outside the grace period
\* and unless close_on_focus_loss is off
FocusGoesTo(w) ==
    /\ focus' = w
    /\ visible' \in IF focus = Popup THEN {visible, FALSE} ELSE {visible}

UserFocuses(w) ==
    /\ main = AtRest
    /\ FocusGoesTo(w)
    /\ UNCHANGED <<previous, token, expected, main, chosen, fate, timers, worker, clipVars>>

--------------------------------------------------------------------------------
(* paste_item, on the main thread *)

End(t, f) == fate' = [fate EXCEPT ![t] = f]

\* a new token, and the window hides
Choose(item) ==
    /\ main = AtRest
    /\ visible
    /\ token < MaxToken
    /\ token' = token + 1
    /\ chosen' = [chosen EXCEPT ![token + 1] = item]
    /\ visible' = FALSE
    /\ focus' \in Windows
    /\ main' = [pc |-> "clear", item |-> item]
    /\ UNCHANGED <<previous, expected, fate, timers, worker, clipVars>>

\* the previous text stays announced until the new one is known
ClearExpected_Skipped ==
    /\ main.pc = "clear"
    /\ main' = [main EXCEPT !.pc = "load"]
    /\ UNCHANGED <<windowVars, previous, token, expected, chosen, fate, timers, worker,
                   clipVars>>

\* set_clipboard: suppress(), then _expected_text = None
ClearExpected ==
    /\ main.pc = "clear"
    /\ expected' = None
    /\ main' = [main EXCEPT !.pc = "load"]
    /\ UNCHANGED <<windowVars, previous, token, chosen, fate, timers, worker, clipVars>>

\* what _expected_text becomes: only a text is announced
Announced(item) == IF item \in TextItems THEN item ELSE expected

\* the payload is read from the store; a deleted item ends with a notification
LoadItem ==
    /\ main.pc = "load"
    /\ \/ /\ expected' = Announced(main.item)
          /\ main' = [main EXCEPT !.pc = "claim"]
          /\ UNCHANGED fate
       \/ /\ End(token, "notified")
          /\ main' = AtRest
          /\ UNCHANGED expected
    /\ UNCHANGED <<windowVars, previous, token, chosen, timers, worker, clipVars>>

Write(side, copy) == [side |-> side, copy |-> copy]

\* what GTK has not published yet is lost with the clipboard, to a new content or to
\* somebody else
WithoutGtk == {x \in inFlight : x.copy.by # "gtk"}

\* set_content, then touch and the timer; GTK may refuse, and touch may raise when the
\* database is busy
Claim ==
    /\ main.pc = "claim"
    /\ main' = AtRest
    /\ \/ /\ End(token, "notified")
          /\ UNCHANGED <<timers, inFlight>>
       \/ /\ inFlight' = WithoutGtk \cup {Write(s, Copy(main.item, "gtk", token)) : s \in Sides}
          /\ \/ timers' = timers \cup {token} /\ UNCHANGED fate
             \/ End(token, "raised") /\ UNCHANGED timers
    /\ UNCHANGED <<windowVars, previous, token, expected, chosen, worker, clip>>

--------------------------------------------------------------------------------
(* The timer and the worker of choice t *)

Becomes(t, w) == worker' = [worker EXCEPT ![t] = w]
Goto(t, pc) == Becomes(t, [worker[t] EXCEPT !.pc = pc])
Leave(t) == Becomes(t, [NoWorker EXCEPT !.pc = "done"])

\* a callback that returns True is called again
Deliver_Again(t) ==
    /\ t \in timers
    /\ main = AtRest
    /\ IF t = token
       THEN Goto(t, "start") /\ UNCHANGED <<fate, timers>>
       ELSE End(t, "cancelled") /\ timers' = timers \ {t} /\ UNCHANGED worker
    /\ UNCHANGED <<windowVars, previous, token, expected, main, chosen, clipVars>>

\* _deliver_paste
Deliver(t) ==
    /\ t \in timers
    /\ main = AtRest
    /\ timers' = timers \ {t}
    /\ IF t = token
       THEN Goto(t, "start") /\ UNCHANGED fate
       ELSE End(t, "cancelled") /\ UNCHANGED worker
    /\ UNCHANGED <<windowVars, previous, token, expected, main, chosen, clipVars>>

\* _paste_worker, up to the test of _previous_window
Start(t) ==
    /\ worker[t].pc = "start"
    /\ IF t # token
       THEN End(t, "cancelled") /\ Leave(t)
       ELSE UNCHANGED fate /\ Goto(t, IF previous # None THEN "activate" ELSE "expect")
    /\ UNCHANGED <<windowVars, previous, token, expected, main, chosen, timers, clipVars>>

\* activate_window(_previous_window), which another worker may have cleared; best effort
Activate(t) ==
    /\ worker[t].pc = "activate"
    /\ \/ previous # None /\ FocusGoesTo(previous)
       \/ UNCHANGED windowVars
    /\ Goto(t, "forget")
    /\ UNCHANGED <<previous, token, expected, main, chosen, fate, timers, clipVars>>

Forget(t) ==
    /\ worker[t].pc = "forget"
    /\ previous' = None
    /\ Goto(t, "expect")
    /\ UNCHANGED <<windowVars, token, expected, main, chosen, fate, timers, clipVars>>

\* _ensure_clipboard_content: only a text is compared
Expect(t) ==
    /\ worker[t].pc = "expect"
    /\ Becomes(t, [worker[t] EXCEPT !.text = expected,
                                    !.left = Readable,
                                    !.pc = IF expected = None THEN "check" ELSE "read"])
    /\ UNCHANGED <<windowVars, previous, token, expected, main, chosen, fate, timers,
                   clipVars>>

\* read_clipboard_text_all: one side after the other, and a side may not answer
ReadSide(t) ==
    /\ worker[t].pc = "read"
    /\ \E s \in worker[t].left :
        \/ Becomes(t, [worker[t] EXCEPT !.left = @ \ {s},
                                       !.seen = [x \in DOMAIN @ \cup {s} |->
                                                   IF x = s THEN clip[s].item ELSE @[x]]])
        \/ Becomes(t, [worker[t] EXCEPT !.left = @ \ {s}])
    /\ UNCHANGED <<windowVars, previous, token, expected, main, chosen, fate, timers,
                   clipVars>>

\* one side that agrees is enough
Agrees_AnySide(w) == \E s \in DOMAIN w.seen : w.seen[s] = w.text
\* selection_agrees: some side answered, and every side that did shows the text
Agrees(w) == DOMAIN w.seen # {} /\ \A s \in DOMAIN w.seen : w.seen[s] = w.text

\* ensure_clipboard_text waits until the text is there
TriesLeft_Always(w) == TRUE
TriesLeft(w) == w.tries < Attempts

\* every round starts by forgetting the answers of the one before.  tries counts the
\* helper's write and the reads after it: the first read comes before it.  On return only
\* the verdict is kept, and the answers it rests on.
Judge(t) ==
    LET w == worker[t] IN
    /\ w.pc = "read" /\ w.left = {}
    /\ \/ /\ Agrees(w)
          /\ Becomes(t, [w EXCEPT !.pc = "check", !.tries = 0, !.verified = TRUE])
       \/ ~Agrees(w) /\ w.tries = 0 /\ Goto(t, "write")
       \/ /\ ~Agrees(w) /\ w.tries > 0 /\ TriesLeft(w)
          /\ Becomes(t, [w EXCEPT !.tries = IF @ < Attempts THEN @ + 1 ELSE @,
                                  !.seen = NoAnswers, !.left = Readable])
       \/ /\ ~Agrees(w) /\ w.tries > 0 /\ ~TriesLeft(w)
          /\ Becomes(t, [w EXCEPT !.pc = "check", !.tries = 0, !.seen = NoAnswers])
    /\ UNCHANGED <<windowVars, previous, token, expected, main, chosen, fate, timers,
                   clipVars>>

\* write_clipboard_text: every side some helper can take; none: not verified.  The text
\* goes down a pipe without a timeout.
HelperWrite(t) ==
    /\ worker[t].pc = "write"
    /\ \E taken \in SUBSET Writable :
        /\ inFlight' = inFlight \cup
              {Write(s, Copy(worker[t].text, "helper", t)) : s \in taken}
        /\ IF taken = {} THEN Goto(t, "check")
           ELSE Becomes(t, [worker[t] EXCEPT !.pc = "read", !.tries = 1,
                                             !.seen = NoAnswers, !.left = Readable])
    /\ UNCHANGED <<windowVars, previous, token, expected, main, chosen, fate, timers, clip>>

\* the last look at the token
Check(t) ==
    /\ worker[t].pc = "check"
    /\ IF t # token
       THEN End(t, "cancelled") /\ Leave(t)
       ELSE UNCHANGED fate /\ Goto(t, "send")
    /\ UNCHANGED <<windowVars, previous, token, expected, main, chosen, timers, clipVars>>

\* send_paste: Ctrl+V, or a notification when no tool can send it
Send(t) ==
    /\ worker[t].pc = "send"
    /\ \/ End(t, "pasted")
       \/ End(t, "notified")
    /\ Leave(t)
    /\ UNCHANGED <<windowVars, previous, token, expected, main, chosen, timers, clipVars>>

--------------------------------------------------------------------------------
(* The clipboard *)

\* a write reaches its side
Publish(x) ==
    /\ x \in inFlight
    /\ clip' = [clip EXCEPT ![x.side] = x.copy]
    /\ inFlight' = inFlight \ {x}
    /\ UNCHANGED <<windowVars, previous, token, expected, main, chosen, fate, timers, worker>>

\* somebody else copies: GTK loses the clipboard, and nothing it wrote follows
ForeignCopy(s) ==
    /\ clip' = [clip EXCEPT ![s] = Copy("foreign", "other", 0)]
    /\ inFlight' = WithoutGtk
    /\ UNCHANGED <<windowVars, previous, token, expected, main, chosen, fate, timers, worker>>

User ==
    \/ Open \/ Hide
    \/ \E w \in Windows : UserFocuses(w)
    \/ \E item \in Items : Choose(item)
    \/ \E s \in Sides : ForeignCopy(s)

Handler == Present \/ ClearExpected \/ LoadItem \/ Claim \/ \E t \in timers : Deliver(t)

\* steps that take a bounded time: what they call has a timeout
Runs(t) ==
    \/ Start(t) \/ Activate(t) \/ Forget(t)
    \/ Expect(t) \/ ReadSide(t) \/ Judge(t)
    \/ Check(t) \/ Send(t)

Thread(t) == Runs(t) \/ HelperWrite(t)

Next ==
    \/ User
    \/ Handler
    \/ \E t \in Tokens : Thread(t)
    \/ \E x \in inFlight : Publish(x)

Spec == Init /\ [][Next]_vars

\* The main loop finishes its handler and dispatches the timers that are due; a thread
\* runs, for what it waits for has a timeout.  Only HelperWrite has none: a helper that
\* does not empty its pipe holds the thread for as long as it likes.
FairSpec ==
    /\ Spec
    /\ WF_vars(Handler)
    /\ \A t \in Tokens : WF_vars(Runs(t))

--------------------------------------------------------------------------------
Fates == {"open", "pasted", "notified", "cancelled", "raised"}

Steps == {"start", "activate", "forget", "expect", "read", "write", "check", "send"}

\* answers of some of the sides
Answers == UNION {[S -> Contents] : S \in SUBSET Readable}

Worker == [pc : Steps \cup {"none", "done"}, text : TextItems \cup {None},
           seen : Answers, left : SUBSET Readable, tries : 0..Attempts,
           verified : BOOLEAN]

TypeOK ==
    /\ visible \in BOOLEAN
    /\ focus \in Windows \cup (IF visible THEN {Popup} ELSE {})
    /\ previous \in Windows \cup {None}
    /\ token \in 0..MaxToken
    /\ expected \in TextItems \cup {None}
    /\ main \in [pc : {"idle", "show"}, item : {None}]
               \cup [pc : {"clear", "load", "claim"}, item : Items]
    /\ main.pc = "show" => ~visible
    /\ chosen \in [Tokens -> Items \cup {None}]
    /\ fate \in [Tokens -> Fates]
    /\ timers \subseteq Tokens
    /\ worker \in [Tokens -> Worker]
    /\ clip \in [Sides -> [item : Contents, by : {"gtk", "helper", "other"}, of : 0..MaxToken]]
    /\ inFlight \subseteq
          [side : Sides, copy : [item : Items, by : {"gtk", "helper"}, of : Tokens]]

\* One choice is answered once: no Ctrl+V follows another Ctrl+V, a notification or a
\* cancellation of the same choice.
AnsweredOnce ==
    [][\A t \in Tokens : Send(t) => fate[t] = "open"]_vars

\* While the window is open, whatever still waits for its timer or is on its way to the
\* last look at the token has lost the token, and so is never sent ("they clearly want
\* the window back, not a stray paste", _cancel_pending_paste).
OpenWindowHoldsPastes ==
    visible =>
        \A t \in Tokens :
            t \in timers \/ worker[t].pc \in Steps \ {"send"} => t # token

\* A worker that gets as far as Ctrl+V compared the text of its own choice, although
\* _expected_text is shared: whoever replaces the text has bumped the token before.  And
\* what a helper writes for a worker is the text of its choice or of a later one, never
\* of an earlier one, also when the token was lost on the way.
ComparedOwnText ==
    /\ \A t \in Tokens :
          worker[t].pc = "send" =>
              worker[t].text = IF chosen[t] \in TextItems THEN chosen[t] ELSE None
    /\ \A x \in inFlight :
          x.copy.by = "helper" => \E k \in x.copy.of..token : chosen[k] = x.copy.item

\* something that came after choice t, or from a helper: the worker of an earlier choice
\* does not look at the token between its last reading and its helper's write
Overtakes(c, t) == c.item = "foreign" \/ c.of >= t \/ c.by = "helper"

\* "It pastes the last item instead of the one I chose": once the text was read back, a
\* side that answered holds it, or what was copied or chosen since, or a helper's write.
\* It holds neither what was there at the start nor what GTK wrote for an earlier choice.
OldSelectionGone ==
    \A t \in Tokens :
        worker[t].pc = "send" /\ worker[t].verified =>
            \A s \in DOMAIN worker[t].seen :
                clip[s].item = chosen[t] \/ Overtakes(clip[s], t)

\* Every choice comes to an end the user can see, or was given up for a newer wish: there
\* is always again a moment at which no choice is open, but for one whose worker waits for
\* a helper to take the text.
EveryChoiceEnds ==
    []<>(\A t \in Tokens :
            chosen[t] # None => fate[t] # "open" \/ worker[t].pc = "write")
================================================================================
