---------------------------- MODULE ClipboardMonitor ---------------------------
(***************************************************************************)
(* monitor.py: ClipboardMonitor turns "changed" signals of the clipboard   *)
(* into captures, one short delay after the last signal of a burst, and    *)
(* ignores the writes the application makes itself.                        *)
(*                                                                         *)
(* The main thread runs one handler at a time; the user, other programs    *)
(* and the paste workers (threads of app.py) act between any two handlers. *)
(* The clipboard is external: it is modelled from how monitor.py and       *)
(* app.py use Gdk.Clipboard.  A write through GTK emits "changed" at once, *)
(* a copy by somebody else when its event is dispatched, a write by an     *)
(* external helper some time after the helper ran, once per side written.  *)
(***************************************************************************)
EXTENDS Integers, Sequences, FiniteSets

CONSTANTS
    Workers,      \* threads that may run at the same time
    Sides,        \* clipboard sides an external helper can write; 0: no helper
    MaxChanges,   \* bound: changes of the clipboard
    MaxWrites     \* bound: writes the application announces or attempts

VARIABLES
    phase,      \* the monitor is not attached yet, attached, or detached for good
    clip,       \* what the clipboard holds, as GTK sees it
    timer,      \* a read is scheduled (_timeout_id # 0)
    suppress,   \* changes still to be ignored (_suppress)
    live,       \* _suppress_until lies in the future
    token,      \* _token
    reads,      \* asynchronous reads that have not come back
    captured,   \* contents handed to the store, in order
    ignored,    \* contents dropped as "our own clipboard write"
    worker,     \* the paste workers, inside _ensure_clipboard_content
    notices,    \* changes made by the helper that GTK has not heard of
    writes      \* bound: writes so far

vars == <<phase, clip, timer, suppress, live, token, reads, captured, ignored,
          worker, notices, writes>>

MonitorAssumption ==
    /\ Sides \in Nat
    /\ MaxChanges \in Nat
    /\ MaxWrites \in Nat

ASSUME MonitorAssumption

\* plain: readable and accepted by the store.  marked: the source asked not to be
\* recorded, or the formats cannot be queried.  unfit: empty, unreadable, or refused.
Kinds == {"plain", "marked", "unfit"}

\* gen numbers the changes of the clipboard
Content == [gen : Nat, by : {"user", "own", "helper"}, kind : Kinds]

Read == [token : Nat, content : Content]

IdleWorker == [pc |-> "idle", loaded |-> 0]

Init ==
    /\ phase = "starting"
    /\ clip \in [gen : {0}, by : {"user"}, kind : Kinds]
    /\ timer = FALSE
    /\ suppress = 0
    /\ live = FALSE
    /\ token = 0
    /\ reads = {}
    /\ captured = <<>>
    /\ ignored = {}
    /\ worker = [w \in Workers |-> IdleWorker]
    /\ notices = 0
    /\ writes = 0

--------------------------------------------------------------------------------
(* The clipboard *)

\* a handler that leaves a pending read at the time it was scheduled for, and starts
\* no second one while an asynchronous read is on its way
Changed_WhileReading(by, kind) ==
    /\ clip.gen < MaxChanges
    /\ clip' = [gen |-> clip.gen + 1, by |-> by, kind |-> kind]
    /\ timer' = (timer \/ (phase = "on" /\ reads = {}))

\* the content changes and _on_changed schedules a read, in place of a pending one
Changed(by, kind) ==
    /\ clip.gen < MaxChanges
    /\ clip' = [gen |-> clip.gen + 1, by |-> by, kind |-> kind]
    /\ timer' = (timer \/ phase = "on")

\* somebody copies something (after detach nothing depends on it any more)
UserCopies(kind) ==
    /\ phase # "off"
    /\ Changed("user", kind)
    /\ UNCHANGED <<phase, suppress, live, token, reads, captured, ignored, worker,
                   notices, writes>>

\* GTK hears of a change the helper made
HelperNotice ==
    /\ notices > 0
    /\ notices' = notices - 1
    /\ Changed("helper", "plain")
    /\ UNCHANGED <<phase, suppress, live, token, reads, captured, ignored, worker,
                   writes>>

--------------------------------------------------------------------------------
(* Lifecycle *)

\* attach, once, from do_startup: what is already on the clipboard will be read
Attach ==
    /\ phase = "starting"
    /\ phase' = "on"
    /\ timer' = TRUE
    /\ UNCHANGED <<clip, suppress, live, token, reads, captured, ignored, worker,
                   notices, writes>>

\* detach, from do_shutdown; reads under way are not cancelled
Detach ==
    /\ phase = "on"
    /\ phase' = "off"
    /\ timer' = FALSE
    /\ UNCHANGED <<clip, suppress, live, token, reads, captured, ignored, worker,
                   notices, writes>>

--------------------------------------------------------------------------------
(* The application's own writes *)

Suppress == suppress' = suppress + 1 /\ live' = TRUE

MayWrite == phase = "on" /\ writes < MaxWrites /\ writes' = writes + 1

\* set_clipboard without the announcement
OwnWrite_Unannounced ==
    /\ MayWrite
    /\ Changed("own", "plain")
    /\ UNCHANGED <<phase, suppress, live, token, reads, captured, ignored, worker, notices>>

\* set_clipboard: suppress(), then set_content, which emits "changed"
OwnWrite ==
    /\ MayWrite
    /\ Suppress
    /\ Changed("own", "plain")
    /\ UNCHANGED <<phase, token, reads, captured, ignored, worker, notices>>

\* set_clipboard that returns False after suppress(): the item is gone, or GTK raised
OwnWriteFails ==
    /\ MayWrite
    /\ Suppress
    /\ UNCHANGED <<phase, clip, timer, token, reads, captured, ignored, worker, notices>>

\* a worker writes every side with an external helper (ensure_clipboard_text)
HelperWrites(w) ==
    /\ worker[w].pc = "idle"
    /\ Sides > 0
    /\ MayWrite
    /\ notices' = notices + Sides
    /\ worker' = [worker EXCEPT ![w].pc = "verify"]
    /\ UNCHANGED <<phase, clip, timer, suppress, live, token, reads, captured, ignored>>

\* not verified after the last attempt: no suppress()
HelperUnverified(w) ==
    /\ worker[w].pc = "verify"
    /\ worker' = [worker EXCEPT ![w] = IdleWorker]
    /\ UNCHANGED <<phase, clip, timer, suppress, live, token, reads, captured, ignored,
                   notices, writes>>

\* verified: suppress() on the worker's thread, next to the main thread's handlers.
\* "_suppress += max(0, count)" loads the counter before the call and stores it after.
SuppressLoad(w) ==
    /\ worker[w].pc = "verify"
    /\ worker' = [worker EXCEPT ![w] = [pc |-> "store", loaded |-> suppress]]
    /\ UNCHANGED <<phase, clip, timer, suppress, live, token, reads, captured, ignored,
                   notices, writes>>

SuppressStore(w) ==
    /\ worker[w].pc = "store"
    /\ suppress' = worker[w].loaded + 1
    /\ worker' = [worker EXCEPT ![w] = [pc |-> "stamp", loaded |-> 0]]
    /\ UNCHANGED <<phase, clip, timer, live, token, reads, captured, ignored, notices,
                   writes>>

SuppressStamp(w) ==
    /\ worker[w].pc = "stamp"
    /\ live' = TRUE
    /\ worker' = [worker EXCEPT ![w] = IdleWorker]
    /\ UNCHANGED <<phase, clip, timer, suppress, token, reads, captured, ignored,
                   notices, writes>>

\* two seconds have passed since the last suppress()
Lapse ==
    /\ live
    /\ live' = FALSE
    /\ UNCHANGED <<phase, clip, timer, suppress, token, reads, captured, ignored,
                   worker, notices, writes>>

--------------------------------------------------------------------------------
(* Reading *)

\* a counter nobody resets
Unexpired_Forever == suppress
\* changes still to be ignored, once an expired suppression has been dropped
Unexpired == IF live THEN suppress ELSE 0

\* what the read leaves of them
AfterRead == IF Unexpired > 0 THEN Unexpired - 1 ELSE 0

\* the delay is over
ReadNow ==
    /\ timer
    /\ timer' = FALSE
    /\ suppress' = AfterRead
    /\ \/ /\ Unexpired > 0
          /\ ignored' = ignored \cup {clip}
          /\ UNCHANGED <<token, reads>>
       \/ /\ Unexpired = 0
          /\ clip.kind = "marked"
          /\ UNCHANGED <<token, reads, ignored>>
       \/ /\ Unexpired = 0
          /\ clip.kind # "marked"
          /\ token' = token + 1
          /\ reads' = reads \cup {[token |-> token + 1, content |-> clip]}
          /\ UNCHANGED ignored
    /\ UNCHANGED <<phase, clip, live, captured, worker, notices, writes>>

\* a callback that takes every answer for the latest
Finish_AnyToken(r) ==
    /\ r \in reads
    /\ reads' = reads \ {r}
    /\ captured' = IF r.content.kind = "plain" THEN Append(captured, r.content)
                                               ELSE captured
    /\ UNCHANGED <<phase, clip, timer, suppress, live, token, ignored, worker, notices,
                   writes>>

\* _finish_text, _finish_texture, _finish_files: an answer that is not the latest, or
\* that failed, or that the store refuses, is dropped
Finish(r) ==
    /\ r \in reads
    /\ reads' = reads \ {r}
    /\ captured' = IF r.token = token /\ r.content.kind = "plain"
                   THEN Append(captured, r.content)
                   ELSE captured
    /\ UNCHANGED <<phase, clip, timer, suppress, live, token, ignored, worker, notices,
                   writes>>

Environment == \E kind \in Kinds : UserCopies(kind)

App == OwnWrite \/ OwnWriteFails \/ Attach \/ Detach

Worker(w) ==
    HelperWrites(w) \/ HelperUnverified(w) \/ SuppressLoad(w) \/ SuppressStore(w) \/ SuppressStamp(w)

\* what ends by itself: a time that passes, a read that answers
Progress == ReadNow \/ Lapse \/ HelperNotice \/ \E r \in reads : Finish(r)

Next == Environment \/ App \/ (\E w \in Workers : Worker(w)) \/ Progress

Spec == Init /\ [][Next]_vars

\* The main loop dispatches a timeout that is due, and GTK answers every read.
FairSpec ==
    /\ Spec
    /\ WF_vars(ReadNow)
    /\ WF_vars(\E r \in reads : Finish(r))

--------------------------------------------------------------------------------
TypeOK ==
    /\ phase \in {"starting", "on", "off"}
    /\ clip \in Content
    /\ timer \in BOOLEAN
    /\ suppress \in Nat
    /\ live \in BOOLEAN
    /\ token \in Nat
    /\ reads \subseteq Read
    /\ captured \in Seq(Content)
    /\ ignored \subseteq Content
    /\ worker \in [Workers -> [pc : {"idle", "verify", "store", "stamp"}, loaded : Nat]]
    /\ notices \in Nat
    /\ writes \in 0..MaxWrites

Recorded(c) == \E i \in 1..Len(captured) : captured[i] = c

\* The store receives what was copied in the order it was copied, each change at most
\* once, although reads answer in any order (_stale).
CapturedInOrder ==
    \A i, j \in 1..Len(captured) : i < j => captured[i].gen < captured[j].gen

\* Once the monitor is at rest, what the clipboard holds has been recorded, whatever
\* burst of changes went before: the delay and the token drop only what was replaced.
\* The one exception is what it took for a write of the application.
QuietMeansRecorded ==
    phase = "on" /\ ~timer /\ reads = {} /\ clip.kind = "plain" =>
        Recorded(clip) \/ clip \in ignored

\* A pasted item does not come back as a new copy: what the application put on the
\* clipboard through GTK is read only if the main loop was held up for two seconds.
OwnWritesUnrecorded ==
    [][\A r \in reads' \ reads : r.content.by = "own" => ~live]_vars

\* A suppression that no change used up (a failed write, two writes in one burst, a lost
\* update between the two threads) does not make the monitor deaf: what the user copies
\* after two seconds without writes is recorded unless it is replaced.
HearsAgain ==
    \A g \in 1..MaxChanges :
        (/\ phase = "on" /\ timer /\ ~live /\ \A w \in Workers : worker[w].pc = "idle"
         /\ clip.gen = g /\ clip.by = "user" /\ clip.kind = "plain")
        ~> (clip.gen # g \/ live \/ phase = "off" \/ Recorded(clip))
================================================================================
