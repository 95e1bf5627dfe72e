----------------------------- MODULE PasteFlowProofs ---------------------------
(***************************************************************************)
(* Proofs about PasteFlow, for any items, windows, sides and number of     *)
(* attempts.  The shared _expected_text is safe because of an order: the   *)
(* token is bumped before the text is replaced, and a worker that comes to *)
(* send Ctrl+V has seen its own token after it read the text.              *)
(***************************************************************************)
EXTENDS PasteFlow, TLAPS

Own(item) == IF item \in TextItems THEN item ELSE None

Running(t) == worker[t].pc \in Steps

InHandler == main.pc \in {"clear", "load", "claim"}

\* a choice is in one place: before its timer, waiting, or with its worker
OnePlace ==
    \A t \in Tokens :
        /\ t \in timers => worker[t].pc = "none"
        /\ t \in timers \/ Running(t) => fate[t] = "open"

\* tokens not handed out
Fresh ==
    \A t \in Tokens :
        t > token => t \notin timers /\ worker[t].pc = "none" /\ fate[t] = "open"

\* the handler of the main thread works for the choice with the present token
Handling ==
    InHandler => /\ token \in Tokens
                 /\ token \notin timers /\ worker[token].pc = "none"
                 /\ fate[token] = "open"
                 /\ main.item \in Items /\ chosen[token] = main.item
                 /\ main.pc = "load" => expected = None
                 /\ main.pc = "claim" => expected = Own(main.item)

\* while the present token is that of a waiting or running choice, the announced text is
\* the text of that choice
AnnouncedOwn ==
    \A t \in Tokens :
        t = token /\ (t \in timers \/ Running(t)) => expected = Own(chosen[t])

\* a worker has compared the text of its choice, or its token is stale
Compared ==
    \A t \in Tokens :
        \/ worker[t].pc \in {"read", "write", "check"} /\ t = token
        \/ worker[t].pc = "send"
        => worker[t].text = Own(chosen[t])

\* only a text is read back and written again
HasText == \A t \in Tokens : worker[t].pc \in {"read", "write"} => worker[t].text # None

IInv ==
    /\ TypeOK
    /\ OnePlace /\ Fresh /\ Handling
    /\ AnnouncedOwn /\ Compared /\ HasText

--------------------------------------------------------------------------------
(* The variables keep their types *)

MainState ==
    [pc : {"idle", "show"}, item : {None}] \cup [pc : {"clear", "load", "claim"}, item : Items]

\* A step of one worker keeps the table of workers typed.
LEMMA WorkerStepType ==
    ASSUME TypeOK, NEW t \in Tokens, NEW w \in Worker, Becomes(t, w)
    PROVE  worker' \in [Tokens -> Worker]
  BY DEF TypeOK, Becomes

\* Moving a worker to its next step keeps its record typed, and its text.
LEMMA GotoType ==
    ASSUME TypeOK, NEW t \in Tokens, NEW pc \in Steps \cup {"none", "done"}
    PROVE  /\ [worker[t] EXCEPT !.pc = pc] \in Worker
           /\ [worker[t] EXCEPT !.pc = pc].pc = pc
           /\ [worker[t] EXCEPT !.pc = pc].text = worker[t].text
  BY DEF TypeOK, Worker

\* the values of clip, and the members of inFlight
Copies == [item : Contents, by : {"gtk", "helper", "other"}, of : 0..MaxToken]
Writes == [side : Sides, copy : [item : Items, by : {"gtk", "helper"}, of : Tokens]]

\* A write of an item for a choice is typed.
LEMMA WriteType ==
    ASSUME NEW s \in Sides, NEW item \in Items, NEW by \in {"gtk", "helper"}, NEW t \in Tokens
    PROVE  Write(s, Copy(item, by, t)) \in Writes
  BY DEF Writes, Write, Copy

\* What is published is a typed content of its side.
LEMMA CopyType ==
    ASSUME PasteAssumption, NEW x \in Writes
    PROVE  /\ x.side \in Sides /\ x.copy \in Copies
           /\ x.copy.item \in Items /\ x.copy.by \in {"gtk", "helper"} /\ x.copy.of \in Tokens
<1>1. Tokens \subseteq 0..MaxToken
  BY DEF PasteAssumption, Tokens
<1> QED
  BY <1>1 DEF Writes, Copies, Contents

\* Nothing has been copied yet, or by somebody else.
LEMMA OtherType ==
    ASSUME PasteAssumption, NEW item \in Contents
    PROVE  Copy(item, "other", 0) \in Copies
  BY DEF Copies, Copy, PasteAssumption

\* No read is under way.
LEMMA NoAnswersType == NoAnswers \in Answers
<1>1. NoAnswers \in [{} -> Contents] /\ {} \in SUBSET Readable
  BY DEF NoAnswers
<1> QED
  BY <1>1 DEF Answers

\* A worker that has left is typed.
LEMMA LeaveType ==
    /\ [NoWorker EXCEPT !.pc = "done"] \in Worker
    /\ [NoWorker EXCEPT !.pc = "done"].pc = "done"
<1>1. NoWorker \in Worker
  BY NoAnswersType, PasteAssumption DEF NoWorker, Worker, PasteAssumption
<1> QED
  BY <1>1 DEF Worker

\* The answers with one more side.
LEMMA AnswerType ==
    ASSUME NEW seen \in Answers, NEW s \in Readable, NEW c \in Contents
    PROVE  [x \in DOMAIN seen \cup {s} |-> IF x = s THEN c ELSE seen[x]] \in Answers
<1>1. PICK S \in SUBSET Readable : seen \in [S -> Contents]
  BY DEF Answers
<1>2. DOMAIN seen \cup {s} \in SUBSET Readable
  BY <1>1
<1>3. [x \in DOMAIN seen \cup {s} |-> IF x = s THEN c ELSE seen[x]]
        \in [DOMAIN seen \cup {s} -> Contents]
  BY <1>1
<1> QED
  BY <1>2, <1>3 DEF Answers

\* What the user does keeps the types.
LEMMA UserType ==
    ASSUME TypeOK, User
    PROVE  TypeOK'
<1> USE PasteAssumption DEF TypeOK, PasteAssumption, clipVars, windowVars, MainState
<1>1. CASE Open
  BY <1>1 DEF Open, AtRest
<1>2. CASE Hide
  BY <1>2 DEF Hide
<1>3. ASSUME NEW w \in Windows, UserFocuses(w) PROVE TypeOK'
  BY <1>3 DEF UserFocuses, FocusGoesTo
<1>4. ASSUME NEW item \in Items, Choose(item) PROVE TypeOK'
  <2>1. token + 1 \in Tokens /\ token' = token + 1 /\ token' \in 0..MaxToken
    BY <1>4 DEF Choose, Tokens
  <2>2. chosen' \in [Tokens -> Items \cup {None}]
    BY <1>4, <2>1 DEF Choose
  <2>3. main' \in MainState
    BY <1>4 DEF Choose
  <2> QED
    BY <1>4, <2>1, <2>2, <2>3 DEF Choose
<1>5. ASSUME NEW s \in Sides, ForeignCopy(s) PROVE TypeOK'
  <2>1. Copy("foreign", "other", 0) \in Copies
    BY OtherType DEF Contents
  <2>2. clip' \in [Sides -> Copies] /\ inFlight' \subseteq Writes
    BY <1>5, <2>1 DEF ForeignCopy, WithoutGtk, Copies, Writes
  <2> QED
    BY <1>5, <2>2 DEF ForeignCopy, Copies, Writes
<1> QED
  BY <1>1, <1>2, <1>3, <1>4, <1>5 DEF User
\* Every handler of the main loop keeps the types.
LEMMA HandlerType ==
    ASSUME TypeOK, Handling, Handler
    PROVE  TypeOK'
<1> USE PasteAssumption DEF TypeOK, PasteAssumption, clipVars, windowVars, MainState
<1>1. CASE Present
  <2>1. previous' \in Windows \cup {None}
    BY <1>1 DEF Present
  <2> QED
    BY <1>1, <2>1 DEF Present, AtRest
<1>2. CASE ClearExpected
  BY <1>2 DEF ClearExpected
<1>3. CASE LoadItem
  <2>1. expected' \in TextItems \cup {None} /\ fate' \in [Tokens -> Fates]
    BY <1>3 DEF LoadItem, Announced, End, Fates
  <2>2. main' \in MainState /\ main'.pc # "show"
    BY <1>3 DEF LoadItem, AtRest
  <2> QED
    BY <1>3, <2>1, <2>2 DEF LoadItem
<1>4. CASE Claim
  <2>1. main.item \in Items /\ fate' \in [Tokens -> Fates]
    BY <1>4 DEF Claim, End, Fates
  <2>2. main' \in MainState /\ main'.pc # "show"
    BY <1>4 DEF Claim, AtRest
  <2>3. inFlight' \subseteq Writes
    <3>1. token \in Tokens
      BY <1>4 DEF Claim, Handling, InHandler
    <3>2. \A s \in Sides : Write(s, Copy(main.item, "gtk", token)) \in Writes
      BY <2>1, <3>1, WriteType
    <3> QED
      BY <1>4, <3>2 DEF Claim, WithoutGtk, Writes
  <2>4. timers' \subseteq Tokens
    BY <1>4 DEF Claim, Handling, InHandler
  <2> QED
    BY <1>4, <2>1, <2>2, <2>3, <2>4 DEF Claim, Writes
<1>5. ASSUME NEW t \in timers, Deliver(t) PROVE TypeOK'
  <2>1. t \in Tokens
    OBVIOUS
  <2>2. worker' \in [Tokens -> Worker]
    BY <1>5, <2>1, GotoType, WorkerStepType DEF Deliver, Goto, Steps
  <2>3. fate' \in [Tokens -> Fates]
    BY <1>5 DEF Deliver, End, Fates
  <2> QED
    BY <1>5, <2>2, <2>3 DEF Deliver
<1> QED
  BY <1>1, <1>2, <1>3, <1>4, <1>5 DEF Handler
--------------------------------------------------------------------------------
(* The invariant *)

\* Before the first choice no worker runs and nothing is expected.
LEMMA InitIInv == Init => IInv
<1> SUFFICES ASSUME Init PROVE IInv
  OBVIOUS
<1> USE PasteAssumption DEF PasteAssumption
<1>1. NoAnswers \in Answers
  BY NoAnswersType
<1>2. NoWorker \in Worker
  BY <1>1 DEF NoWorker, Worker
<1>3. worker \in [Tokens -> Worker] /\ \A t \in Tokens : worker[t].pc = "none"
  BY <1>2 DEF Init, NoWorker
<1>4. TypeOK
  <2>1. main \in MainState /\ (main.pc = "show" => ~visible)
    BY DEF Init, AtRest, MainState
  <2>2. fate \in [Tokens -> Fates] /\ chosen \in [Tokens -> Items \cup {None}]
    BY DEF Init, Fates
  <2>3. clip \in [Sides -> Copies]
    BY OtherType DEF Init, Contents
  <2>4. token \in 0..MaxToken /\ expected \in TextItems \cup {None}
    BY DEF Init
  <2>5. inFlight \subseteq Writes /\ timers \subseteq Tokens
    BY DEF Init
  <2>6. /\ visible \in BOOLEAN /\ previous \in Windows \cup {None}
        /\ focus \in Windows \cup (IF visible THEN {Popup} ELSE {})
    BY DEF Init
  <2> QED
    BY <1>3, <2>1, <2>2, <2>3, <2>4, <2>5, <2>6 DEF TypeOK, MainState, Copies, Writes
<1>5. OnePlace /\ Fresh /\ Handling /\ AnnouncedOwn /\ Compared /\ HasText
  BY <1>3 DEF Init, AtRest, OnePlace, Fresh, Handling, InHandler, AnnouncedOwn, Compared,
     HasText, Running, Steps
<1> QED
  BY <1>4, <1>5 DEF IInv

\* A thread's step leaves the token, the timers, the announced text and the main thread
\* alone, and keeps to its own worker.
LEMMA ThreadIInv ==
    ASSUME IInv, TypeOK', NEW t \in Tokens, NEW w \in Worker, Becomes(t, w), Running(t),
           UNCHANGED <<token, expected, main, chosen, timers>>,
           w.pc \in Steps \cup {"done"},
           \A u \in Tokens : u # t => fate'[u] = fate[u],
           w.pc # "done" => fate'[t] = fate[t],
           \/ w.pc \in {"read", "write", "check"} /\ t = token
           \/ w.pc = "send"
           => w.text = Own(chosen[t]),
           w.pc \in {"read", "write"} => w.text # None
    PROVE  IInv'
<1> USE DEF IInv
<1>1. /\ worker'[t] = w
      /\ \A u \in Tokens : u # t => worker'[u] = worker[u]
  BY DEF Becomes, TypeOK
<1>2. "none" \notin Steps /\ "done" \notin Steps /\ w.pc # "none"
  BY DEF Steps
<1>3. t \notin timers /\ ~(t > token) /\ worker[t].pc # "none"
  BY <1>2 DEF OnePlace, Fresh, Running
<1>4. OnePlace'
  BY <1>1, <1>2, <1>3 DEF OnePlace, Running
<1>5. Fresh'
  BY <1>1, <1>3 DEF Fresh
<1>6. Handling'
  <2>1. InHandler => token # t
    BY <1>3 DEF Handling
  <2> QED
    BY <1>1, <2>1 DEF Handling, InHandler
<1>7. AnnouncedOwn'
  BY <1>1 DEF AnnouncedOwn, Running
<1>8. Compared' /\ HasText'
  BY <1>1 DEF Compared, HasText
<1> QED
  BY <1>4, <1>5, <1>6, <1>7, <1>8

\* Steps that touch none of the variables the invariant relates.
LEMMA ElsewhereIInv ==
    ASSUME IInv, TypeOK', UNCHANGED <<token, expected, chosen, fate, timers, worker>>,
           main' = main \/ main'.pc \notin {"clear", "load", "claim"}
    PROVE  IInv'
  BY DEF IInv, OnePlace, Fresh, Handling, InHandler, AnnouncedOwn, Compared, HasText, Running

\* Reading a side leaves the text that is compared.
LEMMA ReadSideWorker ==
    ASSUME TypeOK, NEW t \in Tokens, ReadSide(t)
    PROVE  \E w \in Worker : Becomes(t, w) /\ w.pc = "read" /\ w.text = worker[t].text
<1> USE PasteAssumption DEF PasteAssumption
<1>t. TypeOK /\ worker[t] \in Worker
  BY DEF TypeOK
<1>a. ReadSide(t)
  OBVIOUS
<1>1. PICK s \in worker[t].left :
        \/ Becomes(t, [worker[t] EXCEPT
                        !.left = @ \ {s},
                        !.seen = [x \in DOMAIN @ \cup {s} |->
                                    IF x = s THEN clip[s].item ELSE @[x]]])
        \/ Becomes(t, [worker[t] EXCEPT !.left = @ \ {s}])
  BY <1>a DEF ReadSide
<1>2. s \in Readable /\ clip[s].item \in Contents /\ worker[t].seen \in Answers
  BY <1>t DEF Worker, TypeOK
<1> DEFINE seen == [x \in DOMAIN worker[t].seen \cup {s} |->
                      IF x = s THEN clip[s].item ELSE worker[t].seen[x]]
<1>3. seen \in Answers
  BY <1>2, AnswerType
<1>4. worker[t].pc = "read"
  BY <1>a DEF ReadSide
<1> HIDE DEF seen
<1>5. /\ [worker[t] EXCEPT !.left = @ \ {s}, !.seen = seen] \in Worker
      /\ [worker[t] EXCEPT !.left = @ \ {s}, !.seen = seen].pc = "read"
      /\ [worker[t] EXCEPT !.left = @ \ {s}, !.seen = seen].text = worker[t].text
      /\ [worker[t] EXCEPT !.left = @ \ {s}] \in Worker
      /\ [worker[t] EXCEPT !.left = @ \ {s}].pc = "read"
      /\ [worker[t] EXCEPT !.left = @ \ {s}].text = worker[t].text
  BY <1>t, <1>3, <1>4 DEF Worker
<1> QED
  BY <1>1, <1>5 DEF seen

\* So does judging the answers.
LEMMA JudgeWorker ==
    ASSUME TypeOK, NEW t \in Tokens, Judge(t)
    PROVE  \E w \in Worker : /\ Becomes(t, w)
                           /\ w.pc \in {"read", "write", "check"} /\ w.text = worker[t].text
<1> USE PasteAssumption DEF PasteAssumption
<1>t. TypeOK /\ worker[t] \in Worker
  BY DEF TypeOK
<1>a. Judge(t)
  OBVIOUS
<1>g. \A pc \in Steps \cup {"none", "done"} :
          /\ [worker[t] EXCEPT !.pc = pc] \in Worker
          /\ [worker[t] EXCEPT !.pc = pc].pc = pc
          /\ [worker[t] EXCEPT !.pc = pc].text = worker[t].text
  BY <1>t, GotoType
<1> DEFINE u == [worker[t] EXCEPT !.pc = "check", !.tries = 0, !.verified = TRUE]
           v == [worker[t] EXCEPT !.tries = IF @ < Attempts THEN @ + 1 ELSE @,
                                  !.seen = NoAnswers, !.left = Readable]
           g == [worker[t] EXCEPT !.pc = "check", !.tries = 0, !.seen = NoAnswers]
<1>1. 0 \in 0..Attempts
  OBVIOUS
<1>2. u \in Worker /\ u.pc = "check" /\ u.text = worker[t].text
  BY <1>t, <1>1 DEF Worker, Steps
<1>3. g \in Worker /\ g.pc = "check" /\ g.text = worker[t].text
  BY <1>t, <1>1, NoAnswersType DEF Worker, Steps
<1>4. worker[t].pc = "read"
  BY <1>a DEF Judge
<1>5. worker[t].tries \in 0..Attempts /\ Attempts \in Nat
  BY <1>t DEF Worker
<1>6. (IF worker[t].tries < Attempts THEN worker[t].tries + 1 ELSE worker[t].tries)
        \in 0..Attempts
  BY <1>5
<1>7. v \in Worker /\ v.pc = "read" /\ v.text = worker[t].text
  BY <1>t, <1>4, <1>6, NoAnswersType, Readable \in SUBSET Readable, Zenon DEF Worker
<1>8. Becomes(t, u) \/ Becomes(t, v) \/ Becomes(t, g) \/ Goto(t, "write")
  BY <1>a DEF Judge
<1> HIDE DEF u, v, g
<1> QED
  BY <1>g, <1>2, <1>7, <1>8, <1>3 DEF Goto, Steps

\* And so does writing.
LEMMA HelperWriteWorker ==
    ASSUME TypeOK, NEW t \in Tokens, HelperWrite(t)
    PROVE  \E w \in Worker : /\ Becomes(t, w)
                           /\ w.pc \in {"read", "check"} /\ w.text = worker[t].text
<1> USE PasteAssumption DEF PasteAssumption
<1>t. TypeOK /\ worker[t] \in Worker
  BY DEF TypeOK
<1>a. HelperWrite(t)
  OBVIOUS
<1>g. \A pc \in Steps \cup {"none", "done"} :
          /\ [worker[t] EXCEPT !.pc = pc] \in Worker
          /\ [worker[t] EXCEPT !.pc = pc].pc = pc
          /\ [worker[t] EXCEPT !.pc = pc].text = worker[t].text
  BY <1>t, GotoType
<1> DEFINE v == [worker[t] EXCEPT !.pc = "read", !.tries = 1,
                                  !.seen = NoAnswers, !.left = Readable]
<1>1. 1 \in 0..Attempts
  OBVIOUS
<1>2. v \in Worker /\ v.pc = "read" /\ v.text = worker[t].text
  BY <1>t, <1>1, NoAnswersType DEF Worker, Steps
<1>3. Becomes(t, v) \/ Goto(t, "check")
  BY <1>a DEF HelperWrite
<1> QED
  BY <1>g, <1>2, <1>3 DEF Goto, Steps

\* What a step of a thread owes to the invariant and to the types: a new state of its
\* worker, and the end of its choice when the worker is done.
LEMMA ThreadStep ==
    ASSUME IInv, NEW t \in Tokens, Thread(t)
    PROVE  IInv'
<1> USE PasteAssumption DEF PasteAssumption, clipVars, windowVars
<1>1. TypeOK /\ worker[t] \in Worker
  BY DEF IInv, TypeOK
<1>2. \A pc \in Steps \cup {"none", "done"} :
          /\ [worker[t] EXCEPT !.pc = pc] \in Worker
          /\ [worker[t] EXCEPT !.pc = pc].pc = pc
          /\ [worker[t] EXCEPT !.pc = pc].text = worker[t].text
  BY <1>1, GotoType
<1>3. \A f \in Fates : End(t, f) => /\ fate' \in [Tokens -> Fates]
                                   /\ \A u \in Tokens : u # t => fate'[u] = fate[u]
  BY <1>1 DEF TypeOK, End
<1>4. Running(t) /\ t = token => expected = Own(chosen[t])
  BY DEF IInv, AnnouncedOwn
<1>5. worker[t].pc \in {"read", "write", "check"} /\ t = token => worker[t].text = Own(chosen[t])
  BY DEF IInv, Compared
<1>0. worker[t].pc \in {"read", "write"} => worker[t].text # None
  BY DEF IInv, HasText
<1>6. CASE Start(t)
  <2>1. PICK pc \in {"activate", "expect"} :
          \/ End(t, "cancelled") /\ Leave(t)
          \/ UNCHANGED fate /\ Goto(t, pc)
    BY <1>6 DEF Start
  <2>2. /\ UNCHANGED <<visible, focus, previous, token, expected, main, chosen, timers,
                      clip, inFlight>>
        /\ Running(t)
    BY <1>6 DEF Start, Running, Steps
  <2>3. fate' \in [Tokens -> Fates] /\ worker' \in [Tokens -> Worker]
    BY <1>1, <1>2, <1>3, <2>1, LeaveType, WorkerStepType
       DEF TypeOK, Goto, Leave, Steps, Fates
  <2>4. TypeOK'
    BY <1>1, <2>2, <2>3 DEF TypeOK
  <2> QED
    BY <1>2, <1>3, <2>1, <2>2, <2>4, LeaveType, ThreadIInv DEF Goto, Leave, Steps, Fates
<1>7. CASE Activate(t)
  <2>1. /\ UNCHANGED <<previous, token, expected, main, chosen, fate, timers, clip, inFlight>>
        /\ Goto(t, "forget") /\ Running(t)
    BY <1>7 DEF Activate, Running, Steps
  <2>2. /\ visible' \in BOOLEAN /\ (visible' => visible)
        /\ focus' \in Windows \cup (IF visible' THEN {Popup} ELSE {})
    <3>1. CASE previous # None /\ FocusGoesTo(previous)
      <4>1. previous \in Windows /\ focus' = previous /\ visible \in BOOLEAN
        BY <1>1, <3>1 DEF FocusGoesTo, TypeOK
      <4>2. visible' = visible \/ visible' = FALSE
        BY <3>1 DEF FocusGoesTo
      <4>3. visible' \in BOOLEAN /\ (visible' => visible)
        <5>1. CASE visible' = visible
          BY <4>1, <5>1
        <5>2. CASE visible' = FALSE
          BY <5>2
        <5> QED
          BY <4>2, <5>1, <5>2
      <4>4. focus' \in Windows
        BY <4>1
      <4> QED
        BY <4>3, <4>4
    <3>2. CASE UNCHANGED <<visible, focus>>
      BY <1>1, <3>2 DEF TypeOK
    <3> QED
      BY <1>7, <3>1, <3>2 DEF Activate
  <2>3. worker' \in [Tokens -> Worker]
    BY <1>1, <1>2, <2>1, WorkerStepType DEF Goto, Steps
  <2>4. TypeOK'
    BY <1>1, <2>1, <2>2, <2>3 DEF TypeOK
  <2> QED
    BY <1>2, <2>1, <2>4, ThreadIInv DEF Goto, Steps
<1>8. CASE Forget(t)
  <2>1. /\ UNCHANGED <<visible, focus, token, expected, main, chosen, fate, timers, clip,
                      inFlight>>
        /\ Goto(t, "expect") /\ Running(t) /\ previous' = None
    BY <1>8 DEF Forget, Running, Steps
  <2>2. worker' \in [Tokens -> Worker]
    BY <1>1, <1>2, <2>1, WorkerStepType DEF Goto, Steps
  <2>3. TypeOK'
    BY <1>1, <2>1, <2>2 DEF TypeOK
  <2> QED
    BY <1>2, <2>1, <2>3, ThreadIInv DEF Goto, Steps
<1>9. CASE Expect(t)
  <2> DEFINE w == [worker[t] EXCEPT !.text = expected, !.left = Readable,
                                   !.pc = IF expected = None THEN "check" ELSE "read"]
  <2>1. /\ w \in Worker /\ w.text = expected /\ w.pc \in {"check", "read"}
        /\ w.pc = "read" => w.text # None
    BY <1>1 DEF TypeOK, Worker, Steps
  <2>2. /\ UNCHANGED <<visible, focus, previous, token, expected, main, chosen, fate, timers,
                      clip, inFlight>>
        /\ Becomes(t, w) /\ Running(t)
    BY <1>9 DEF Expect, Running, Steps
  <2>3. TypeOK'
    BY <1>1, <2>1, <2>2, WorkerStepType DEF TypeOK
  <2> HIDE DEF w
  <2> QED
    BY <1>4, <2>1, <2>2, <2>3, ThreadIInv DEF Steps
<1>10. CASE ReadSide(t)
  <2>1. PICK w : /\ w \in Worker /\ Becomes(t, w)
                 /\ w.pc = "read" /\ w.text = worker[t].text
    BY <1>1, <1>10, ReadSideWorker
  <2>2. /\ UNCHANGED <<visible, focus, previous, token, expected, main, chosen, fate, timers,
                      clip, inFlight>>
        /\ Running(t) /\ worker[t].pc = "read"
    BY <1>10 DEF ReadSide, Running, Steps
  <2>3. TypeOK'
    BY <1>1, <2>1, <2>2, WorkerStepType DEF TypeOK
  <2> QED
    BY <1>0, <1>5, <2>1, <2>2, <2>3, ThreadIInv DEF Steps
<1>11. CASE Judge(t)
  <2>1. PICK w : /\ w \in Worker /\ Becomes(t, w)
                 /\ w.pc \in {"read", "write", "check"} /\ w.text = worker[t].text
    BY <1>1, <1>11, JudgeWorker
  <2>2. /\ UNCHANGED <<visible, focus, previous, token, expected, main, chosen, fate, timers,
                      clip, inFlight>>
        /\ Running(t) /\ worker[t].pc = "read"
    BY <1>11 DEF Judge, Running, Steps
  <2>3. TypeOK'
    BY <1>1, <2>1, <2>2, WorkerStepType DEF TypeOK
  <2> QED
    BY <1>0, <1>5, <2>1, <2>2, <2>3, ThreadIInv DEF Steps
<1>12. CASE HelperWrite(t)
  <2>1. PICK w : /\ w \in Worker /\ Becomes(t, w)
                 /\ w.pc \in {"read", "check"} /\ w.text = worker[t].text
    BY <1>1, <1>12, HelperWriteWorker
  <2>2. /\ UNCHANGED <<visible, focus, previous, token, expected, main, chosen, fate, timers,
                      clip>>
        /\ Running(t) /\ worker[t].pc = "write"
    BY <1>12 DEF HelperWrite, Running, Steps
  <2>3. inFlight' \subseteq Writes
    <3>1. worker[t].text \in Items
      BY <1>0, <1>1, <2>2 DEF Worker, Items
    <3>2. \A s \in Writable : Write(s, Copy(worker[t].text, "helper", t)) \in Writes
      BY <3>1, WriteType
    <3>3. PICK taken \in SUBSET Writable :
            inFlight' = inFlight \cup
              {Write(s, Copy(worker[t].text, "helper", t)) : s \in taken}
      BY <1>12 DEF HelperWrite
    <3> QED
      BY <1>1, <3>2, <3>3 DEF TypeOK, Writes
  <2>4. TypeOK'
    BY <1>1, <2>1, <2>2, <2>3, WorkerStepType DEF TypeOK, Writes
  <2> QED
    BY <1>0, <1>5, <2>1, <2>2, <2>4, ThreadIInv DEF Steps
<1>13. CASE Check(t)
  <2>1. \/ End(t, "cancelled") /\ Leave(t)
        \/ UNCHANGED fate /\ Goto(t, "send") /\ t = token
    BY <1>13 DEF Check
  <2>2. /\ UNCHANGED <<visible, focus, previous, token, expected, main, chosen, timers,
                      clip, inFlight>>
        /\ Running(t) /\ worker[t].pc = "check"
    BY <1>13 DEF Check, Running, Steps
  <2>3. fate' \in [Tokens -> Fates] /\ worker' \in [Tokens -> Worker]
    BY <1>1, <1>2, <1>3, <2>1, LeaveType, WorkerStepType
       DEF TypeOK, Goto, Leave, Steps, Fates
  <2>4. TypeOK'
    BY <1>1, <2>2, <2>3 DEF TypeOK
  <2> QED
    BY <1>2, <1>3, <1>5, <2>1, <2>2, <2>4, LeaveType, ThreadIInv
       DEF Goto, Leave, Steps, Fates
<1>14. CASE Send(t)
  <2>1. PICK f \in Fates : End(t, f) /\ Leave(t)
    BY <1>14 DEF Send, Fates
  <2>2. /\ UNCHANGED <<visible, focus, previous, token, expected, main, chosen, timers,
                      clip, inFlight>>
        /\ Running(t)
    BY <1>14 DEF Send, Running, Steps
  <2>3. fate' \in [Tokens -> Fates] /\ worker' \in [Tokens -> Worker]
    BY <1>1, <1>3, <2>1, LeaveType, WorkerStepType DEF Leave
  <2>4. TypeOK'
    BY <1>1, <2>2, <2>3 DEF TypeOK
  <2> QED
    BY <1>3, <2>1, <2>2, <2>4, LeaveType, ThreadIInv DEF Leave, Steps
<1> QED
  BY <1>6, <1>7, <1>8, <1>9, <1>10, <1>11, <1>12, <1>13, <1>14 DEF Thread, Runs

\* Choosing: the token is new, and no worker has it.
LEMMA ChooseIInv ==
    ASSUME IInv, TypeOK', NEW item \in Items, Choose(item)
    PROVE  IInv'
<1>1. /\ main.pc = "idle" /\ token \in Nat /\ token' = token + 1 /\ token + 1 \in Tokens
      /\ main'.pc = "clear" /\ main'.item = item
      /\ chosen' = [chosen EXCEPT ![token + 1] = item] /\ chosen \in [Tokens -> Items \cup {None}]
      /\ UNCHANGED <<expected, fate, timers, worker>>
  BY DEF IInv, TypeOK, Choose, AtRest, Tokens
<1>2. /\ token + 1 \notin timers /\ worker[token + 1].pc = "none"
      /\ fate[token + 1] = "open"
  BY <1>1 DEF IInv, Fresh
<1>3. OnePlace' /\ HasText'
  BY <1>1 DEF IInv, OnePlace, HasText, Running
<1>4. Fresh'
  BY <1>1 DEF IInv, Fresh, Tokens
<1>5. Handling'
  BY <1>1, <1>2 DEF Handling, InHandler
<1>6. AnnouncedOwn'
  BY <1>1, <1>2 DEF AnnouncedOwn, Running, Steps
<1>7. \A t \in Tokens : worker[t].pc \in Steps => chosen'[t] = chosen[t]
  BY <1>1, <1>2 DEF Steps
<1>8. Compared'
  BY <1>1, <1>2, <1>7 DEF IInv, Compared, Steps
<1> QED
  BY <1>3, <1>4, <1>5, <1>6, <1>8 DEF IInv

\* Opening the window: the present token no longer belongs to any choice.
LEMMA OpenIInv ==
    ASSUME IInv, TypeOK', Open
    PROVE  IInv'
<1>1. /\ main.pc = "idle" /\ main'.pc \notin {"clear", "load", "claim"}
      /\ token \in Nat /\ token' = token + 1 /\ token + 1 \in Tokens
      /\ UNCHANGED <<expected, chosen, fate, timers, worker>>
  BY DEF IInv, TypeOK, Open, AtRest, Tokens
<1>2. token + 1 \notin timers /\ worker[token + 1].pc = "none"
  BY <1>1 DEF IInv, Fresh
<1>3. OnePlace' /\ HasText' /\ Handling'
  BY <1>1 DEF IInv, OnePlace, HasText, Running, Handling, InHandler
<1>4. Fresh'
  BY <1>1 DEF IInv, Fresh, Tokens
<1>5. AnnouncedOwn'
  BY <1>1, <1>2 DEF AnnouncedOwn, Running, Steps
<1>6. Compared'
  BY <1>1, <1>2 DEF IInv, Compared
<1> QED
  BY <1>3, <1>4, <1>5, <1>6 DEF IInv

\* The text is replaced only while no worker holds the present token.
LEMMA HandlerIInv ==
    ASSUME IInv, TypeOK', Handler
    PROVE  IInv'
<1>1. CASE Present
  BY <1>1, ElsewhereIInv DEF Present, AtRest, clipVars
<1>2. CASE ClearExpected
  <2>1. /\ main.pc = "clear" /\ main'.pc = "load" /\ main'.item = main.item
        /\ expected' = None /\ UNCHANGED <<token, chosen, fate, timers, worker>>
    BY <1>2 DEF ClearExpected, IInv, TypeOK
  <2>2. Handling' /\ AnnouncedOwn'
    BY <2>1 DEF IInv, Handling, InHandler, AnnouncedOwn, Running, Steps
  <2> QED
    BY <2>1, <2>2 DEF IInv, OnePlace, Fresh, Compared, HasText, Running
<1>3. CASE LoadItem
  <2>1. main.pc = "load" /\ UNCHANGED <<token, chosen, timers, worker>>
    BY <1>3 DEF LoadItem
  <2>2. /\ token \in Tokens /\ token \notin timers /\ worker[token].pc = "none"
        /\ fate[token] = "open" /\ expected = None
        /\ main.item \in Items /\ chosen[token] = main.item
    BY <2>1 DEF IInv, Handling, InHandler
  <2>3. CASE /\ expected' = Announced(main.item) /\ UNCHANGED fate
             /\ main' = [main EXCEPT !.pc = "claim"]
    <3>1. main'.pc = "claim" /\ main'.item = main.item /\ expected' = Own(main.item)
      BY <2>2, <2>3 DEF IInv, TypeOK, Announced, Own
    <3>2. Handling' /\ AnnouncedOwn'
      BY <2>1, <2>2, <2>3, <3>1 DEF Handling, InHandler, AnnouncedOwn, Running, Steps
    <3> QED
      BY <2>1, <2>3, <3>2 DEF IInv, OnePlace, Fresh, Compared, HasText, Running
  <2>4. CASE End(token, "notified") /\ main' = AtRest /\ UNCHANGED expected
    <3>1. /\ main'.pc = "idle"
          /\ \A u \in Tokens : u # token => fate'[u] = fate[u]
      BY <2>4 DEF AtRest, End, IInv, TypeOK
    <3>2. OnePlace' /\ Fresh'
      BY <2>1, <2>2, <3>1 DEF IInv, OnePlace, Fresh, Running, Steps, Tokens
    <3> QED
      BY <2>1, <2>4, <3>1, <3>2
         DEF IInv, Handling, InHandler, AnnouncedOwn, Compared, HasText, Running
  <2> QED
    BY <1>3, <2>3, <2>4 DEF LoadItem
<1>4. CASE Claim
  <2>1. main.pc = "claim" /\ UNCHANGED <<token, chosen, expected, worker>> /\ main'.pc = "idle"
    BY <1>4 DEF Claim, AtRest
  <2>2. /\ token \in Tokens /\ token \notin timers /\ worker[token].pc = "none"
        /\ fate[token] = "open" /\ expected = Own(chosen[token])
    BY <2>1 DEF IInv, Handling, InHandler
  <2>3. \/ timers' = timers \cup {token} /\ UNCHANGED fate
        \/ /\ UNCHANGED timers
           /\ \A u \in Tokens : u # token => fate'[u] = fate[u]
    BY <1>4 DEF Claim, End, IInv, TypeOK
  <2>4. OnePlace' /\ Fresh'
    BY <2>1, <2>2, <2>3 DEF IInv, OnePlace, Fresh, Running, Steps, Tokens
  <2>5. AnnouncedOwn'
    BY <2>1, <2>2, <2>3 DEF AnnouncedOwn
  <2> QED
    BY <2>1, <2>4, <2>5 DEF IInv, Handling, InHandler, Compared, HasText
<1>5. ASSUME NEW t \in timers, Deliver(t) PROVE IInv'
  <2>1. /\ t \in Tokens /\ worker[t].pc = "none" /\ fate[t] = "open" /\ ~(t > token)
        /\ timers' = timers \ {t} /\ main.pc = "idle"
        /\ UNCHANGED <<token, expected, main, chosen>>
    BY <1>5 DEF Deliver, IInv, TypeOK, OnePlace, Fresh, AtRest
  <2>2. CASE t = token
    <3>1. UNCHANGED fate /\ Becomes(t, [worker[t] EXCEPT !.pc = "start"])
      BY <1>5, <2>2 DEF Deliver, Goto
    <3>2. /\ worker'[t].pc = "start"
          /\ \A u \in Tokens : u # t => worker'[u] = worker[u]
      BY <2>1, <3>1, GotoType DEF Becomes, IInv, TypeOK, Steps
    <3>3. OnePlace' /\ Fresh' /\ Handling'
      BY <2>1, <2>2, <3>1, <3>2
         DEF IInv, OnePlace, Fresh, Handling, InHandler, Running
    <3>4. AnnouncedOwn'
      BY <2>1, <2>2, <3>2 DEF IInv, AnnouncedOwn, Running
    <3>5. Compared' /\ HasText'
      BY <2>1, <3>2 DEF IInv, Compared, HasText
    <3> QED
      BY <3>3, <3>4, <3>5 DEF IInv
  <2>3. CASE t # token
    <3>1. UNCHANGED worker /\ \A u \in Tokens : u # t => fate'[u] = fate[u]
      BY <1>5, <2>3 DEF Deliver, End, IInv, TypeOK
    <3>2. OnePlace' /\ Fresh' /\ Handling'
      BY <2>1, <3>1 DEF IInv, OnePlace, Fresh, Handling, InHandler, Running, Steps
    <3> QED
      BY <2>1, <3>1, <3>2 DEF IInv, AnnouncedOwn, Compared, HasText, Running
  <2> QED
    BY <2>2, <2>3
<1> QED
  BY <1>1, <1>2, <1>3, <1>4, <1>5 DEF Handler

\* Every handler, worker step and outside event preserves the invariant.
LEMMA NextIInv == IInv /\ [Next]_vars => IInv'
<1> SUFFICES ASSUME IInv, [Next]_vars PROVE IInv'
  OBVIOUS
<1>1. CASE User
  <2>1. TypeOK'
    BY <1>1, UserType DEF IInv
  <2>2. CASE Open
    BY <2>1, <2>2, OpenIInv
  <2>3. ASSUME NEW item \in Items, Choose(item) PROVE IInv'
    BY <2>1, <2>3, ChooseIInv
  <2>4. CASE Hide
    BY <2>1, <2>4, ElsewhereIInv DEF Hide
  <2>5. ASSUME NEW w \in Windows, UserFocuses(w) PROVE IInv'
    BY <2>1, <2>5, ElsewhereIInv DEF UserFocuses
  <2>6. ASSUME NEW s \in Sides, ForeignCopy(s) PROVE IInv'
    BY <2>1, <2>6, ElsewhereIInv DEF ForeignCopy
  <2> QED
    BY <1>1, <2>2, <2>3, <2>4, <2>5, <2>6 DEF User
<1>2. CASE Handler
  BY <1>2, HandlerType, HandlerIInv DEF IInv
<1>3. ASSUME NEW t \in Tokens, Thread(t) PROVE IInv'
  BY <1>3, ThreadStep
<1>4. ASSUME NEW x \in inFlight, Publish(x) PROVE IInv'
  <2>1. TypeOK'
    <3>1. x.side \in Sides /\ x.copy \in Copies
      BY CopyType, PasteAssumption DEF IInv, TypeOK, Writes
    <3>2. clip' \in [Sides -> Copies]
      BY <1>4, <3>1 DEF Publish, IInv, TypeOK, Copies
    <3> QED
      BY <1>4, <3>2 DEF Publish, IInv, TypeOK, windowVars, Copies
  <2> QED
    BY <1>4, <2>1, ElsewhereIInv DEF Publish
<1>5. CASE UNCHANGED vars
  <2>1. TypeOK'
    BY <1>5 DEF vars, IInv, TypeOK
  <2> QED
    BY <1>5, <2>1, ElsewhereIInv DEF vars
<1> QED
  BY <1>1, <1>2, <1>3, <1>4, <1>5 DEF Next

\* The inductive invariant holds in every reachable state.
LEMMA Invariance == Spec => []IInv
  BY InitIInv, NextIInv, PTL DEF Spec

\* The variables keep their types; the window remembered for focus is never the popup.
THEOREM TypeCorrect == Spec => []TypeOK
<1>1. IInv => TypeOK
  BY DEF IInv
<1> QED
  BY <1>1, Invariance, PTL

\* One choice, one answer.
THEOREM OneAnswerEach == Spec => AnsweredOnce
<1> DEFINE Once == \A t \in Tokens : Send(t) => fate[t] = "open"
<1>1. IInv /\ [Next]_vars => [Once]_vars
  BY DEF IInv, OnePlace, Running, Steps, Send, Once
<1> QED
  BY <1>1, Invariance, PTL DEF Spec, AnsweredOnce
--------------------------------------------------------------------------------
(* What is compared and what is written *)

\* text is that of choice t or of a later one
Known(t, text) == \E k \in t..token : chosen[k] = text

\* What is announced while a worker is on its way is no older than its choice, and so is
\* what the worker compares and what its helper writes.
TextsKnown ==
    /\ \A t \in Tokens :
          /\ (t \in timers \/ Running(t)) /\ expected # None => Known(t, expected)
          /\ worker[t].pc \in {"read", "write"} => Known(t, worker[t].text)
    /\ \A x \in inFlight : x.copy.by = "helper" => Known(x.copy.of, x.copy.item)

\* What was known stays known: a new choice takes a new token.
LEMMA StaysKnown ==
    ASSUME IInv, NEW t \in Tokens, NEW text, Known(t, text), token' >= token, token' \in Nat,
           \A k \in Tokens : k <= token => chosen'[k] = chosen[k]
    PROVE  Known(t, text)'
<1>1. PICK k \in t..token : chosen[k] = text
  BY DEF Known
<1>2. t \in Nat /\ token \in Nat /\ k \in Tokens /\ k <= token /\ k \in t..token'
  BY PasteAssumption DEF IInv, TypeOK, Tokens, PasteAssumption
<1>3. chosen'[k] = text
  BY <1>1, <1>2
<1> QED
  BY <1>2, <1>3 DEF Known

\* The chosen items keep their tokens.
LEMMA ChosenStays ==
    ASSUME IInv, [Next]_vars
    PROVE  /\ token' >= token /\ token' \in Nat /\ token \in Nat
           /\ \A k \in Tokens : k <= token => chosen'[k] = chosen[k]
<1> USE PasteAssumption DEF IInv, TypeOK, PasteAssumption, clipVars, windowVars
<1>1. ASSUME UNCHANGED <<token, chosen>>
      PROVE  /\ token' >= token /\ token' \in Nat /\ token \in Nat
             /\ \A k \in Tokens : k <= token => chosen'[k] = chosen[k]
  BY <1>1
<1>2. CASE User
  <2>1. CASE Open
    BY <2>1 DEF Open
  <2>2. ASSUME NEW item \in Items, Choose(item)
        PROVE  /\ token' >= token /\ token' \in Nat /\ token \in Nat
               /\ \A k \in Tokens : k <= token => chosen'[k] = chosen[k]
    BY <2>2 DEF Choose, Tokens
  <2> QED
    BY <1>1, <1>2, <2>1, <2>2 DEF User, Hide, UserFocuses, ForeignCopy
<1>3. CASE Handler
  BY <1>1, <1>3 DEF Handler, Present, ClearExpected, LoadItem, Claim, Deliver
<1>4. ASSUME NEW t \in Tokens, Thread(t) PROVE UNCHANGED <<token, chosen>>
  BY <1>4 DEF Thread, Runs, Start, Activate, Forget, Expect, ReadSide, Judge, HelperWrite,
         Check, Send
<1>5. ASSUME NEW x \in inFlight, Publish(x) PROVE UNCHANGED <<token, chosen>>
  BY <1>5 DEF Publish
<1>6. CASE UNCHANGED vars
  BY <1>1, <1>6 DEF vars
<1> QED
  BY <1>1, <1>2, <1>3, <1>4, <1>5, <1>6 DEF Next

\* Steps that announce nothing and write nothing, and send no worker on its way.
LEMMA NothingNewKnown ==
    ASSUME IInv, TextsKnown, [Next]_vars, expected' \in {expected, None}, inFlight' \subseteq inFlight,
           \A t \in Tokens :
              /\ t \in timers' \/ Running(t)' => t \in timers \/ Running(t)
              /\ worker'[t].pc \in {"read", "write"} =>
                    Known(t, worker'[t].text)
    PROVE  TextsKnown'
<1>1. /\ token' >= token /\ token' \in Nat
      /\ \A k \in Tokens : k <= token => chosen'[k] = chosen[k]
  BY ChosenStays
<1>2. ASSUME NEW t \in Tokens
      PROVE  /\ (t \in timers' \/ Running(t)') /\ expected' # None => Known(t, expected)'
             /\ worker'[t].pc \in {"read", "write"} => Known(t, worker[t].text)'
  <2>1. (t \in timers' \/ Running(t)') /\ expected' # None => Known(t, expected')
    BY DEF TextsKnown
  <2>2. \A text : Known(t, text) => \E k \in t..token' : chosen'[k] = text
    BY <1>1, StaysKnown DEF Known
  <2> QED
    BY <2>1, <2>2 DEF Known
<1>3. ASSUME NEW x \in inFlight', x.copy.by = "helper" PROVE Known(x.copy.of, x.copy.item)'
  <2>1. x.copy.of \in Tokens /\ Known(x.copy.of, x.copy.item)
    BY <1>3 DEF IInv, TypeOK, TextsKnown
  <2>2. \E k \in x.copy.of..token' : chosen'[k] = x.copy.item
    BY <1>1, <2>1, StaysKnown DEF Known
  <2> QED
    BY <2>2 DEF Known
<1> QED
  BY <1>2, <1>3 DEF TextsKnown

\* A worker takes the announced text, keeps it while it reads, and writes it.
LEMMA ThreadKnown ==
    ASSUME IInv, TextsKnown, NEW t \in Tokens, Thread(t)
    PROVE  TextsKnown'
<1> USE DEF clipVars
<1>1. TypeOK /\ worker[t] \in Worker /\ [Next]_vars
  BY DEF IInv, TypeOK, Next
<1>2. ASSUME NEW w, Becomes(t, w), Running(t), UNCHANGED <<timers, expected>>,
             inFlight' \subseteq inFlight,
             w.pc \in {"read", "write"} => Known(t, w.text)
      PROVE  TextsKnown'
  <2>1. worker'[t] = w /\ \A u \in Tokens : u # t => worker'[u] = worker[u]
    BY <1>1, <1>2 DEF Becomes, TypeOK
  <2>2. \A u \in Tokens :
          /\ u \in timers' \/ Running(u)' => u \in timers \/ Running(u)
          /\ worker'[u].pc \in {"read", "write"} => Known(u, worker'[u].text)
    BY <1>2, <2>1 DEF TextsKnown, Running
  <2> QED
    BY <1>1, <1>2, <2>2, NothingNewKnown
<1>3. ASSUME Leave(t), Running(t), UNCHANGED <<timers, expected, inFlight>> PROVE TextsKnown'
  BY <1>2, <1>3, LeaveType DEF Leave
<1>4. ASSUME NEW pc \in Steps, Goto(t, pc), Running(t), UNCHANGED <<timers, expected, inFlight>>,
             pc \in {"read", "write"} => worker[t].pc \in {"read", "write"}
      PROVE  TextsKnown'
  <2>1. /\ [worker[t] EXCEPT !.pc = pc].pc = pc
        /\ [worker[t] EXCEPT !.pc = pc].text = worker[t].text
    BY <1>1, GotoType
  <2>2. worker[t].pc \in {"read", "write"} => Known(t, worker[t].text)
    BY DEF TextsKnown
  <2> QED
    BY <1>2, <1>4, <2>1, <2>2 DEF Goto
<1>5. CASE Start(t) \/ Activate(t) \/ Forget(t) \/ Check(t) \/ Send(t)
  <2>1. /\ Running(t) /\ UNCHANGED <<timers, expected, inFlight>>
        /\ Leave(t) \/ \E pc \in Steps \ {"read", "write"} : Goto(t, pc)
    BY <1>5 DEF Start, Activate, Forget, Check, Send, Running, Steps
  <2> QED
    BY <1>3, <1>4, <2>1
<1>6. CASE Expect(t)
  <2> DEFINE w == [worker[t] EXCEPT !.text = expected, !.left = Readable,
                                   !.pc = IF expected = None THEN "check" ELSE "read"]
  <2>1. /\ UNCHANGED <<timers, expected, inFlight>> /\ Becomes(t, w) /\ Running(t)
        /\ w.text = expected /\ (w.pc = "check" \/ expected # None)
    BY <1>1, <1>6 DEF Expect, Running, Steps, Worker
  <2>2. w.pc \in {"read", "write"} => expected # None
    BY <1>1 DEF Worker
  <2> HIDE DEF w
  <2> QED
    BY <1>2, <2>1, <2>2 DEF TextsKnown
<1>7. CASE ReadSide(t)
  <2>1. PICK w : Becomes(t, w) /\ w.pc = "read" /\ w.text = worker[t].text
    BY <1>1, <1>7, ReadSideWorker
  <2>2. UNCHANGED <<timers, expected, inFlight>> /\ Running(t) /\ worker[t].pc = "read"
    BY <1>7 DEF ReadSide, Running, Steps
  <2> QED
    BY <1>2, <2>1, <2>2 DEF TextsKnown
<1>8. CASE Judge(t)
  <2>1. PICK w : Becomes(t, w) /\ w.text = worker[t].text
    BY <1>1, <1>8, JudgeWorker
  <2>2. UNCHANGED <<timers, expected, inFlight>> /\ Running(t) /\ worker[t].pc = "read"
    BY <1>8 DEF Judge, Running, Steps
  <2> QED
    BY <1>2, <2>1, <2>2 DEF TextsKnown
<1>9. CASE HelperWrite(t)
  <2>1. PICK taken \in SUBSET Writable :
          inFlight' = inFlight \cup {Write(s, Copy(worker[t].text, "helper", t)) : s \in taken}
    BY <1>9 DEF HelperWrite
  <2>2. /\ UNCHANGED <<token, chosen, timers, expected>> /\ Running(t)
        /\ worker[t].pc = "write" /\ Known(t, worker[t].text)
    BY <1>9 DEF HelperWrite, Running, Steps, TextsKnown
  <2>3. PICK w : Becomes(t, w) /\ w.text = worker[t].text /\ w.pc \in {"read", "check"}
    BY <1>1, <1>9, HelperWriteWorker
  <2>4. worker'[t] = w /\ \A u \in Tokens : u # t => worker'[u] = worker[u]
    BY <1>1, <2>3 DEF Becomes, TypeOK
  <2>5. \A u \in Tokens :
          /\ (u \in timers' \/ Running(u)') /\ expected' # None => Known(u, expected)
          /\ worker'[u].pc \in {"read", "write"} => Known(u, worker'[u].text)
    BY <2>2, <2>3, <2>4 DEF TextsKnown, Running
  <2>6. \A x \in inFlight' : x.copy.by = "helper" => Known(x.copy.of, x.copy.item)
    BY <2>1, <2>2 DEF TextsKnown, Write, Copy
  <2> QED
    BY <2>2, <2>5, <2>6 DEF TextsKnown, Known
<1> QED
  BY <1>5, <1>6, <1>7, <1>8, <1>9 DEF Thread, Runs

\* A new text is announced for the newest token.
LEMMA LoadKnown ==
    ASSUME IInv, TextsKnown, LoadItem
    PROVE  TextsKnown'
<1>1. [Next]_vars
  BY DEF Next, Handler
<1>2. main.pc = "load" /\ UNCHANGED <<token, chosen, timers, worker, inFlight>>
  BY DEF LoadItem, clipVars
<1>3. token \in Tokens /\ token \in Nat /\ expected = None /\ chosen[token] = main.item
  BY <1>2 DEF IInv, Handling, InHandler, Tokens
<1>4. CASE UNCHANGED expected
  BY <1>1, <1>2, <1>4, NothingNewKnown DEF TextsKnown, Running
<1>5. CASE expected' = Announced(main.item)
  <2>1. expected' \in {main.item, None}
    BY <1>3, <1>5 DEF Announced
  <2>2. \A t \in Tokens : t \in timers \/ Running(t) => token \in t..token
    BY <1>3 DEF IInv, Fresh, Running, Steps, Tokens
  <2>3. \A t \in Tokens : (t \in timers \/ Running(t)) /\ expected' # None => Known(t, expected')
    BY <1>3, <2>1, <2>2 DEF Known
  <2> QED
    BY <1>2, <2>3 DEF TextsKnown, Known, Running
<1> QED
  BY <1>4, <1>5 DEF LoadItem

\* The timer that is set is that of the newest choice.
LEMMA ClaimKnown ==
    ASSUME IInv, TextsKnown, Claim
    PROVE  TextsKnown'
<1>1. main.pc = "claim" /\ UNCHANGED <<token, chosen, expected, worker>>
  BY DEF Claim
<1>2. token \in Tokens /\ token \in Nat /\ expected = Own(chosen[token])
  BY <1>1 DEF IInv, Handling, InHandler, Tokens
<1>3. Known(token, expected) \/ expected = None
  BY <1>2 DEF Known, Own
<1>4. timers' \subseteq timers \cup {token}
  BY DEF Claim
<1>5. \A x \in inFlight' : x.copy.by = "helper" => x \in inFlight
  BY DEF Claim, WithoutGtk, Write, Copy
<1> QED
  BY <1>1, <1>3, <1>4, <1>5 DEF TextsKnown, Known, Running

\* Only a text that is announced is compared, and only one that was compared is written.
LEMMA NextKnown == IInv /\ TextsKnown /\ [Next]_vars => TextsKnown'
<1> SUFFICES ASSUME IInv, TextsKnown, [Next]_vars PROVE TextsKnown'
  OBVIOUS
<1> USE DEF clipVars
<1>1. ASSUME expected' \in {expected, None}, inFlight' \subseteq inFlight, UNCHANGED <<timers, worker>>
      PROVE  TextsKnown'
  BY <1>1, NothingNewKnown DEF TextsKnown, Running
<1>2. ASSUME NEW t \in timers, Deliver(t) PROVE TextsKnown'
  <2>1. t \in Tokens /\ worker \in [Tokens -> Worker]
    BY DEF IInv, TypeOK
  <2>2. /\ UNCHANGED <<expected, inFlight>> /\ timers' = timers \ {t}
        /\ UNCHANGED worker \/ Goto(t, "start")
    BY <1>2 DEF Deliver
  <2>3. \A u \in Tokens : \/ worker'[u] = worker[u]
                          \/ u = t /\ worker'[u].pc = "start"
    BY <2>1, <2>2 DEF Goto, Becomes, Worker
  <2>4. \A u \in Tokens :
          /\ u \in timers' \/ Running(u)' => u \in timers \/ Running(u)
          /\ worker'[u].pc \in {"read", "write"} => Known(u, worker'[u].text)
    BY <2>2, <2>3 DEF TextsKnown, Running
  <2> QED
    BY <2>2, <2>4, NothingNewKnown
<1>3. CASE User
  <2>1. inFlight' \subseteq inFlight /\ UNCHANGED <<expected, timers, worker>>
    BY <1>3 DEF User, Open, Hide, UserFocuses, Choose, ForeignCopy, WithoutGtk
  <2> QED
    BY <1>1, <2>1
<1>4. CASE Handler
  <2>1. CASE Present \/ ClearExpected
    BY <1>1, <2>1 DEF Present, ClearExpected
  <2> QED
    BY <1>2, <1>4, <2>1, LoadKnown, ClaimKnown DEF Handler
<1>5. ASSUME NEW x \in inFlight, Publish(x) PROVE TextsKnown'
  BY <1>1, <1>5 DEF Publish
<1>6. CASE UNCHANGED vars
  BY <1>1, <1>6 DEF vars
<1> QED
  BY <1>3, <1>4, <1>5, <1>6, ThreadKnown DEF Next

\* A worker that sends Ctrl+V has compared the text of its own choice, and no helper writes
\* the text of a choice older than its worker's.
THEOREM WorkersCompareTheirOwn == Spec => []ComparedOwnText
<1>1. Init => TextsKnown
  BY DEF Init, TextsKnown, Running, NoWorker, Steps
<1>2. IInv /\ TextsKnown => ComparedOwnText
  BY DEF IInv, Compared, ComparedOwnText, Own, TextsKnown, Known
<1> QED
  BY <1>1, <1>2, Invariance, NextKnown, PTL DEF Spec
--------------------------------------------------------------------------------
(* What was read back still stands *)

\* What GTK has still to publish is from no choice older than one that waits for its timer
\* or has had its worker.
GtkIsNew ==
    \A x \in inFlight, t \in Tokens :
        x.copy.by = "gtk" /\ (t \in timers \/ worker[t].pc # "none") => x.copy.of >= t

\* A side still holds what it answered, or something that overtook it; and a worker that
\* verified its text had no other answer.
ReadBack ==
    \A t \in Tokens :
        /\ \A s \in DOMAIN worker[t].seen :
              clip[s].item = worker[t].seen[s] \/ Overtakes(clip[s], t)
        /\ worker[t].pc = "none" => DOMAIN worker[t].seen = {}
        /\ worker[t].verified => /\ worker[t].pc \in {"check", "send"}
                                 /\ worker[t].text \in TextItems
                                 /\ Agrees(worker[t])

\* What a new state w of worker t owes to it.
Stands(t, w) ==
    /\ \A s \in DOMAIN w.seen : clip[s].item = w.seen[s] \/ Overtakes(clip[s], t)
    /\ w.pc = "none" => DOMAIN w.seen = {}
    /\ w.verified => w.pc \in {"check", "send"} /\ w.text \in TextItems /\ Agrees(w)

\* A thread changes its own worker only.
LEMMA WorkerReadBack ==
    ASSUME TypeOK, ReadBack, NEW t \in Tokens, NEW w, Becomes(t, w), Stands(t, w), UNCHANGED clip
    PROVE  ReadBack'
<1>1. worker'[t] = w /\ \A u \in Tokens : u # t => worker'[u] = worker[u]
  BY DEF Becomes, TypeOK
<1>2. \A u \in Tokens : Stands(u, worker'[u])
  BY <1>1 DEF ReadBack, Stands
<1> QED
  BY <1>2 DEF ReadBack, Stands, Agrees

\* A worker on its way keeps its answers; one that leaves forgets them.
LEMMA GotoReadBack ==
    ASSUME TypeOK, ReadBack, NEW t \in Tokens, NEW pc, UNCHANGED clip, pc # "none",
           Goto(t, pc), worker[t].verified => pc \in {"check", "send"}
    PROVE  ReadBack'
<1> DEFINE w == [worker[t] EXCEPT !.pc = pc]
<1>1. /\ w.pc = pc /\ w.text = worker[t].text /\ w.seen = worker[t].seen
      /\ w.verified = worker[t].verified
  BY DEF TypeOK, Worker
<1>2. Becomes(t, w)
  BY DEF Goto
<1> HIDE DEF w
<1>3. Stands(t, w)
  BY <1>1 DEF Stands, ReadBack, Agrees
<1> QED
  BY <1>2, <1>3, WorkerReadBack

\* A worker that leaves has no answers any more.
LEMMA LeaveReadBack ==
    ASSUME TypeOK, ReadBack, NEW t \in Tokens, UNCHANGED clip, Leave(t)
    PROVE  ReadBack'
<1> DEFINE w == [NoWorker EXCEPT !.pc = "done"]
<1>1. DOMAIN w.seen = {} /\ w.verified = FALSE
  BY DEF NoWorker, NoAnswers
<1>2. Stands(t, w)
  BY <1>1 DEF Stands
<1> QED
  BY <1>2, WorkerReadBack DEF Leave

\* Only an agreeing read verifies, and only reading adds answers.
LEMMA ThreadReadBack ==
    ASSUME IInv, ReadBack, NEW t \in Tokens, Thread(t)
    PROVE  ReadBack'
<1> USE DEF clipVars
<1>1. TypeOK /\ worker[t] \in Worker
  BY DEF IInv, TypeOK
<1>2. worker[t].verified => worker[t].pc \in {"check", "send"}
  BY DEF ReadBack
<1>3. CASE Start(t) \/ Activate(t) \/ Forget(t) \/ Check(t) \/ Send(t)
  <2>1. CASE Leave(t)
    BY <1>1, <1>3, <2>1, LeaveReadBack DEF Start, Activate, Forget, Check, Send
  <2>2. UNCHANGED clip /\ (Leave(t) \/ \E pc : /\ Goto(t, pc)
                                               /\ worker[t].pc = "check" => pc = "send"
                                               /\ worker[t].pc # "send" /\ pc # "none")
    BY <1>3 DEF Start, Activate, Forget, Check, Send
  <2> QED
    BY <1>1, <1>2, <2>1, <2>2, GotoReadBack
<1>4. CASE Expect(t)
  <2> DEFINE w == [worker[t] EXCEPT !.text = expected, !.left = Readable,
                                   !.pc = IF expected = None THEN "check" ELSE "read"]
  <2>1. worker[t].pc = "expect" /\ UNCHANGED clip /\ Becomes(t, w)
    BY <1>4 DEF Expect
  <2>2. w.seen = worker[t].seen /\ w.verified = worker[t].verified /\ w.pc # "none"
    BY <1>1 DEF Worker
  <2> HIDE DEF w
  <2>3. Stands(t, w)
    BY <1>2, <2>1, <2>2 DEF Stands, ReadBack
  <2> QED
    BY <1>1, <2>1, <2>3, WorkerReadBack
<1>5. CASE ReadSide(t)
  <2>1. PICK s \in worker[t].left :
          \/ Becomes(t, [worker[t] EXCEPT
                          !.left = @ \ {s},
                          !.seen = [x \in DOMAIN @ \cup {s} |->
                                      IF x = s THEN clip[s].item ELSE @[x]]])
          \/ Becomes(t, [worker[t] EXCEPT !.left = @ \ {s}])
    BY <1>5 DEF ReadSide
  <2> DEFINE seen == [x \in DOMAIN worker[t].seen \cup {s} |->
                        IF x = s THEN clip[s].item ELSE worker[t].seen[x]]
             u == [worker[t] EXCEPT !.left = @ \ {s}, !.seen = seen]
             v == [worker[t] EXCEPT !.left = @ \ {s}]
  <2>2. UNCHANGED clip /\ ~worker[t].verified
    BY <1>2, <1>5 DEF ReadSide
  <2>3. \A x \in DOMAIN seen : clip[x].item = seen[x] \/ Overtakes(clip[x], t)
    BY DEF ReadBack
  <2>4. Becomes(t, u) \/ Becomes(t, v)
    BY <2>1
  <2>5. worker[t].pc = "read"
    BY <1>5 DEF ReadSide
  <2>6. u.seen = seen /\ ~u.verified /\ u.pc = "read"
    BY <1>1, <2>2, <2>5 DEF Worker
  <2>7. v.seen = worker[t].seen /\ ~v.verified /\ v.pc = "read"
    BY <1>1, <2>2, <2>5 DEF Worker
  <2> HIDE DEF seen, u, v
  <2>8. Stands(t, u) /\ Stands(t, v)
    BY <2>3, <2>6, <2>7 DEF Stands, ReadBack
  <2> QED
    BY <1>1, <2>2, <2>4, <2>8, WorkerReadBack
<1>6. CASE Judge(t)
  <2> DEFINE u == [worker[t] EXCEPT !.pc = "check", !.tries = 0, !.verified = TRUE]
             v == [worker[t] EXCEPT !.tries = IF @ < Attempts THEN @ + 1 ELSE @,
                                    !.seen = NoAnswers, !.left = Readable]
             g == [worker[t] EXCEPT !.pc = "check", !.tries = 0, !.seen = NoAnswers]
  <2>1. worker[t].pc = "read" /\ UNCHANGED clip /\ ~worker[t].verified
    BY <1>2, <1>6 DEF Judge
  <2>2. \/ Agrees(worker[t]) /\ Becomes(t, u)
        \/ Becomes(t, v) \/ Becomes(t, g) \/ Goto(t, "write")
    BY <1>6 DEF Judge
  <2>3. worker[t].text \in TextItems
    BY <1>1, <2>1 DEF IInv, HasText, Worker
  <2>4. u.pc = "check" /\ u.text = worker[t].text /\ u.seen = worker[t].seen
    BY <1>1 DEF Worker
  <2>5. DOMAIN v.seen = {} /\ ~v.verified /\ DOMAIN g.seen = {} /\ ~g.verified
    BY <1>1, <2>1 DEF Worker, NoAnswers
  <2> HIDE DEF u, v, g
  <2>6. Agrees(worker[t]) => Stands(t, u)
    BY <2>3, <2>4 DEF Stands, ReadBack, Agrees
  <2>7. Stands(t, v) /\ Stands(t, g)
    BY <2>5 DEF Stands
  <2> QED
    BY <1>1, <2>1, <2>2, <2>6, <2>7, WorkerReadBack, GotoReadBack
<1>7. CASE HelperWrite(t)
  <2> DEFINE v == [worker[t] EXCEPT !.pc = "read", !.tries = 1,
                                    !.seen = NoAnswers, !.left = Readable]
  <2>1. worker[t].pc = "write" /\ UNCHANGED clip /\ ~worker[t].verified
    BY <1>2, <1>7 DEF HelperWrite
  <2>2. Becomes(t, v) \/ Goto(t, "check")
    BY <1>7 DEF HelperWrite
  <2>3. DOMAIN v.seen = {} /\ ~v.verified
    BY <1>1, <2>1 DEF Worker, NoAnswers
  <2> HIDE DEF v
  <2>4. Stands(t, v)
    BY <2>3 DEF Stands
  <2> QED
    BY <1>1, <2>1, <2>2, <2>4, WorkerReadBack, GotoReadBack
<1> QED
  BY <1>3, <1>4, <1>5, <1>6, <1>7 DEF Thread, Runs

\* A side changes to something that overtakes every answer that was given.
LEMMA ClipReadBack ==
    ASSUME TypeOK, ReadBack, UNCHANGED worker,
           \A s \in Sides, t \in Tokens :
              worker[t].pc # "none" => clip'[s] = clip[s] \/ Overtakes(clip'[s], t)
    PROVE  ReadBack'
<1>1. \A t \in Tokens : DOMAIN worker[t].seen \subseteq Sides
  BY PasteAssumption DEF PasteAssumption, TypeOK, Worker, Answers
<1>2. \A t \in Tokens : \A s \in DOMAIN worker[t].seen :
          clip'[s].item = worker[t].seen[s] \/ Overtakes(clip'[s], t)
  BY <1>1 DEF ReadBack
<1> QED
  BY <1>2 DEF ReadBack, Agrees, Overtakes

\* A choice that is claimed is the newest, and takes what GTK has not published with it.
LEMMA NextGtkIsNew == IInv /\ GtkIsNew /\ [Next]_vars => GtkIsNew'
<1> SUFFICES ASSUME IInv, GtkIsNew, [Next]_vars PROVE GtkIsNew'
  OBVIOUS
<1> USE DEF clipVars
<1>1. TypeOK
  BY DEF IInv
<1>2. ASSUME \A x \in inFlight' : x.copy.by = "gtk" => x \in inFlight,
             \A t \in Tokens : t \in timers' \/ worker'[t].pc # "none" =>
                                  t \in timers \/ worker[t].pc # "none"
      PROVE  GtkIsNew'
  BY <1>2 DEF GtkIsNew
<1>3. ASSUME NEW t \in timers, Deliver(t) PROVE GtkIsNew'
  <2>1. t \in Tokens /\ \A u \in Tokens : u # t => worker'[u] = worker[u]
    BY <1>1, <1>3 DEF Deliver, Goto, Becomes, TypeOK
  <2> QED
    BY <1>2, <1>3, <2>1 DEF Deliver
<1>4. CASE Claim
  <2>1. /\ token \in Tokens /\ token \in Nat /\ UNCHANGED worker
        /\ \A t \in Tokens : t \in timers \/ worker[t].pc # "none" => t <= token
    BY <1>4 DEF Claim, IInv, Handling, InHandler, Fresh, Tokens
  <2>2. CASE UNCHANGED <<timers, inFlight>>
    BY <1>2, <2>1, <2>2
  <2>3. CASE /\ inFlight' = WithoutGtk \cup {Write(s, Copy(main.item, "gtk", token)) : s \in Sides}
             /\ timers' \subseteq timers \cup {token}
    <3>1. \A x \in inFlight' : x.copy.by = "gtk" => x.copy.of = token
      BY <2>3 DEF WithoutGtk, Write, Copy
    <3>2. \A t \in Tokens : t \in timers' \/ worker'[t].pc # "none" => token >= t
      BY <2>1, <2>3
    <3> QED
      BY <3>1, <3>2 DEF GtkIsNew
  <2> QED
    BY <1>4, <2>2, <2>3 DEF Claim
<1>5. ASSUME NEW t \in Tokens, Thread(t) PROVE GtkIsNew'
  <2>1. worker[t].pc # "none" /\ UNCHANGED timers
    BY <1>5 DEF Thread, Runs, Start, Activate, Forget, Expect, ReadSide, Judge, HelperWrite,
           Check, Send
  <2>2. \A u \in Tokens : u # t => worker'[u] = worker[u]
    BY <1>1, <1>5 DEF TypeOK, Thread, Runs, Start, Activate, Forget, Expect, ReadSide, Judge,
           HelperWrite, Check, Send, Goto, Leave, Becomes
  <2>3. \A x \in inFlight' : x.copy.by = "gtk" => x \in inFlight
    <3>1. CASE HelperWrite(t)
      BY <3>1 DEF HelperWrite, Write, Copy
    <3>2. CASE Runs(t)
      BY <3>2 DEF Runs, Start, Activate, Forget, Expect, ReadSide, Judge, Check, Send
    <3> QED
      BY <1>5, <3>1, <3>2 DEF Thread
  <2> QED
    BY <1>2, <2>1, <2>2, <2>3
<1>6. CASE User
  BY <1>2, <1>6 DEF User, Open, Hide, UserFocuses, Choose, ForeignCopy, WithoutGtk
<1>7. CASE Handler
  <2>1. CASE Present \/ ClearExpected \/ LoadItem
    BY <1>2, <2>1 DEF Present, ClearExpected, LoadItem
  <2> QED
    BY <1>3, <1>4, <1>7, <2>1 DEF Handler
<1>8. ASSUME NEW x \in inFlight, Publish(x) PROVE GtkIsNew'
  BY <1>2, <1>8 DEF Publish
<1>9. CASE UNCHANGED vars
  BY <1>2, <1>9 DEF vars
<1> QED
  BY <1>5, <1>6, <1>7, <1>8, <1>9 DEF Next

\* Timers start a worker that has not read anything; nothing else on the main thread reads.
LEMMA NextReadBack == IInv /\ GtkIsNew /\ ReadBack /\ [Next]_vars => ReadBack'
<1> SUFFICES ASSUME IInv, GtkIsNew, ReadBack, [Next]_vars PROVE ReadBack'
  OBVIOUS
<1> USE DEF clipVars
<1>1. TypeOK
  BY DEF IInv
<1>2. ASSUME UNCHANGED <<worker, clip>> PROVE ReadBack'
  BY <1>1, <1>2, ClipReadBack
<1>3. ASSUME NEW t \in timers, Deliver(t) PROVE ReadBack'
  <2>1. t \in Tokens /\ worker[t].pc = "none" /\ ~worker[t].verified
    BY <1>1 DEF IInv, TypeOK, OnePlace, ReadBack
  <2>2. UNCHANGED clip /\ (UNCHANGED worker \/ Goto(t, "start"))
    BY <1>3 DEF Deliver
  <2> QED
    BY <1>1, <1>2, <2>1, <2>2, GotoReadBack
<1>4. ASSUME NEW x \in inFlight, Publish(x) PROVE ReadBack'
  <2>1. x.side \in Sides /\ x.copy.by \in {"gtk", "helper"}
    BY <1>1, PasteAssumption, CopyType DEF TypeOK, Writes
  <2>2. \A t \in Tokens : worker[t].pc # "none" => Overtakes(x.copy, t)
    BY <2>1 DEF GtkIsNew, Overtakes
  <2>3. \A s \in Sides : clip'[s] = clip[s] \/ clip'[s] = x.copy
    BY <1>1, <1>4 DEF Publish, TypeOK
  <2> QED
    BY <1>1, <1>4, <2>2, <2>3, ClipReadBack DEF Publish
<1>5. ASSUME NEW s \in Sides, ForeignCopy(s) PROVE ReadBack'
  <2>1. \A u \in Sides : clip'[u] = clip[u] \/ clip'[u].item = "foreign"
    BY <1>1, <1>5 DEF ForeignCopy, TypeOK, Copy
  <2> QED
    BY <1>1, <1>5, <2>1, ClipReadBack DEF ForeignCopy, Overtakes
<1>6. CASE User
  BY <1>2, <1>5, <1>6 DEF User, Open, Hide, UserFocuses, Choose
<1>7. CASE Handler
  BY <1>2, <1>3, <1>7 DEF Handler, Present, ClearExpected, LoadItem, Claim
<1>8. CASE UNCHANGED vars
  BY <1>2, <1>8 DEF vars
<1> QED
  BY <1>4, <1>6, <1>7, <1>8, ThreadReadBack DEF Next

\* Once a text was read back, a side that answered holds it or something that overtook it:
\* neither what was there at the start nor GTK's write for an earlier choice.
THEOREM OldSelectionIsGone == Spec => []OldSelectionGone
<1>1. Init => GtkIsNew /\ ReadBack
  BY DEF Init, GtkIsNew, ReadBack, NoWorker, NoAnswers
<1>2. IInv /\ ReadBack => OldSelectionGone
  <2> SUFFICES ASSUME IInv, ReadBack, NEW t \in Tokens, worker[t].pc = "send",
                      worker[t].verified, NEW s \in DOMAIN worker[t].seen
               PROVE  clip[s].item = chosen[t] \/ Overtakes(clip[s], t)
    BY DEF OldSelectionGone
  <2>1. worker[t].text \in TextItems /\ worker[t].seen[s] = worker[t].text
    BY DEF ReadBack, Agrees
  <2>2. worker[t].text = Own(chosen[t])
    BY DEF IInv, Compared
  <2>3. chosen[t] = worker[t].text
    BY <2>1, <2>2, PasteAssumption DEF Own, PasteAssumption, Items
  <2> QED
    BY <2>1, <2>3 DEF ReadBack
<1> QED
  BY <1>1, <1>2, Invariance, NextGtkIsNew, NextReadBack, PTL DEF Spec
--------------------------------------------------------------------------------
(* Opening the window *)

\* w is still on its way to the last look at the token
Looks(w) == w.pc \in Steps \ {"send"}

\* The token is lost before the window is shown, and only a hidden window has a handler
\* that starts another paste.
HeldBack ==
    /\ InHandler => ~visible
    /\ visible \/ main.pc = "show" =>
          \A t \in Tokens : t \in timers \/ Looks(worker[t]) => t # token

\* Steps that start no paste and neither show the window nor give out a token.
LEMMA NobodySetsOut ==
    ASSUME HeldBack, UNCHANGED token, visible' => visible,
           \/ main' = main
           \/ main'.pc \in {"clear", "load", "claim"} /\ InHandler
           \/ main' = AtRest,
           \A t \in Tokens : t \in timers' \/ Looks(worker'[t]) =>
                                t \in timers \/ Looks(worker[t]) \/ InHandler
    PROVE  HeldBack'
  BY DEF HeldBack, InHandler, AtRest

\* A thread moves on from a step on the way to the last look, or is past it.
LEMMA ThreadHeldBack ==
    ASSUME TypeOK, HeldBack, NEW t \in Tokens, Thread(t)
    PROVE  HeldBack'
<1> USE DEF windowVars, clipVars
<1>1. \A u \in Tokens : u # t => worker'[u] = worker[u]
  BY DEF TypeOK, Thread, Runs, Start, Activate, Forget, Expect, ReadSide, Judge, HelperWrite,
         Check, Send, Goto, Leave, Becomes
<1>2. UNCHANGED <<token, main, timers>> /\ (visible' => visible)
  <2>1. CASE Activate(t)
    <3>1. UNCHANGED <<token, main, timers>>
      BY <2>1 DEF Activate
    <3>2. visible' = visible \/ visible' = FALSE
      BY <2>1 DEF Activate, FocusGoesTo
    <3>3. visible' => visible
      <4>1. CASE visible' = FALSE
        BY <4>1
      <4>2. CASE visible' = visible
        BY <4>2
      <4> QED
        BY <3>2, <4>1, <4>2
    <3> QED
      BY <3>1, <3>3
  <2>2. CASE ~Activate(t)
    <3>1. UNCHANGED <<token, main, timers, visible>>
      BY <2>2 DEF Thread, Runs, Start, Forget, Expect, ReadSide, Judge, HelperWrite, Check, Send
    <3> QED
      BY <3>1
  <2> QED
    BY <2>1, <2>2
<1>3. Looks(worker[t]) \/ ~Looks(worker'[t])
  <2>1. CASE Send(t)
    <3>1. worker'[t] = [NoWorker EXCEPT !.pc = "done"]
      BY <2>1 DEF Send, Leave, Becomes, TypeOK
    <3> QED
      BY <3>1, LeaveType DEF Looks, Steps
  <2>2. CASE ~Send(t)
    BY <2>2 DEF Thread, Runs, Start, Activate, Forget, Expect, ReadSide, Judge, HelperWrite,
           Check, Looks, Steps
  <2> QED
    BY <2>1, <2>2
<1> QED
  BY <1>1, <1>2, <1>3, NobodySetsOut

\* Opening takes a token nobody has; a choice hides the window before it sets out.
LEMMA NextHeldBack == IInv /\ HeldBack /\ [Next]_vars => HeldBack'
<1> SUFFICES ASSUME IInv, HeldBack, [Next]_vars PROVE HeldBack'
  OBVIOUS
<1> USE DEF windowVars, clipVars
<1>1. TypeOK
  BY DEF IInv
<1>2. CASE Open
  <2>1. \A t \in Tokens : t \in timers \/ Looks(worker[t]) => t # token + 1
    BY <1>1 DEF IInv, Fresh, Looks, Steps, TypeOK, Tokens
  <2> QED
    BY <1>2, <2>1 DEF Open, HeldBack, InHandler, AtRest
<1>3. CASE Hide
  BY <1>3, NobodySetsOut DEF Hide
<1>4. ASSUME NEW w \in Windows, UserFocuses(w) PROVE HeldBack'
  BY <1>1, <1>4, NobodySetsOut DEF UserFocuses, FocusGoesTo, TypeOK
<1>5. ASSUME NEW item \in Items, Choose(item) PROVE HeldBack'
  BY <1>5 DEF Choose, HeldBack, InHandler
<1>6. ASSUME NEW s \in Sides, ForeignCopy(s) PROVE HeldBack'
  BY <1>6, NobodySetsOut DEF ForeignCopy
<1>7. CASE Present
  BY <1>7 DEF Present, HeldBack, InHandler, AtRest
<1>8. CASE ClearExpected \/ LoadItem
  <2>1. /\ InHandler /\ UNCHANGED <<token, visible, timers, worker>>
        /\ main'.pc \in {"clear", "load", "claim"} \/ main' = AtRest
    <3>1. main \in MainState
      BY <1>1 DEF TypeOK, MainState
    <3> QED
      BY <1>8, <3>1 DEF ClearExpected, LoadItem, InHandler, MainState
  <2> QED
    BY <2>1, NobodySetsOut
<1>9. CASE Claim
  BY <1>9, NobodySetsOut DEF Claim, InHandler
<1>10. ASSUME NEW t \in timers, Deliver(t) PROVE HeldBack'
  <2>1. \A u \in Tokens : u # t => worker'[u] = worker[u]
    BY <1>1, <1>10 DEF Deliver, Goto, Becomes, TypeOK
  <2>2. t \in timers
    OBVIOUS
  <2>3. UNCHANGED <<token, main, visible>> /\ timers' = timers \ {t}
    BY <1>10 DEF Deliver
  <2> QED
    BY <2>1, <2>2, <2>3, NobodySetsOut
<1>11. ASSUME NEW t \in Tokens, Thread(t) PROVE HeldBack'
  BY <1>1, <1>11, ThreadHeldBack
<1>12. ASSUME NEW x \in inFlight, Publish(x) PROVE HeldBack'
  BY <1>12, NobodySetsOut DEF Publish
<1>13. CASE UNCHANGED vars
  BY <1>13, NobodySetsOut DEF vars
<1> QED
  BY <1>2, <1>3, <1>4, <1>5, <1>6, <1>7, <1>8, <1>9, <1>10, <1>11, <1>12, <1>13
     DEF Next, User, Handler

\* While the window is open nothing that has not had its last look can still be sent.
THEOREM WindowHoldsPastes == Spec => []OpenWindowHoldsPastes
<1>1. Init => HeldBack
  BY DEF Init, HeldBack, InHandler, AtRest
<1>2. HeldBack => OpenWindowHoldsPastes
  BY DEF HeldBack, Looks, OpenWindowHoldsPastes
<1> QED
  BY <1>1, <1>2, Invariance, NextHeldBack, PTL DEF Spec
================================================================================
