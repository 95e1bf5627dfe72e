------------------------- MODULE ClipboardMonitorProofs ------------------------
(***************************************************************************)
(* Proofs about ClipboardMonitor, for every number of sides, changes and   *)
(* writes.  The invariant says where the change numbers may be: a pending  *)
(* read means the content on the clipboard has not been read yet, reads    *)
(* under way and captures are older, and only the read that carries the    *)
(* present token may still be captured.                                    *)
(***************************************************************************)
EXTENDS ClipboardMonitor, TLAPS

\* Every read of the monitor carries a token of its own.
TokensDiffer == \A r, q \in reads : r.token = q.token => r = q

\* What has been read or captured is not newer than the clipboard, and older while a
\* read is pending.
Seen(c) == c.gen <= clip.gen /\ (timer => c.gen < clip.gen)

SeenOnly ==
    /\ \A r \in reads : r.token <= token /\ Seen(r.content)
    /\ \A i \in 1..Len(captured) : Seen(captured[i])

\* The read that will be captured is newer than every capture.
NextIsNewer ==
    \A r \in reads :
        r.token = token => \A i \in 1..Len(captured) : captured[i].gen < r.content.gen

\* Before attach nothing has been read, and nothing was written by the application.
StartsEmpty ==
    phase = "starting" =>
        ~timer /\ reads = {} /\ captured = <<>> /\ clip.by # "own"

\* Between two reads the content of the clipboard is on its way, or has arrived, or was
\* taken for the application's own.
OnItsWay ==
    phase = "on" /\ ~timer /\ clip.kind = "plain" =>
        \/ Recorded(clip) \/ clip \in ignored
        \/ \E r \in reads : r.token = token /\ r.content = clip

\* The suppression that belongs to a write through GTK is not used up before the read
\* that write has scheduled, whatever the workers do to the counter.
OwnAnnounced == timer /\ clip.by = "own" => suppress > 0

IInv ==
    /\ TypeOK
    /\ TokensDiffer /\ SeenOnly /\ NextIsNewer /\ StartsEmpty
    /\ CapturedInOrder
    /\ OnItsWay
    /\ OwnAnnounced

\* A monitor that has just subscribed has the right types.
LEMMA InitTypeOK == Init => TypeOK
<1> SUFFICES ASSUME Init PROVE TypeOK
  OBVIOUS
<1>1. clip \in Content
  BY DEF Init, Content
<1>2. captured \in Seq(Content)
  BY DEF Init
<1>3. worker \in [Workers -> [pc : {"idle", "verify", "store", "stamp"}, loaded : Nat]]
  BY DEF Init, IdleWorker
<1>4. writes \in 0..MaxWrites
  BY MonitorAssumption DEF Init, MonitorAssumption
<1> QED
  BY <1>1, <1>2, <1>3, <1>4 DEF Init, TypeOK

\* Signals, timers, reads and the user's copies keep the types.
LEMMA StepTypeOK == TypeOK /\ [Next]_vars => TypeOK'
<1> SUFFICES ASSUME TypeOK, [Next]_vars PROVE TypeOK'
  OBVIOUS
<1> USE MonitorAssumption DEF TypeOK, MonitorAssumption
<1>1. ASSUME NEW kind \in Kinds, UserCopies(kind) PROVE TypeOK'
  BY <1>1 DEF UserCopies, Changed, Content
<1>2. CASE HelperNotice
  BY <1>2 DEF HelperNotice, Changed, Content, Kinds
<1>3. CASE Attach
  BY <1>3 DEF Attach
<1>4. CASE Detach
  BY <1>4 DEF Detach
<1>5. CASE OwnWrite
  BY <1>5 DEF OwnWrite, MayWrite, Suppress, Changed, Content, Kinds
<1>6. CASE OwnWriteFails
  BY <1>6 DEF OwnWriteFails, MayWrite, Suppress
<1>7. ASSUME NEW w \in Workers, HelperWrites(w) PROVE TypeOK'
  BY <1>7 DEF HelperWrites, MayWrite
<1>8. ASSUME NEW w \in Workers, HelperUnverified(w) PROVE TypeOK'
  BY <1>8 DEF HelperUnverified, IdleWorker
<1>9. ASSUME NEW w \in Workers, SuppressLoad(w) PROVE TypeOK'
  BY <1>9 DEF SuppressLoad
<1>10. ASSUME NEW w \in Workers, SuppressStore(w) PROVE TypeOK'
  BY <1>10 DEF SuppressStore
<1>11. ASSUME NEW w \in Workers, SuppressStamp(w) PROVE TypeOK'
  BY <1>11 DEF SuppressStamp, IdleWorker
<1>12. CASE Lapse
  BY <1>12 DEF Lapse
<1>13. CASE ReadNow
  <2>1. suppress' \in Nat
    BY <1>13 DEF ReadNow, AfterRead, Unexpired
  <2>2. reads' \subseteq Read /\ token' \in Nat /\ ignored' \subseteq Content
    BY <1>13 DEF ReadNow, Read
  <2> QED
    BY <1>13, <2>1, <2>2 DEF ReadNow
<1>14. ASSUME NEW r \in reads, Finish(r) PROVE TypeOK'
  <2>1. r.content \in Content
    BY DEF Read
  <2>2. captured' \in Seq(Content)
    BY <1>14, <2>1 DEF Finish
  <2> QED
    BY <1>14, <2>2 DEF Finish
<1>15. CASE UNCHANGED vars
  BY <1>15 DEF vars
<1> QED
  BY <1>1, <1>2, <1>3, <1>4, <1>5, <1>6, <1>7, <1>8, <1>9, <1>10, <1>11, <1>12,
     <1>13, <1>14, <1>15 DEF Next, Environment, App, Worker, Progress

\* Generations and tokens are numbers, so that they can be compared.
LEMMA GensAreNumbers ==
    ASSUME TypeOK
    PROVE  /\ clip.gen \in Nat /\ token \in Nat
           /\ captured \in Seq(Content)
           /\ \A r \in reads : /\ r.token \in Nat /\ r.content \in Content
                              /\ r.content.gen \in Nat
           /\ \A i \in 1..Len(captured) : captured[i].gen \in Nat
<1>1. \A c \in Content : c.gen \in Nat
  BY DEF Content
<1>2. \A r \in reads : r.token \in Nat /\ r.content \in Content
  BY DEF TypeOK, Read
<1>3. captured \in Seq(Content)
  BY DEF TypeOK
<1>4. \A i \in 1..Len(captured) : captured[i] \in Content
  BY <1>3
<1> QED
  BY <1>1, <1>2, <1>3, <1>4 DEF TypeOK

\* Before the first signal nothing is being read and nothing was captured.
LEMMA InitIInv == Init => IInv
<1> SUFFICES ASSUME Init PROVE IInv
  OBVIOUS
<1>1. TypeOK
  BY InitTypeOK
<1>2. Len(captured) = 0 /\ reads = {} /\ ~timer /\ phase = "starting" /\ clip.by = "user"
  BY DEF Init
<1>3. captured = <<>>
  BY DEF Init
<1> QED
  BY <1>1, <1>2, <1>3 DEF IInv, TokensDiffer, SeenOnly, NextIsNewer, StartsEmpty,
     CapturedInOrder, OnItsWay, OwnAnnounced

\* The clipboard changes: everything read so far is older, and a read is pending.
LEMMA ChangedIInv ==
    ASSUME IInv, TypeOK', NEW by \in {"user", "own", "helper"}, NEW kind \in Kinds,
           Changed(by, kind), UNCHANGED <<phase, token, reads, captured>>,
           by = "own" => suppress' > 0 /\ phase = "on",
           by # "own" => UNCHANGED suppress
    PROVE  IInv'
<1> USE DEF IInv
<1>1. clip' = [gen |-> clip.gen + 1, by |-> by, kind |-> kind] /\ clip.gen \in Nat
  BY DEF Changed, TypeOK, Content
<1>2. TokensDiffer' /\ NextIsNewer' /\ CapturedInOrder'
  BY DEF TokensDiffer, NextIsNewer, CapturedInOrder
<1>3. \A r \in reads : r.content.gen \in Nat
  BY DEF TypeOK, Read, Content
<1>4. \A i \in 1..Len(captured) : captured[i].gen \in Nat
  BY GensAreNumbers
<1>5. SeenOnly'
  BY <1>1, <1>3, <1>4 DEF SeenOnly, Seen
<1>6. StartsEmpty'
  BY <1>1 DEF StartsEmpty, Changed, TypeOK
<1>7. OnItsWay'
  BY DEF OnItsWay, Changed
<1>8. OwnAnnounced'
  BY <1>1 DEF OwnAnnounced
<1> QED
  BY <1>2, <1>5, <1>6, <1>7, <1>8

\* A step that leaves reads, captures and the clipboard alone.
LEMMA ElsewhereIInv ==
    ASSUME IInv, TypeOK',
           UNCHANGED <<phase, clip, timer, token, reads, captured, ignored>>,
           suppress' >= suppress \/ suppress' > 0
    PROVE  IInv'
<1> USE DEF IInv
<1>1. /\ TokensDiffer' /\ SeenOnly' /\ NextIsNewer' /\ StartsEmpty' /\ CapturedInOrder'
      /\ OnItsWay'
  BY DEF TokensDiffer, SeenOnly, Seen, NextIsNewer, StartsEmpty, CapturedInOrder, OnItsWay,
     Recorded
<1>2. OwnAnnounced'
  BY DEF OwnAnnounced, TypeOK
<1> QED
  BY <1>1, <1>2

\* A read starts: it is the newest, and the clipboard has no newer content.
LEMMA ReadNowIInv ==
    ASSUME IInv, TypeOK', ReadNow
    PROVE  IInv'
<1> USE DEF IInv
<1>1. /\ timer /\ ~timer' /\ token \in Nat
      /\ UNCHANGED <<phase, clip, captured>>
      /\ clip.gen \in Nat
  BY DEF ReadNow, TypeOK, Content
<1>2. /\ \A r \in reads : r.token \in Nat /\ r.content.gen \in Nat
      /\ \A i \in 1..Len(captured) : captured[i].gen \in Nat
  BY GensAreNumbers
<1>3. StartsEmpty' /\ OwnAnnounced' /\ CapturedInOrder'
  BY <1>1 DEF StartsEmpty, OwnAnnounced, CapturedInOrder
<1>4. CASE UNCHANGED <<token, reads>>
  <2>1. TokensDiffer' /\ NextIsNewer' /\ SeenOnly'
    BY <1>1, <1>2, <1>4 DEF TokensDiffer, NextIsNewer, SeenOnly, Seen
  <2>2. clip \in ignored' \/ clip.kind = "marked"
    BY <1>1, <1>4 DEF ReadNow
  <2>3. OnItsWay'
    BY <1>1, <2>2 DEF OnItsWay
  <2> QED
    BY <1>3, <2>1, <2>3
<1>5. CASE token' = token + 1 /\ reads' = reads \cup {[token |-> token + 1, content |-> clip]}
  <2>1. TokensDiffer'
    BY <1>1, <1>2, <1>5 DEF TokensDiffer, SeenOnly
  <2>2. SeenOnly'
    BY <1>1, <1>2, <1>5 DEF SeenOnly, Seen
  <2>3. NextIsNewer'
    BY <1>1, <1>2, <1>5 DEF NextIsNewer, SeenOnly, Seen
  <2>4. \E r \in reads' : r.token = token' /\ r.content = clip'
    <3> DEFINE r == [token |-> token + 1, content |-> clip]
    <3>1. r \in reads' /\ r.token = token' /\ r.content = clip'
      BY <1>1, <1>5
    <3> QED
      BY <3>1
  <2>5. OnItsWay'
    BY <2>4 DEF OnItsWay
  <2> QED
    BY <1>3, <2>1, <2>2, <2>3, <2>5
<1> QED
  BY <1>4, <1>5 DEF ReadNow

\* A read comes back: it is captured only when it is newer than every capture.
LEMMA FinishIInv ==
    ASSUME IInv, TypeOK', NEW r \in reads, Finish(r)
    PROVE  IInv'
<1> USE DEF IInv
<1>1. /\ reads' = reads \ {r}
      /\ UNCHANGED <<phase, clip, timer, suppress, token, ignored>>
  BY DEF Finish
<1>2. /\ \A q \in reads : q.token \in Nat /\ q.content.gen \in Nat
      /\ \A i \in 1..Len(captured) : captured[i].gen \in Nat
      /\ r.content \in Content /\ captured \in Seq(Content) /\ clip.gen \in Nat
  BY GensAreNumbers
<1>3. TokensDiffer' /\ OwnAnnounced'
  BY <1>1 DEF TokensDiffer, OwnAnnounced
<1>4. CASE r.token = token /\ r.content.kind = "plain"
  <2>1. captured' = Append(captured, r.content)
    BY <1>4 DEF Finish
  <2>2. /\ Len(captured') = Len(captured) + 1
        /\ \A i \in 1..Len(captured) : captured'[i] = captured[i]
        /\ captured'[Len(captured) + 1] = r.content
        /\ Len(captured) \in Nat
    BY <1>2, <2>1
  <2>3. \A i \in 1..Len(captured') :
            \/ i \in 1..Len(captured) /\ captured'[i] = captured[i]
            \/ i = Len(captured) + 1 /\ captured'[i] = r.content
    BY <2>2
  <2>4. \A i \in 1..Len(captured) : captured[i].gen < r.content.gen
    BY <1>4 DEF NextIsNewer
  <2>5. SeenOnly'
    BY <1>1, <2>3 DEF SeenOnly, Seen
  <2>6. NextIsNewer'
    BY <1>1, <1>4 DEF NextIsNewer, TokensDiffer
  <2>7. StartsEmpty'
    BY <1>1 DEF StartsEmpty
  <2>8. CapturedInOrder'
    BY <1>2, <2>2, <2>3, <2>4 DEF CapturedInOrder
  <2>9. \A c : Recorded(c) => Recorded(c)'
    BY <2>2 DEF Recorded
  <2>10. Recorded(r.content)'
    BY <2>2 DEF Recorded
  <2>11. OnItsWay'
    BY <1>1, <1>4, <2>2, <2>9, <2>10 DEF OnItsWay, TokensDiffer, Recorded
  <2> QED
    BY <1>3, <2>5, <2>6, <2>7, <2>8, <2>11
<1>5. CASE ~(r.token = token /\ r.content.kind = "plain")
  <2>1. captured' = captured
    BY <1>5 DEF Finish
  <2>2. SeenOnly' /\ NextIsNewer' /\ StartsEmpty' /\ CapturedInOrder'
    BY <1>1, <2>1 DEF SeenOnly, Seen, NextIsNewer, StartsEmpty, CapturedInOrder
  <2>3. OnItsWay'
    BY <1>1, <1>5, <2>1 DEF OnItsWay, Recorded
  <2> QED
    BY <1>3, <2>2, <2>3
<1> QED
  BY <1>4, <1>5

\* One case per action; the actions that only touch a worker or the announcements
\* share ElsewhereIInv.
LEMMA NextIInv == IInv /\ [Next]_vars => IInv'
<1> SUFFICES ASSUME IInv, [Next]_vars PROVE IInv'
  OBVIOUS
<1>1. TypeOK'
  BY StepTypeOK DEF IInv
<1>2. suppress \in Nat
  BY DEF IInv, TypeOK
<1>3. ASSUME NEW kind \in Kinds, UserCopies(kind) PROVE IInv'
  BY <1>1, <1>3, ChangedIInv DEF UserCopies
<1>4. CASE HelperNotice
  BY <1>1, <1>4, ChangedIInv DEF HelperNotice, Kinds
<1>5. CASE OwnWrite
  BY <1>1, <1>2, <1>5, ChangedIInv DEF OwnWrite, MayWrite, Suppress, Kinds
<1>6. CASE Attach
  <2>1. /\ phase = "starting" /\ phase' = "on" /\ timer'
        /\ UNCHANGED <<clip, suppress, token, reads, captured, ignored>>
    BY <1>6 DEF Attach
  <2>2. reads = {} /\ captured = <<>> /\ clip.by # "own"
    BY <2>1 DEF IInv, StartsEmpty
  <2> QED
    BY <1>1, <2>1, <2>2 DEF IInv, TokensDiffer, SeenOnly, NextIsNewer, StartsEmpty,
       CapturedInOrder, OnItsWay, OwnAnnounced
<1>7. CASE Detach
  BY <1>1, <1>7 DEF Detach, IInv, TokensDiffer, SeenOnly, Seen, NextIsNewer, StartsEmpty,
     CapturedInOrder, OnItsWay, OwnAnnounced
<1>8. CASE OwnWriteFails
  BY <1>1, <1>2, <1>8, ElsewhereIInv DEF OwnWriteFails, Suppress
<1>9. ASSUME NEW w \in Workers, HelperWrites(w) PROVE IInv'
  BY <1>1, <1>2, <1>9, ElsewhereIInv DEF HelperWrites
<1>10. ASSUME NEW w \in Workers, HelperUnverified(w) PROVE IInv'
  BY <1>1, <1>2, <1>10, ElsewhereIInv DEF HelperUnverified
<1>11. ASSUME NEW w \in Workers, SuppressLoad(w) PROVE IInv'
  BY <1>1, <1>2, <1>11, ElsewhereIInv DEF SuppressLoad
<1>12. ASSUME NEW w \in Workers, SuppressStore(w) PROVE IInv'
  <2>1. worker[w].loaded \in Nat
    BY DEF IInv, TypeOK
  <2> QED
    BY <1>1, <1>2, <1>12, <2>1, ElsewhereIInv DEF SuppressStore
<1>13. ASSUME NEW w \in Workers, SuppressStamp(w) PROVE IInv'
  BY <1>1, <1>2, <1>13, ElsewhereIInv DEF SuppressStamp
<1>14. CASE Lapse
  BY <1>1, <1>2, <1>14, ElsewhereIInv DEF Lapse
<1>15. CASE ReadNow
  BY <1>1, <1>15, ReadNowIInv
<1>16. ASSUME NEW r \in reads, Finish(r) PROVE IInv'
  BY <1>1, <1>16, FinishIInv
<1>17. CASE UNCHANGED vars
  BY <1>1, <1>2, <1>17, ElsewhereIInv DEF vars
<1> QED
  BY <1>3, <1>4, <1>5, <1>6, <1>7, <1>8, <1>9, <1>10, <1>11, <1>12, <1>13, <1>14, <1>15,
     <1>16, <1>17 DEF Next, Environment, App, Worker, Progress

\* The inductive invariant holds in every reachable state.
LEMMA Invariance == Spec => []IInv
  BY InitIInv, NextIInv, PTL DEF Spec

\* The variables keep their types.
THEOREM TypeCorrect == Spec => []TypeOK
  BY InitTypeOK, StepTypeOK, PTL DEF Spec

\* The store receives what was copied in the order it was copied (_stale drops the rest).
THEOREM CapturesAreOrdered == Spec => []CapturedInOrder
<1>1. IInv => CapturedInOrder
  BY DEF IInv
<1> QED
  BY <1>1, Invariance, PTL

\* At rest, what is on the clipboard has been recorded or was taken for an own write.
THEOREM NothingIsOverlooked == Spec => []QuietMeansRecorded
<1>1. IInv => QuietMeansRecorded
  BY DEF IInv, OnItsWay, QuietMeansRecorded
<1> QED
  BY <1>1, Invariance, PTL

\* What the application wrote through GTK is read only after the suppression has lapsed.
THEOREM OwnWritesStayOut == Spec => OwnWritesUnrecorded
<1> DEFINE OwnOnlyLate == \A r \in reads' \ reads : r.content.by = "own" => ~live
<1>1. IInv /\ [Next]_vars => [OwnOnlyLate]_vars
  <2> SUFFICES ASSUME IInv, Next, NEW r \in reads' \ reads, r.content.by = "own"
               PROVE  ~live
    BY DEF OwnOnlyLate
  <2>1. reads' # reads
    OBVIOUS
  <2>2. ReadNow \/ \E q \in reads : Finish(q)
    BY <2>1 DEF Next, Environment, App, Worker, Progress, UserCopies, HelperNotice, Attach, Detach,
       OwnWrite, OwnWriteFails, HelperWrites, HelperUnverified, SuppressLoad,
       SuppressStore, SuppressStamp, Lapse, MayWrite
  <2>3. ReadNow
    BY <2>2 DEF Finish
  <2>4. timer /\ Unexpired = 0 /\ r.content = clip
    BY <2>3 DEF ReadNow
  <2> QED
    BY <2>4 DEF IInv, OwnAnnounced, Unexpired
<1> QED
  BY <1>1, Invariance, PTL DEF Spec, OwnWritesUnrecorded
================================================================================
