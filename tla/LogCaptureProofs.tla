-------------------------- MODULE LogCaptureProofs --------------------------
(***************************************************************************)
(* Theorems about LogCapture for any number of streams, lines and          *)
(* overlapping operations.                                                 *)
(*                                                                         *)
(* First the control: the inductive invariant is TypeOK, PausedIsQuiet,    *)
(* StoppedIsSettled and RecoveryIsUnderWay together.  The first three      *)
(* speak of the tab alone, so each helper of LogCapture gets a lemma that  *)
(* says what it keeps of a good tab; the last relates the tab to the       *)
(* suspended operations.  Then the data: what a step does to the lines     *)
(* captured, helper by helper.  Last, the tab whose operations do not      *)
(* overlap.                                                                *)
(***************************************************************************)
EXTENDS LogCapture, SequenceTheorems, TLAPS

IInv == TypeOK /\ PausedIsQuiet /\ StoppedIsSettled /\ RecoveryIsUnderWay

Typed(t) == t \in Tab /\ Len(t.pending) <= MaxPendingLogs

Good(t) ==
    /\ Typed(t)
    /\ t.state = "paused" => t.pending = <<>>
    /\ t.state = "stopped" => ~t.recovering

\* Nothing left to settle in t.
Settled(t) == t.recovering /\ ~t.disposed => t.recovery # "off"

\* u differs from t in its entries only.
SameControl(t, u) ==
    /\ u.state = t.state /\ u.sub = t.sub
    /\ u.recovery = t.recovery /\ u.interrupted = t.interrupted
    /\ u.recovering = t.recovering /\ u.attempts = t.attempts
    /\ u.disposed = t.disposed

-----------------------------------------------------------------------------
(* What the helpers keep.                                                  *)

LEMMA NewestType ==
    ASSUME NEW s \in Seq(Entries)
    PROVE  Newest(s) \in Seq(Entries)
<1>. DEFINE m == IF Len(s) > Retained THEN Len(s) - Retained + 1 ELSE 1
<1>1. Len(s) \in Nat /\ m \in Int /\ m >= 1
  BY BoundsAssumption
<1>2. \A i \in m .. Len(s) : s[i] \in Entries
  BY <1>1, ElementOfSeq
<1>. HIDE DEF m
<1>3. SubSeq(s, m, Len(s)) \in Seq(Entries)
  BY <1>1, <1>2, SubSeqProperties
<1>. QED  BY <1>3 DEF Newest, m

LEMMA FlushType ==
    ASSUME NEW t, Typed(t)
    PROVE  /\ Typed(FlushPendingLogs(t))
           /\ SameControl(t, FlushPendingLogs(t))
           /\ ~t.disposed => FlushPendingLogs(t).pending = <<>>
           /\ t.pending = <<>> => FlushPendingLogs(t).pending = <<>>
<1>1. t.log \in Seq(Entries) /\ t.pending \in Seq(Lines)
  BY DEF Typed, Tab
<1>2. t.pending \in Seq(Entries)
  BY <1>1, SeqMonotonic DEF Entries
<1>3. t.log \o t.pending \in Seq(Entries)
  BY <1>1, <1>2, ConcatProperties
<1>4. Newest(t.log \o t.pending) \in Seq(Entries)
  BY <1>3, NewestType
<1>5. <<>> \in Seq(Lines) /\ Len(<<>>) = 0 /\ 0 <= MaxPendingLogs
  BY EmptySeq, BoundsAssumption
<1>6. CASE t.disposed
  BY <1>6 DEF FlushPendingLogs, SameControl
<1>7. CASE ~t.disposed
  <2>. DEFINE u == [t EXCEPT !.log = Newest(t.log \o t.pending),
                             !.pending = <<>>]
  <2>1. u \in Tab /\ u.pending = <<>> /\ SameControl(t, u)
    BY <1>4, <1>5 DEF Typed, Tab, SameControl
  <2>2. FlushPendingLogs(t) = u
    BY <1>7 DEF FlushPendingLogs
  <2>. QED  BY <1>5, <2>1, <2>2 DEF Typed
<1>. QED  BY <1>6, <1>7 DEF Typed, Tab

LEMMA AppendImmediateType ==
    ASSUME NEW t, Typed(t), NEW e \in Entries
    PROVE  /\ Typed(AppendImmediate(t, e))
           /\ SameControl(t, AppendImmediate(t, e))
           /\ ~t.disposed => AppendImmediate(t, e).pending = <<>>
           /\ t.pending = <<>> => AppendImmediate(t, e).pending = <<>>
<1>. DEFINE f == FlushPendingLogs(t)
            u == [f EXCEPT !.log = Newest(Append(f.log, e))]
<1>1. /\ Typed(f) /\ SameControl(t, f)
      /\ ~t.disposed => f.pending = <<>>
      /\ t.pending = <<>> => f.pending = <<>>
  BY FlushType
<1>. HIDE DEF f
<1>2. f.log \in Seq(Entries)
  BY <1>1 DEF Typed, Tab
<1>3. Newest(Append(f.log, e)) \in Seq(Entries)
  BY <1>2, NewestType, AppendProperties
<1>4. u \in Tab /\ u.pending = f.pending /\ SameControl(f, u)
  BY <1>1, <1>3 DEF Typed, Tab, SameControl
<1>5. AppendImmediate(t, e) = u
  BY DEF AppendImmediate, f
<1>. QED  BY <1>1, <1>4, <1>5 DEF Typed, SameControl

\* With the control unchanged and the queue no fuller, a good tab stays good.
LEMMA GoodAppended ==
    ASSUME NEW t, Good(t), NEW e \in Entries
    PROVE  /\ Good(AppendImmediate(t, e))
           /\ SameControl(t, AppendImmediate(t, e))
           /\ Good(FlushPendingLogs(t))
           /\ SameControl(t, FlushPendingLogs(t))
  BY AppendImmediateType, FlushType DEF Good, SameControl

LEMMA MarkerType == Marker \in Entries /\ ToolError \in Entries
  BY DEF Entries

LEMMA CancelTimersGood ==
    ASSUME NEW t, Good(t)
    PROVE  /\ Good(CancelTimers(t))
           /\ CancelTimers(t).sub = t.sub
           /\ CancelTimers(t).recovering = t.recovering
           /\ CancelTimers(t).disposed = t.disposed
  BY DEF Good, Typed, Tab, CancelTimers

LEMMA EnterInterruptedGood ==
    ASSUME NEW t, Good(t)
    PROVE  /\ Good(EnterInterruptedState(t))
           /\ ~EnterInterruptedState(t).recovering
<1>. DEFINE u == [t EXCEPT !.recovering = FALSE, !.interrupted = TRUE,
                           !.recovery = "off", !.watchdog = FALSE]
<1>1. Good(u) /\ ~u.recovering
  BY DEF Good, Typed, Tab
<1>2. EnterInterruptedState(t) = AppendImmediate(u, Marker)
  BY DEF EnterInterruptedState
<1>. HIDE DEF u
<1>. QED  BY <1>1, <1>2, GoodAppended, MarkerType DEF SameControl

LEMMA ScheduleRecoveryGood ==
    ASSUME NEW t, Good(t), t.attempts < MaxAutoRecoveryAttempts,
           t.state # "stopped", NEW reconnect \in BOOLEAN
    PROVE  /\ Good(ScheduleRecovery(t, reconnect))
           /\ ScheduleRecovery(t, reconnect).recovery # "off"
<1>1. t.attempts + 1 \in 0 .. MaxAutoRecoveryAttempts
  BY BoundsAssumption DEF Good, Typed, Tab
<1>. QED  BY <1>1 DEF Good, Typed, Tab, ScheduleRecovery

LEMMA MarkStreamRecoveredGood ==
    ASSUME NEW t, Good(t)
    PROVE  /\ Good(MarkStreamRecovered(t))
           /\ MarkStreamRecovered(t).state = t.state
           /\ MarkStreamRecovered(t).disposed = t.disposed
           /\ \/ MarkStreamRecovered(t) = t
              \/ ~MarkStreamRecovered(t).recovering
<1>. DEFINE r == [t EXCEPT !.interrupted = FALSE, !.recovering = FALSE,
                           !.attempts = 0, !.recovery = "off"]
<1>0. 0 \in 0 .. MaxAutoRecoveryAttempts
  BY BoundsAssumption
<1>1. /\ Good(r) /\ ~r.recovering
      /\ r.state = t.state /\ r.disposed = t.disposed
  <2>1. t \in Tab
    BY DEF Good, Typed
  <2>2. r \in Tab /\ ~r.recovering /\ r.state = t.state
        /\ r.disposed = t.disposed /\ r.pending = t.pending
    BY <1>0, <2>1 DEF Tab
  <2>. QED  BY <2>2 DEF Good, Typed
<1>2. \/ MarkStreamRecovered(t) = t
      \/ MarkStreamRecovered(t) = r
      \/ MarkStreamRecovered(t) = AppendImmediate(r, Marker)
  BY DEF MarkStreamRecovered
<1>. HIDE DEF r
<1>3. Good(AppendImmediate(r, Marker)) /\ SameControl(r, AppendImmediate(r, Marker))
  BY <1>1, GoodAppended, MarkerType
<1>. QED  BY <1>1, <1>2, <1>3 DEF SameControl

LEMMA AttachToGood ==
    ASSUME NEW t, Good(t), NEW s \in Streams
    PROVE  /\ Good(AttachTo(t, s))
           /\ AttachTo(t, s).recovering = t.recovering
           /\ AttachTo(t, s).recovery = t.recovery
           /\ AttachTo(t, s).disposed = t.disposed
  BY BoundsAssumption DEF Good, Typed, Tab, AttachTo

-----------------------------------------------------------------------------
(* Tasks.                                                                  *)

StreamType(str) == str \in [Streams -> {"free", "live", "draining"}]

\* Some of the operations ts settles the recovery.
SomeSettles(ts) == \E i \in DOMAIN ts : SettlesRecovery(ts[i])

\* IInv, by the parts the actions write.
GoodState(t, c, str, ts) ==
    /\ Good(t)
    /\ c \in BOOLEAN
    /\ StreamType(str)
    /\ ts \in Seq(Task)
    /\ Settled(t) \/ SomeSettles(ts)

LEMMA IInvParts == IInv <=> GoodState(tab, connected, stream, tasks)
<1>1. Good(tab) <=> tab \in Tab /\ Len(tab.pending) <= MaxPendingLogs
                    /\ PausedIsQuiet /\ StoppedIsSettled
  BY DEF Good, Typed, PausedIsQuiet, StoppedIsSettled
<1>2. Settled(tab) \/ SomeSettles(tasks) <=> RecoveryIsUnderWay
  BY DEF Settled, SomeSettles, RecoveryIsUnderWay
<1>. QED  BY <1>1, <1>2 DEF IInv, TypeOK, StreamType, GoodState

\* The same of the state a step leads to.
LEMMA IInvPartsNext == GoodState(tab', connected', stream', tasks') => IInv'
<1>. SUFFICES ASSUME GoodState(tab', connected', stream', tasks')
              PROVE  IInv'
  OBVIOUS
<1>1. /\ tab' \in Tab /\ Len(tab'.pending) <= MaxPendingLogs
      /\ PausedIsQuiet' /\ StoppedIsSettled'
  BY DEF GoodState, Good, Typed, PausedIsQuiet, StoppedIsSettled
<1>2. RecoveryIsUnderWay'
  BY DEF GoodState, Settled, SomeSettles, RecoveryIsUnderWay
<1>. QED  BY <1>1, <1>2 DEF IInv, TypeOK, StreamType, GoodState

LEMMA AppendTask ==
    ASSUME NEW ts \in Seq(Task), NEW task \in Task
    PROVE  /\ Append(ts, task) \in Seq(Task)
           /\ SettlesRecovery(task) => SomeSettles(Append(ts, task))
           /\ SomeSettles(ts) => SomeSettles(Append(ts, task))
<1>. DEFINE us == Append(ts, task)
<1>1. /\ us \in Seq(Task) /\ Len(us) = Len(ts) + 1 /\ Len(ts) \in Nat
      /\ us[Len(ts) + 1] = task
      /\ \A i \in 1 .. Len(ts) : us[i] = ts[i]
      /\ DOMAIN us = 1 .. Len(us) /\ DOMAIN ts = 1 .. Len(ts)
  BY AppendProperties
<1>. HIDE DEF us
<1>2. Len(ts) + 1 \in DOMAIN us /\ DOMAIN ts \subseteq DOMAIN us
  BY <1>1
<1>. QED  BY <1>1, <1>2 DEF SomeSettles

\* Removing a task leaves the others.
LEMMA RemoveTask ==
    ASSUME NEW ts \in Seq(Task), NEW i \in DOMAIN ts
    PROVE  /\ RemoveAt(ts, i) \in Seq(Task)
           /\ \A k \in DOMAIN ts : k # i =>
                \E j \in DOMAIN RemoveAt(ts, i) : RemoveAt(ts, i)[j] = ts[k]
<1>. DEFINE a == SubSeq(ts, 1, i - 1)
            b == SubSeq(ts, i + 1, Len(ts))
            us == a \o b
<1>1. /\ Len(ts) \in Nat /\ DOMAIN ts = 1 .. Len(ts) /\ i \in 1 .. Len(ts)
      /\ \A k \in 1 .. Len(ts) : ts[k] \in Task
  BY ElementOfSeq
<1>2. /\ a \in Seq(Task) /\ Len(a) = i - 1
      /\ \A k \in 1 .. i - 1 : a[k] = ts[k]
  <2>1. \A k \in 1 .. i - 1 : ts[k] \in Task
    BY <1>1
  <2>2. /\ a \in Seq(Task) /\ Len(a) = IF 1 <= i - 1 THEN i - 1 ELSE 0
        /\ \A k \in 1 .. i - 1 : a[k] = ts[1 + k - 1]
    BY <1>1, <2>1, SubSeqProperties
  <2>. QED  BY <1>1, <2>2
<1>3. /\ b \in Seq(Task) /\ Len(b) = Len(ts) - i
      /\ \A k \in 1 .. Len(ts) - i : b[k] = ts[i + k]
  <2>1. \A k \in i + 1 .. Len(ts) : ts[k] \in Task
    BY <1>1
  <2>2. /\ b \in Seq(Task)
        /\ Len(b) = IF i + 1 <= Len(ts) THEN Len(ts) - (i + 1) + 1 ELSE 0
        /\ \A k \in 1 .. Len(ts) - (i + 1) + 1 : b[k] = ts[i + 1 + k - 1]
    BY <1>1, <2>1, SubSeqProperties
  <2>. QED  BY <1>1, <2>2
<1>. HIDE DEF a, b
<1>4. /\ us \in Seq(Task) /\ Len(us) = Len(ts) - 1
      /\ \A k \in 1 .. Len(us) : us[k] = IF k <= i - 1 THEN a[k] ELSE b[k - (i - 1)]
      /\ DOMAIN us = 1 .. Len(us)
  <2>1. a \in Seq(Task) /\ b \in Seq(Task)
    BY <1>2, <1>3
  <2>2. /\ us \in Seq(Task) /\ Len(us) = Len(a) + Len(b)
        /\ \A k \in 1 .. Len(a) + Len(b) :
              us[k] = IF k <= Len(a) THEN a[k] ELSE b[k - Len(a)]
    BY <2>1, ConcatProperties
  <2>3. Len(a) + Len(b) = Len(ts) - 1
    BY <1>1, <1>2, <1>3
  <2>4. DOMAIN us = 1 .. Len(us)
    BY <2>2
  <2>. HIDE DEF us
  <2>. QED  BY <1>2, <2>2, <2>3, <2>4
<1>5. RemoveAt(ts, i) = us
  BY <1>1 DEF RemoveAt, a, b
<1>. HIDE DEF us
<1>6. ASSUME NEW k \in DOMAIN ts, k # i
      PROVE  \E j \in DOMAIN us : us[j] = ts[k]
  <2>1. CASE k < i
    <3>1. k \in DOMAIN us /\ us[k] = ts[k]
      BY <1>1, <1>2, <1>4, <2>1
    <3>. QED  BY <3>1
  <2>2. CASE k > i
    <3>1. k - 1 \in DOMAIN us /\ us[k - 1] = b[k - i] /\ k - i \in 1 .. Len(ts) - i
      BY <1>1, <1>4, <2>2
    <3>2. b[k - i] = ts[k]
      BY <1>1, <1>3, <3>1
    <3>. QED  BY <3>1, <3>2
  <2>. QED  BY <1>1, <1>6, <2>1, <2>2
<1>. QED  BY <1>4, <1>5, <1>6

\* What settles the recovery still does after another task has ended.
LEMMA RemoveKeepsSettling ==
    ASSUME NEW ts \in Seq(Task), NEW i \in DOMAIN ts, ~SettlesRecovery(ts[i])
    PROVE  SomeSettles(ts) => SomeSettles(RemoveAt(ts, i))
  BY RemoveTask DEF SomeSettles

\* A new operation awaits the cancellation: the tab is t, the operation
\* settles the recovery.
LEMMA AwaitCancelKeeps ==
    ASSUME NEW t, Good(t), NEW str, StreamType(str), NEW rest \in Seq(Task),
           NEW op \in {"start", "stop", "lost", "resume"},
           NEW flag \in BOOLEAN, NEW probe \in BOOLEAN,
           AwaitCancel(t, str, rest, op, flag, probe),
           connected' \in BOOLEAN
    PROVE  IInv'
<1>. DEFINE task == [op |-> op, wait |-> CancelWait(str, t.sub),
                     flag |-> flag, probe |-> probe]
<1>1. t.sub \in Streams \cup {NoStream}
  BY DEF Good, Typed, Tab
<1>2. CancelWait(str, t.sub) \in Streams \cup {Turn}
  BY <1>1 DEF CancelWait
<1>3. task \in Task /\ SettlesRecovery(task)
  BY <1>2, StreamsAssumption DEF Task, Operations, SettlesRecovery
<1>4. tasks' \in Seq(Task) /\ SomeSettles(tasks')
  BY <1>3, AppendTask DEF AwaitCancel
<1>5. StreamType(stream')
  BY <1>1 DEF AwaitCancel, Cancelled, StreamType
<1>6. GoodState(tab', connected', stream', tasks')
  BY <1>4, <1>5 DEF AwaitCancel, GoodState
<1>. QED  BY <1>6, IInvPartsNext

LEMMA LoseStreamKeeps ==
    ASSUME NEW t, Good(t), NEW str, StreamType(str), NEW rest \in Seq(Task),
           NEW stalled \in BOOLEAN, NEW probe \in BOOLEAN,
           LoseStream(t, str, rest, stalled, probe), connected' \in BOOLEAN
    PROVE  IInv'
<1>1. Good(FlushPendingLogs(CancelTimers(t)))
  BY CancelTimersGood, GoodAppended, MarkerType
<1>. QED  BY <1>1, AwaitCancelKeeps DEF LoseStream

LEMMA BeginResumeKeeps ==
    ASSUME NEW t, Good(t), StreamType(stream), tasks \in Seq(Task),
           NEW reconnect \in BOOLEAN, BeginResume(t, reconnect),
           connected' \in BOOLEAN
    PROVE  IInv'
  BY CancelTimersGood, AwaitCancelKeeps DEF BeginResume

LEMMA BeginStartKeeps ==
    ASSUME NEW t, Good(t), StreamType(stream), tasks \in Seq(Task),
           BeginStart(t), connected' \in BOOLEAN
    PROVE  IInv'
  BY CancelTimersGood, AwaitCancelKeeps DEF BeginStart

\* A step of the tab alone that does not begin to recover.
LEMMA TabStepKeeps ==
    ASSUME IInv, Good(tab'), Settled(tab) => Settled(tab'),
           connected' \in BOOLEAN, UNCHANGED <<stream, tasks>>
    PROVE  IInv'
  BY IInvParts, IInvPartsNext DEF GoodState

\* A task ends.  What it leaves is settled, or it was not needed to settle it.
LEMMA FinishKeeps ==
    ASSUME IInv, connected' = connected, NEW i \in DOMAIN tasks,
           NEW t, Good(t),
           \/ Settled(t)
           \/ ~SettlesRecovery(tasks[i]) /\ (Settled(tab) => Settled(t)),
           Finish(i, t) \/ FinishAttached(i, t)
    PROVE  IInv'
<1>1. GoodState(tab, connected, stream, tasks)
  BY IInvParts
<1>2. tasks \in Seq(Task) /\ RemoveAt(tasks, i) \in Seq(Task)
  BY <1>1, RemoveTask DEF GoodState
<1>3. Settled(t) \/ SomeSettles(RemoveAt(tasks, i))
  BY <1>1, <1>2, RemoveKeepsSettling DEF GoodState
<1>4. CASE Finish(i, t)
  BY <1>1, <1>2, <1>3, <1>4, IInvPartsNext DEF Finish, GoodState
<1>5. CASE FinishAttached(i, t)
  <2>1. PICK s \in FreeStreams :
          /\ tab' = AttachTo(t, s)
          /\ stream' = [stream EXCEPT ![s] = "live"]
          /\ tasks' = RemoveAt(tasks, i)
    BY <1>5 DEF FinishAttached
  <2>2. s \in Streams
    BY DEF FreeStreams
  <2>3. Good(tab') /\ (Settled(t) => Settled(tab'))
    BY <2>1, <2>2, AttachToGood DEF Settled
  <2>4. StreamType(stream')
    BY <1>1, <2>1 DEF GoodState, StreamType
  <2>. QED  BY <1>1, <1>2, <1>3, <2>1, <2>3, <2>4, IInvPartsNext DEF GoodState
<1>. QED  BY <1>4, <1>5

LEMMA ReleasedGood ==
    ASSUME Good(tab)
    PROVE  /\ Good(Released)
           /\ Released.recovering = tab.recovering
           /\ Released.recovery = tab.recovery
           /\ Released.state = tab.state
           /\ Released.disposed = tab.disposed
           /\ Released.attempts = tab.attempts
  BY DEF Good, Typed, Tab, Released

-----------------------------------------------------------------------------
(* The steps.                                                              *)

LEMMA UserStep ==
    ASSUME IInv,
           \/ Activate \/ StartLogcat \/ StopLogcat \/ ResumeLiveLogging
           \/ TogglePauseResume \/ ClearLogs \/ Dispose
    PROVE  IInv'
<1>1. GoodState(tab, connected, stream, tasks)
  BY IInvParts
<1>. USE <1>1 DEF GoodState
<1>0. 0 \in 0 .. MaxAutoRecoveryAttempts
  BY BoundsAssumption
<1>2. CASE Activate
  <2>. DEFINE t == [tab EXCEPT !.activated = TRUE]
  <2>1. Good(t) /\ (Settled(tab) => Settled(t))
    BY DEF Good, Typed, Tab, Settled
  <2>2. connected' \in BOOLEAN
    BY <1>2 DEF Activate
  <2>. HIDE DEF t
  <2>3. \/ BeginStart(t)
        \/ tab' = t /\ UNCHANGED <<stream, tasks>>
    BY <1>2 DEF Activate, t
  <2>. QED  BY <2>1, <2>2, <2>3, BeginStartKeeps, TabStepKeeps
<1>3. CASE StartLogcat
  BY <1>3, BeginStartKeeps DEF StartLogcat
<1>4. CASE StopLogcat
  BY <1>4, CancelTimersGood, AwaitCancelKeeps DEF StopLogcat
<1>5. CASE ResumeLiveLogging
  <2>1. Good([tab EXCEPT !.attempts = 0])
    BY <1>0 DEF Good, Typed, Tab
  <2>. QED  BY <1>5, <2>1, BeginResumeKeeps DEF ResumeLiveLogging
<1>6. CASE TogglePauseResume
  <2>. DEFINE running == [tab EXCEPT !.state = "running"]
              paused == [tab EXCEPT !.state = "paused"]
  <2>1. Good(running) /\ (Settled(tab) => Settled(running))
    BY DEF Good, Typed, Tab, Settled
  <2>2. /\ Typed(paused) /\ (Settled(tab) => Settled(paused))
        /\ paused.state = "paused" /\ paused.disposed = tab.disposed
    BY DEF Good, Typed, Tab, Settled
  <2>3. connected' \in BOOLEAN /\ ~tab.disposed
    BY <1>6 DEF TogglePauseResume
  <2>. HIDE DEF running, paused
  <2>4. \/ tab' = AppendImmediate(paused, Marker) /\ UNCHANGED <<stream, tasks>>
        \/ BeginResume(running, FALSE)
        \/ tab' = running /\ UNCHANGED <<stream, tasks>>
        \/ tab' = AppendImmediate(running, Marker) /\ UNCHANGED <<stream, tasks>>
    BY <1>6 DEF TogglePauseResume, running, paused
  <2>5. CASE tab' = AppendImmediate(paused, Marker) /\ UNCHANGED <<stream, tasks>>
    <3>1. /\ Typed(tab') /\ SameControl(paused, tab')
          /\ tab'.pending = <<>>
      BY <2>2, <2>3, <2>5, AppendImmediateType, MarkerType
    <3>2. Good(tab') /\ (Settled(tab) => Settled(tab'))
      BY <2>2, <3>1 DEF Good, SameControl, Settled
    <3>. QED  BY <2>3, <2>5, <3>2, TabStepKeeps
  <2>6. CASE tab' = AppendImmediate(running, Marker) /\ UNCHANGED <<stream, tasks>>
    <3>1. Good(tab') /\ (Settled(tab) => Settled(tab'))
      BY <2>1, <2>6, GoodAppended, MarkerType DEF SameControl, Settled
    <3>. QED  BY <2>3, <2>6, <3>1, TabStepKeeps
  <2>. QED  BY <2>1, <2>3, <2>4, <2>5, <2>6, BeginResumeKeeps, TabStepKeeps
<1>7. CASE ClearLogs
  <2>1. <<>> \in Seq(Lines) /\ <<>> \in Seq(Entries) /\ Len(<<>>) <= MaxPendingLogs
    BY EmptySeq, BoundsAssumption
  <2>2. Good(ClearStoredLogs(tab)) /\ (Settled(tab) => Settled(ClearStoredLogs(tab)))
    BY <2>1 DEF ClearStoredLogs, Good, Typed, Tab, Settled
  <2>. QED  BY <1>7, <2>2, TabStepKeeps DEF ClearLogs
<1>8. CASE Dispose
  <2>. DEFINE c == CancelTimers(tab)
              t == [c EXCEPT !.disposed = TRUE, !.pending = <<>>]
  <2>1. <<>> \in Seq(Lines) /\ Len(<<>>) <= MaxPendingLogs
    BY EmptySeq, BoundsAssumption
  <2>2. Good(c)
    BY CancelTimersGood
  <2>. HIDE DEF c
  <2>3. Good(t) /\ Settled(t)
    BY <2>1, <2>2 DEF Good, Typed, Tab, Settled
  <2>4. StreamType(stream')
    BY <1>8 DEF Dispose, Cancelled, StreamType
  <2>5. tab' = t /\ UNCHANGED <<connected, tasks>>
    BY <1>8 DEF Dispose, c
  <2>. QED  BY <2>3, <2>4, <2>5, IInvPartsNext
<1>. QED  BY <1>2, <1>3, <1>4, <1>5, <1>6, <1>7, <1>8

LEMMA ConnectivityStep ==
    ASSUME IInv, Disconnect \/ Connect
    PROVE  IInv'
<1>1. GoodState(tab, connected, stream, tasks)
  BY IInvParts
<1>. USE <1>1 DEF GoodState
<1>2. connected' \in BOOLEAN
  BY DEF Disconnect, Connect
<1>3. CASE Disconnect
  <2>1. \/ UNCHANGED <<tab, stream, tasks>>
        \/ LoseStream(tab, stream, tasks, FALSE, FALSE)
    BY <1>3 DEF Disconnect
  <2>. QED  BY <1>2, <2>1, LoseStreamKeeps, TabStepKeeps
<1>4. CASE Connect
  <2>. DEFINE t == [tab EXCEPT !.interrupted = FALSE]
  <2>1. Good(t) /\ (Settled(tab) => Settled(t))
    BY DEF Good, Typed, Tab, Settled
  <2>. HIDE DEF t
  <2>2. \/ UNCHANGED <<tab, stream, tasks>>
        \/ BeginResume(tab, FALSE)
        \/ tab' = AppendImmediate(t, Marker) /\ UNCHANGED <<stream, tasks>>
    BY <1>4 DEF Connect, t
  <2>3. Good(AppendImmediate(t, Marker))
        /\ (Settled(tab) => Settled(AppendImmediate(t, Marker)))
    BY <2>1, GoodAppended, MarkerType DEF SameControl, Settled
  <2>. QED  BY <1>2, <2>2, <2>3, BeginResumeKeeps, TabStepKeeps
<1>. QED  BY <1>3, <1>4

LEMMA ReceiveStep ==
    ASSUME IInv, NEW s \in Streams, NEW e \in Lines \cup {ToolError},
           Receive(s, e)
    PROVE  IInv'
<1>. DEFINE t == MarkStreamRecovered(tab)
            q == IF Len(t.pending) >= MaxPendingLogs THEN FlushPendingLogs(t)
                 ELSE t
<1>1. GoodState(tab, connected, stream, tasks)
  BY IInvParts
<1>2. ~tab.disposed /\ UNCHANGED <<connected, stream, tasks>>
  BY DEF Receive
<1>3. /\ Good(t) /\ t.state = tab.state /\ ~t.disposed
      /\ Settled(tab) => Settled(t)
  BY <1>1, <1>2, MarkStreamRecoveredGood DEF GoodState, Settled
<1>. HIDE DEF t
<1>4. /\ Good(q) /\ SameControl(t, q)
      /\ Len(q.pending) < MaxPendingLogs
  <2>1. CASE Len(t.pending) >= MaxPendingLogs
    <3>1. Good(q) /\ SameControl(t, q)
      BY <1>3, <2>1, GoodAppended, MarkerType
    <3>2. q.pending = <<>>
      BY <1>3, <2>1, FlushType DEF Good
    <3>. QED  BY <3>1, <3>2, BoundsAssumption
  <2>2. CASE ~(Len(t.pending) >= MaxPendingLogs)
    <3>1. t.pending \in Seq(Lines)
      BY <1>3 DEF Good, Typed, Tab
    <3>. QED  BY <1>3, <2>2, <3>1, BoundsAssumption DEF SameControl
  <2>. QED  BY <2>1, <2>2
<1>. DEFINE u == [q EXCEPT !.pending = Append(@, e)]
<1>. HIDE DEF q
<1>5. \/ e = ToolError /\ tab' = AppendImmediate(t, e)
      \/ tab' = t
      \/ e # ToolError /\ tab.state # "paused" /\ tab' = u
  BY DEF Receive, t, q, u
<1>6. CASE e = ToolError /\ tab' = AppendImmediate(t, e)
  <2>1. Good(tab') /\ SameControl(t, tab')
    BY <1>3, <1>6, GoodAppended, MarkerType
  <2>2. Settled(tab) => Settled(tab')
    BY <1>3, <2>1 DEF Settled, SameControl
  <2>. QED  BY <1>1, <1>2, <2>1, <2>2, TabStepKeeps DEF GoodState
<1>7. CASE tab' = t
  BY <1>1, <1>2, <1>3, <1>7, TabStepKeeps DEF GoodState
<1>8. CASE e # ToolError /\ tab.state # "paused" /\ tab' = u
  <2>1. q \in Tab /\ q.pending \in Seq(Lines)
    BY <1>4 DEF Good, Typed, Tab
  <2>2. /\ Append(q.pending, e) \in Seq(Lines)
        /\ Len(Append(q.pending, e)) <= MaxPendingLogs
    BY <1>4, <1>8, <2>1, AppendProperties, BoundsAssumption
  <2>3. u \in Tab /\ u.pending = Append(q.pending, e) /\ SameControl(q, u)
    BY <2>1, <2>2 DEF Tab, SameControl
  <2>4. Good(u)
    BY <1>3, <1>4, <1>8, <2>2, <2>3 DEF Good, Typed, SameControl
  <2>5. Settled(tab) => Settled(u)
    BY <1>3, <1>4, <2>3 DEF Settled, SameControl
  <2>. QED  BY <1>1, <1>2, <1>8, <2>4, <2>5, TabStepKeeps DEF GoodState
<1>. QED  BY <1>5, <1>6, <1>7, <1>8

LEMMA StreamStep ==
    ASSUME IInv, NEW s \in Streams, StreamEnds(s) \/ CancelCompletes(s)
    PROVE  IInv'
<1>1. GoodState(tab, connected, stream, tasks)
  BY IInvParts
<1>2. CASE StreamEnds(s)
  <2>. DEFINE ended == [stream EXCEPT ![s] = "free"]
  <2>1. StreamType(ended) /\ connected' \in BOOLEAN
    BY <1>1, <1>2 DEF StreamEnds, StreamType, GoodState
  <2>2. CASE LoseStream(tab, ended, tasks, FALSE, FALSE)
    BY <1>1, <2>1, <2>2, LoseStreamKeeps DEF GoodState
  <2>3. CASE stream' = ended /\ UNCHANGED <<tab, tasks>>
    BY <1>1, <2>1, <2>3, IInvPartsNext DEF GoodState
  <2>. QED  BY <1>2, <2>2, <2>3 DEF StreamEnds
<1>3. CASE CancelCompletes(s)
  <2>. DEFINE Due(k) == IF tasks[k].wait = s
                        THEN [tasks[k] EXCEPT !.wait = Turn] ELSE tasks[k]
              ts == [k \in DOMAIN tasks |-> Due(k)]
  <2>1. /\ tasks \in Seq(Task) /\ DOMAIN tasks = 1 .. Len(tasks)
        /\ Len(tasks) \in Nat /\ \A k \in 1 .. Len(tasks) : tasks[k] \in Task
    BY <1>1, ElementOfSeq DEF GoodState
  <2>2. \A k \in DOMAIN tasks :
          Due(k) \in Task /\ (SettlesRecovery(tasks[k]) => SettlesRecovery(Due(k)))
    BY <2>1, StreamsAssumption DEF Task, SettlesRecovery
  <2>. HIDE DEF Due
  <2>3. ts \in Seq(Task)
    BY <2>1, <2>2, IsASeq
  <2>4. SomeSettles(tasks) => SomeSettles(ts)
    BY <2>2 DEF SomeSettles
  <2>5. StreamType(stream')
    BY <1>1, <1>3 DEF CancelCompletes, StreamType, GoodState
  <2>6. tasks' = ts /\ UNCHANGED <<tab, connected>>
    BY <1>3 DEF CancelCompletes, Due
  <2>. QED  BY <1>1, <2>3, <2>4, <2>5, <2>6, IInvPartsNext DEF GoodState
<1>. QED  BY <1>2, <1>3

LEMMA TimerStep ==
    ASSUME IInv, FlushTick \/ WatchdogTick \/ RecoveryTimerFires
    PROVE  IInv'
<1>1. GoodState(tab, connected, stream, tasks)
  BY IInvParts
<1>2. CASE FlushTick
  <2>1. Good(tab') /\ (Settled(tab) => Settled(tab'))
    BY <1>1, <1>2, GoodAppended, MarkerType
    DEF FlushTick, GoodState, Settled, SameControl
  <2>. QED  BY <1>1, <1>2, <2>1, TabStepKeeps DEF FlushTick, GoodState
<1>3. CASE WatchdogTick
  <2>. DEFINE task == [op |-> "probe", wait |-> "ping",
                       flag |-> FALSE, probe |-> FALSE]
  <2>1. Good(tab') /\ (Settled(tab) => Settled(tab'))
    BY <1>1, <1>3 DEF WatchdogTick, GoodState, Good, Typed, Tab, Settled
  <2>2. task \in Task
    BY DEF Task, Operations
  <2>3. tasks' = Append(tasks, task) /\ UNCHANGED <<connected, stream>>
    BY <1>3 DEF WatchdogTick
  <2>. QED  BY <1>1, <2>1, <2>2, <2>3, AppendTask, IInvPartsNext DEF GoodState
<1>4. CASE RecoveryTimerFires
  <2>. DEFINE t == [tab EXCEPT !.recovery = "off"]
              again == tab.recovery = "reconnect"
              task == [op |-> "recovery", flag |-> again, probe |-> FALSE,
                       wait |-> IF again THEN "reconnect" ELSE "ping"]
  <2>1. Good(t) /\ t.state = tab.state /\ t.recovering = tab.recovering
    BY <1>1 DEF GoodState, Good, Typed, Tab
  <2>2. UNCHANGED <<connected, stream>>
    BY <1>4 DEF RecoveryTimerFires
  <2>3. task \in Task /\ SettlesRecovery(task)
    BY DEF Task, Operations, SettlesRecovery
  <2>. HIDE DEF t, task
  <2>4. \/ tab.state = "stopped" /\ tab' = t /\ tasks' = tasks
        \/ tab' = EnterInterruptedState(t) /\ tasks' = tasks
        \/ tab' = t /\ tasks' = Append(tasks, task)
    BY <1>4 DEF RecoveryTimerFires, t, task
  <2>5. CASE tab.state = "stopped" /\ tab' = t /\ tasks' = tasks
    <3>1. Settled(t)
      BY <1>1, <2>1, <2>5 DEF GoodState, Good, Settled
    <3>. QED  BY <1>1, <2>1, <2>2, <2>5, <3>1, IInvPartsNext DEF GoodState
  <2>6. CASE tab' = EnterInterruptedState(t) /\ tasks' = tasks
    BY <1>1, <2>1, <2>2, <2>6, EnterInterruptedGood, IInvPartsNext
    DEF GoodState, Settled
  <2>7. CASE tab' = t /\ tasks' = Append(tasks, task)
    BY <1>1, <2>1, <2>2, <2>3, <2>7, AppendTask, IInvPartsNext DEF GoodState
  <2>. QED  BY <2>4, <2>5, <2>6, <2>7
<1>. QED  BY <1>2, <1>3, <1>4

LEMMA TurnStep ==
    ASSUME IInv, TakeTurn
    PROVE  IInv'
<1>1. GoodState(tab, connected, stream, tasks)
  BY IInvParts
<1>2. connected' = connected
  BY DEF TakeTurn
<1>3. PICK i \in DOMAIN tasks :
        ContinueStart(i) \/ ContinueStop(i) \/ ContinueResume(i) \/ ContinueLost(i)
  BY DEF TakeTurn, Ready
<1>4. /\ Good(Released) /\ Released.recovering = tab.recovering
      /\ Released.recovery = tab.recovery /\ Released.state = tab.state
      /\ Released.disposed = tab.disposed /\ Released.attempts = tab.attempts
      /\ Released \in Tab
  BY <1>1, ReleasedGood DEF GoodState, Good, Typed
<1>5. tab.disposed => Settled(Released)
  BY <1>4 DEF Settled
<1>6. /\ <<>> \in Seq(Lines) /\ <<>> \in Seq(Entries)
      /\ Len(<<>>) <= MaxPendingLogs /\ 0 \in 0 .. MaxAutoRecoveryAttempts
  BY EmptySeq, BoundsAssumption
<1>7. tasks[i] \in Task
  BY <1>1, ElementOfSeq DEF GoodState
<1>8. CASE ContinueStart(i)
  <2>. DEFINE t == [ClearStoredLogs(Released) EXCEPT
                      !.state = "running", !.interrupted = FALSE,
                      !.recovering = FALSE, !.attempts = 0]
  <2>1. Good(t) /\ ~t.recovering
    BY <1>4, <1>6 DEF Good, Typed, Tab, ClearStoredLogs
  <2>2. \/ tab.disposed /\ Finish(i, Released)
        \/ FinishAttached(i, AppendImmediate(t, Marker))
    BY <1>8 DEF ContinueStart
  <2>. HIDE DEF t
  <2>3. Good(AppendImmediate(t, Marker)) /\ Settled(AppendImmediate(t, Marker))
    BY <2>1, GoodAppended, MarkerType DEF Settled, SameControl
  <2>. QED  BY <1>2, <1>4, <1>5, <2>2, <2>3, FinishKeeps
<1>9. CASE ContinueStop(i)
  <2>. DEFINE t == [Released EXCEPT !.state = "stopped", !.interrupted = FALSE,
                                    !.recovering = FALSE, !.attempts = 0]
  <2>1. Good(t) /\ ~t.recovering
    BY <1>4, <1>6 DEF Good, Typed, Tab
  <2>2. \/ tab.disposed /\ Finish(i, Released)
        \/ Finish(i, AppendImmediate(t, Marker))
    BY <1>9 DEF ContinueStop
  <2>. HIDE DEF t
  <2>3. Good(AppendImmediate(t, Marker)) /\ Settled(AppendImmediate(t, Marker))
    BY <2>1, GoodAppended, MarkerType DEF Settled, SameControl
  <2>. QED  BY <1>2, <1>4, <1>5, <2>2, <2>3, FinishKeeps
<1>10. CASE ContinueResume(i)
  <2>. DEFINE f == FlushPendingLogs(Released)
              t == [f EXCEPT !.state = "running", !.recovering = FALSE,
                             !.attempts = 0]
              u == [t EXCEPT !.interrupted = FALSE]
  <2>1. Good(f)
    BY <1>4, GoodAppended, MarkerType
  <2>. HIDE DEF f
  <2>2. Good(t) /\ ~t.recovering /\ Good(u) /\ ~u.recovering
    BY <1>6, <2>1 DEF Good, Typed, Tab
  <2>3. \/ tab.disposed /\ Finish(i, Released)
        \/ Await(i, t, "reconnect")
        \/ FinishAttached(i, AppendImmediate(u, Marker))
    BY <1>10 DEF ContinueResume, Reattach, f
  <2>. HIDE DEF t, u
  <2>4. Good(AppendImmediate(u, Marker)) /\ Settled(AppendImmediate(u, Marker))
    BY <2>2, GoodAppended, MarkerType DEF Settled, SameControl
  <2>5. CASE Await(i, t, "reconnect")
    <3>1. [tasks[i] EXCEPT !.wait = "reconnect"] \in Task
      BY <1>7 DEF Task
    <3>2. tasks' \in Seq(Task)
      BY <1>1, <2>5, <3>1, RemoveTask, AppendTask DEF Await, GoodState
    <3>. QED  BY <1>1, <1>2, <2>2, <2>5, <3>2, IInvPartsNext
              DEF Await, GoodState, Settled
  <2>. QED  BY <1>2, <1>4, <1>5, <2>3, <2>4, <2>5, FinishKeeps
<1>11. CASE ContinueLost(i)
  <2>. DEFINE t == IF tasks[i].probe THEN [Released EXCEPT !.probing = FALSE]
                   ELSE Released
              reconnect == tasks[i].flag \/ tab.attempts >= 1
  <2>1. /\ Good(t) /\ t.recovering = tab.recovering
        /\ t.state = tab.state /\ t.disposed = tab.disposed
        /\ t.attempts = tab.attempts
    BY <1>4 DEF Good, Typed, Tab
  <2>2. reconnect \in BOOLEAN
    BY <1>7 DEF Task
  <2>. HIDE DEF t, reconnect
  <2>3. \/ (tab.disposed \/ tab.state = "stopped") /\ Finish(i, t)
        \/ Finish(i, EnterInterruptedState(t))
        \/ /\ tab.state # "stopped"
           /\ ~(tab.attempts >= MaxAutoRecoveryAttempts)
           /\ Finish(i, ScheduleRecovery(t, reconnect))
    BY <1>11 DEF ContinueLost, t, reconnect
  <2>4. CASE (tab.disposed \/ tab.state = "stopped") /\ Finish(i, t)
    <3>1. Settled(t)
      BY <2>1, <2>4 DEF Good, Settled
    <3>. QED  BY <1>2, <2>1, <2>4, <3>1, FinishKeeps
  <2>5. CASE Finish(i, EnterInterruptedState(t))
    <3>1. Good(EnterInterruptedState(t)) /\ Settled(EnterInterruptedState(t))
      BY <2>1, EnterInterruptedGood DEF Settled
    <3>. QED  BY <1>2, <2>5, <3>1, FinishKeeps
  <2>6. CASE /\ tab.state # "stopped"
             /\ ~(tab.attempts >= MaxAutoRecoveryAttempts)
             /\ Finish(i, ScheduleRecovery(t, reconnect))
    <3>1. t.attempts < MaxAutoRecoveryAttempts
      BY <2>1, <2>6, BoundsAssumption DEF Good, Typed, Tab
    <3>2. /\ Good(ScheduleRecovery(t, reconnect))
          /\ Settled(ScheduleRecovery(t, reconnect))
      BY <2>1, <2>2, <2>6, <3>1, ScheduleRecoveryGood DEF Settled
    <3>. QED  BY <1>2, <2>6, <3>2, FinishKeeps
  <2>. QED  BY <2>3, <2>4, <2>5, <2>6
<1>. QED  BY <1>3, <1>8, <1>9, <1>10, <1>11

LEMMA ReconnectStep ==
    ASSUME IInv, ReconnectReturns
    PROVE  IInv'
<1>1. GoodState(tab, connected, stream, tasks)
  BY IInvParts
<1>2. connected' = connected
  BY DEF ReconnectReturns
<1>3. PICK i \in DOMAIN tasks :
        /\ tasks[i].wait = "reconnect"
        /\ \/ tasks[i].op = "resume" /\ (Finish(i, tab) \/ Reattach(i, tab))
           \/ /\ tasks[i].op = "recovery"
              /\ \/ /\ tab.disposed \/ tab.state = "stopped"
                    /\ Finish(i, tab)
                 \/ Await(i, tab, "ping")
  BY DEF ReconnectReturns
<1>4. CASE tasks[i].op = "resume" /\ (Finish(i, tab) \/ Reattach(i, tab))
  <2>. DEFINE u == [tab EXCEPT !.interrupted = FALSE]
  <2>1. Good(u) /\ (Settled(tab) => Settled(u))
    BY <1>1 DEF GoodState, Good, Typed, Tab, Settled
  <2>2. ~SettlesRecovery(tasks[i])
    BY <1>3, <1>4 DEF SettlesRecovery
  <2>3. Finish(i, tab) \/ FinishAttached(i, AppendImmediate(u, Marker))
    BY <1>4 DEF Reattach
  <2>. HIDE DEF u
  <2>4. /\ Good(AppendImmediate(u, Marker))
        /\ Settled(tab) => Settled(AppendImmediate(u, Marker))
    BY <2>1, GoodAppended, MarkerType DEF Settled, SameControl
  <2>. QED  BY <1>1, <1>2, <2>2, <2>3, <2>4, FinishKeeps DEF GoodState
<1>5. CASE /\ tab.disposed \/ tab.state = "stopped"
           /\ Finish(i, tab)
  <2>1. Good(tab) /\ Settled(tab)
    BY <1>1, <1>5 DEF GoodState, Good, Settled
  <2>. QED  BY <1>2, <1>5, <2>1, FinishKeeps
<1>6. CASE tasks[i].op = "recovery" /\ Await(i, tab, "ping")
  <2>. DEFINE task == [tasks[i] EXCEPT !.wait = "ping"]
  <2>1. tasks[i] \in Task
    BY <1>1, ElementOfSeq DEF GoodState
  <2>2. task \in Task /\ SettlesRecovery(task)
    BY <1>6, <2>1 DEF Task, SettlesRecovery
  <2>3. RemoveAt(tasks, i) \in Seq(Task)
    BY <1>1, RemoveTask DEF GoodState
  <2>4. tasks' = Append(RemoveAt(tasks, i), task) /\ UNCHANGED <<tab, stream>>
    BY <1>6 DEF Await
  <2>. HIDE DEF task
  <2>. QED  BY <1>1, <1>2, <2>2, <2>3, <2>4, AppendTask, IInvPartsNext
            DEF GoodState
<1>. QED  BY <1>3, <1>4, <1>5, <1>6

LEMMA PingStep ==
    ASSUME IInv, PingAnswers
    PROVE  IInv'
<1>1. GoodState(tab, connected, stream, tasks)
  BY IInvParts
<1>2. connected' = connected
  BY DEF PingAnswers
<1>3. PICK i \in DOMAIN tasks, alive \in BOOLEAN :
        ProbeAnswered(i, alive) \/ RecoveryAnswered(i, alive)
  BY DEF PingAnswers
<1>4. CASE ProbeAnswered(i, alive)
  <2>. DEFINE t == [tab EXCEPT !.probing = FALSE]
  <2>1. Good(t) /\ (Settled(tab) => Settled(t))
    BY <1>1 DEF GoodState, Good, Typed, Tab, Settled
  <2>2. ~SettlesRecovery(tasks[i])
    BY <1>4 DEF ProbeAnswered, SettlesRecovery
  <2>3. \/ Finish(i, t)
        \/ LoseStream(tab, stream, RemoveAt(tasks, i), TRUE, TRUE)
    BY <1>4 DEF ProbeAnswered
  <2>. HIDE DEF t
  <2>4. RemoveAt(tasks, i) \in Seq(Task)
    BY <1>1, RemoveTask DEF GoodState
  <2>5. CASE Finish(i, t)
    BY <1>2, <2>1, <2>2, <2>5, FinishKeeps
  <2>6. CASE LoseStream(tab, stream, RemoveAt(tasks, i), TRUE, TRUE)
    BY <1>1, <1>2, <2>4, <2>6, LoseStreamKeeps DEF GoodState
  <2>. QED  BY <2>3, <2>5, <2>6
<1>5. CASE RecoveryAnswered(i, alive)
  <2>. DEFINE u == [tab EXCEPT !.recovering = FALSE]
  <2>1. Good(tab) /\ Good(u) /\ ~u.recovering
    BY <1>1 DEF GoodState, Good, Typed, Tab
  <2>2. \/ (tab.disposed \/ tab.state = "stopped") /\ Finish(i, tab)
        \/ /\ tab.state # "stopped" /\ tab.attempts < MaxAutoRecoveryAttempts
           /\ Finish(i, ScheduleRecovery(tab, TRUE))
        \/ Finish(i, EnterInterruptedState(tab))
        \/ FinishAttached(i, AppendImmediate(u, Marker))
    BY <1>5 DEF RecoveryAnswered
  <2>. HIDE DEF u
  <2>3. CASE (tab.disposed \/ tab.state = "stopped") /\ Finish(i, tab)
    <3>1. Settled(tab)
      BY <2>1, <2>3 DEF Good, Settled
    <3>. QED  BY <1>2, <2>1, <2>3, <3>1, FinishKeeps
  <2>4. CASE /\ tab.state # "stopped" /\ tab.attempts < MaxAutoRecoveryAttempts
             /\ Finish(i, ScheduleRecovery(tab, TRUE))
    <3>1. /\ Good(ScheduleRecovery(tab, TRUE))
          /\ Settled(ScheduleRecovery(tab, TRUE))
      BY <2>1, <2>4, ScheduleRecoveryGood DEF Settled
    <3>. QED  BY <1>2, <2>4, <3>1, FinishKeeps
  <2>5. CASE Finish(i, EnterInterruptedState(tab))
    <3>1. Good(EnterInterruptedState(tab)) /\ Settled(EnterInterruptedState(tab))
      BY <2>1, EnterInterruptedGood DEF Settled
    <3>. QED  BY <1>2, <2>5, <3>1, FinishKeeps
  <2>6. CASE FinishAttached(i, AppendImmediate(u, Marker))
    <3>1. Good(AppendImmediate(u, Marker)) /\ Settled(AppendImmediate(u, Marker))
      BY <2>1, GoodAppended, MarkerType DEF Settled, SameControl
    <3>. QED  BY <1>2, <2>6, <3>1, FinishKeeps
  <2>. QED  BY <2>2, <2>3, <2>4, <2>5, <2>6
<1>. QED  BY <1>3, <1>4, <1>5

LEMMA InitIInv == Init => IInv
<1>. SUFFICES ASSUME Init PROVE IInv
  OBVIOUS
<1>1. /\ <<>> \in Seq(Lines) /\ <<>> \in Seq(Entries) /\ <<>> \in Seq(Task)
      /\ Len(<<>>) <= MaxPendingLogs /\ 0 \in 0 .. MaxAutoRecoveryAttempts
  BY EmptySeq, BoundsAssumption
<1>2. Good(tab) /\ ~tab.recovering
  BY <1>1 DEF Init, Good, Typed, Tab
<1>3. StreamType(stream) /\ connected \in BOOLEAN /\ tasks \in Seq(Task)
  BY <1>1 DEF Init, StreamType
<1>. QED  BY <1>2, <1>3, IInvParts DEF GoodState, Settled

LEMMA StepIInv == IInv /\ [Next]_vars => IInv'
<1>. SUFFICES ASSUME IInv, [Next]_vars PROVE IInv'
  OBVIOUS
<1>1. CASE UNCHANGED vars
  BY <1>1, IInvParts, IInvPartsNext DEF vars
<1>2. CASE \/ Activate \/ StartLogcat \/ StopLogcat \/ ResumeLiveLogging
           \/ TogglePauseResume \/ ClearLogs \/ Dispose
  BY <1>2, UserStep
<1>3. CASE Disconnect \/ Connect
  BY <1>3, ConnectivityStep
<1>4. CASE \E s \in Streams, e \in Lines \cup {ToolError} : Receive(s, e)
  BY <1>4, ReceiveStep
<1>5. CASE \E s \in Streams : StreamEnds(s) \/ CancelCompletes(s)
  BY <1>5, StreamStep
<1>6. CASE FlushTick \/ WatchdogTick \/ RecoveryTimerFires
  BY <1>6, TimerStep
<1>7. CASE TakeTurn
  BY <1>7, TurnStep
<1>8. CASE ReconnectReturns
  BY <1>8, ReconnectStep
<1>9. CASE PingAnswers
  BY <1>9, PingStep
<1>. QED  BY <1>1, <1>2, <1>3, <1>4, <1>5, <1>6, <1>7, <1>8, <1>9 DEF Next

-----------------------------------------------------------------------------
(* The theorems.                                                           *)

THEOREM Invariance == Spec => []IInv
  BY InitIInv, StepIInv, PTL DEF Spec

\* The controller's fields, streams and operations keep their types: among
\* them, the recovery counter never passes its maximum (so the automatic
\* retries are a bounded ladder) and the queue never passes its limit.
THEOREM TypeCorrect == Spec => []TypeOK
<1>1. IInv => TypeOK
  BY DEF IInv
<1>. QED  BY <1>1, Invariance, PTL

\* A paused tab has an empty queue, however many lines were queued when it
\* was paused and whatever streams still deliver: the flush timer, which is
\* not stopped, shows nothing after the "paused" marker.
THEOREM PausedTabIsQuiet == Spec => []PausedIsQuiet
<1>1. IInv => PausedIsQuiet
  BY DEF IInv
<1>. QED  BY <1>1, Invariance, PTL

\* Whatever operations overlap, a tab that says it is recovering has the
\* recovery timer armed or an operation under way that will settle it.
THEOREM RecoveryIsNeverForgotten == Spec => []RecoveryIsUnderWay
<1>1. IInv => RecoveryIsUnderWay
  BY DEF IInv
<1>. QED  BY <1>1, Invariance, PTL

\* A stopped tab does not go on recovering.
THEOREM StoppedTabIsSettled == Spec => []StoppedIsSettled
<1>1. IInv => StoppedIsSettled
  BY DEF IInv
<1>. QED  BY <1>1, Invariance, PTL

-----------------------------------------------------------------------------
(* The order of what is captured.                                          *)

\* u is s after at most n more entries and the loss of old ones: the witness
\* is the number m of entries added and the number d of old ones dropped.
Follows(u, s, n) ==
    \E m \in 0 .. n, d \in Nat :
        /\ Len(u) = Len(s) + m - d
        /\ Len(u) >= IF Len(s) < Retained THEN Len(s) ELSE Retained
        /\ \A j \in 1 .. Len(u) : j + d <= Len(s) => u[j] = s[j + d]

\* A function on 1 .. n is a sequence.
LEMMA Function ==
    ASSUME NEW S, NEW n \in Nat, NEW f \in [1 .. n -> S]
    PROVE  f \in Seq(S) /\ Len(f) = n /\ DOMAIN f = 1 .. n
  OBVIOUS

LEMMA FollowsItself ==
    ASSUME NEW s \in Seq(Entries)
    PROVE  Follows(s, s, 0)
<1>1. Len(s) \in Nat
  OBVIOUS
<1>2. \A j \in 1 .. Len(s) : s[j] = s[j + 0]
  BY <1>1
<1>3. 0 \in 0 .. 0 /\ 0 \in Nat /\ Len(s) = Len(s) + 0 - 0
  BY <1>1
<1>4. Len(s) >= IF Len(s) < Retained THEN Len(s) ELSE Retained
  BY <1>1, BoundsAssumption
<1>. QED  BY <1>2, <1>3, <1>4 DEF Follows

LEMMA FollowsMore ==
    ASSUME NEW u, NEW s, NEW n \in Nat, NEW k \in Nat, n <= k, Follows(u, s, n)
    PROVE  Follows(u, s, k)
<1>1. 0 .. n \subseteq 0 .. k
  OBVIOUS
<1>. QED  BY <1>1 DEF Follows

LEMMA FollowsThen ==
    ASSUME NEW s \in Seq(Entries), NEW t \in Seq(Entries), NEW u \in Seq(Entries),
           NEW n \in Nat, NEW k \in Nat, Follows(t, s, n), Follows(u, t, k)
    PROVE  Follows(u, s, n + k)
<1>0. Len(s) \in Nat /\ Len(t) \in Nat /\ Len(u) \in Nat /\ Retained \in Nat
  BY BoundsAssumption
<1>1. PICK m1 \in 0 .. n, d1 \in Nat :
          /\ Len(t) = Len(s) + m1 - d1
          /\ Len(t) >= IF Len(s) < Retained THEN Len(s) ELSE Retained
          /\ \A j \in 1 .. Len(t) : j + d1 <= Len(s) => t[j] = s[j + d1]
  BY DEF Follows
<1>2. PICK m2 \in 0 .. k, d2 \in Nat :
          /\ Len(u) = Len(t) + m2 - d2
          /\ Len(u) >= IF Len(t) < Retained THEN Len(t) ELSE Retained
          /\ \A j \in 1 .. Len(u) : j + d2 <= Len(t) => u[j] = t[j + d2]
  BY DEF Follows
<1>3. m1 + m2 \in 0 .. n + k /\ d1 + d2 \in Nat /\ Len(u) = Len(s) + (m1 + m2) - (d1 + d2)
  BY <1>0, <1>1, <1>2
<1>4. Len(u) >= IF Len(s) < Retained THEN Len(s) ELSE Retained
  BY <1>0, <1>1, <1>2
<1>5. ASSUME NEW j \in 1 .. Len(u), j + (d1 + d2) <= Len(s)
      PROVE  u[j] = s[j + (d1 + d2)]
  <2>1. j + d2 <= Len(t) /\ j + d2 \in 1 .. Len(t) /\ (j + d2) + d1 <= Len(s)
    BY <1>0, <1>1, <1>2, <1>5
  <2>2. u[j] = t[j + d2]
    BY <1>2, <2>1
  <2>3. t[j + d2] = s[(j + d2) + d1]
    BY <1>1, <2>1
  <2>4. (j + d2) + d1 = j + (d1 + d2)
    BY <1>0
  <2>. QED  BY <2>2, <2>3, <2>4
<1>. QED  BY <1>3, <1>4, <1>5 DEF Follows

LEMMA FollowsNewest ==
    ASSUME NEW s \in Seq(Entries)
    PROVE  Follows(Newest(s), s, 0)
<1>. DEFINE m == IF Len(s) > Retained THEN Len(s) - Retained + 1 ELSE 1
            u == SubSeq(s, m, Len(s))
<1>1. Len(s) \in Nat /\ Retained \in Nat /\ m \in Int /\ m >= 1 /\ m <= Len(s) + 1
  BY BoundsAssumption
<1>2. \A i \in m .. Len(s) : s[i] \in Entries
  BY <1>1, ElementOfSeq
<1>3. Len(s) - m + 1 >= IF Len(s) < Retained THEN Len(s) ELSE Retained
  <2>1. CASE Len(s) > Retained
    BY <1>1, <2>1
  <2>2. CASE ~(Len(s) > Retained)
    BY <1>1, <2>2
  <2>. QED  BY <2>1, <2>2
<1>. HIDE DEF m
<1>4. /\ Len(u) = IF m <= Len(s) THEN Len(s) - m + 1 ELSE 0
      /\ \A j \in 1 .. Len(s) - m + 1 : u[j] = s[m + j - 1]
  BY <1>1, <1>2, SubSeqProperties
<1>. HIDE DEF u
<1>5. Len(u) = Len(s) - m + 1
  BY <1>1, <1>4
<1>6. \A j \in 1 .. Len(u) : u[j] = s[j + (m - 1)]
  <2>1. ASSUME NEW j \in 1 .. Len(u) PROVE m + j - 1 = j + (m - 1)
    BY <1>1, <1>5
  <2>. QED  BY <1>4, <1>5, <2>1
<1>7. m - 1 \in Nat /\ 0 \in 0 .. 0 /\ Len(u) = Len(s) + 0 - (m - 1)
  BY <1>1, <1>5
<1>8. Len(u) >= IF Len(s) < Retained THEN Len(s) ELSE Retained
  BY <1>3, <1>5
<1>9. Newest(s) = u
  BY DEF Newest, u, m
<1>. QED  BY <1>6, <1>7, <1>8, <1>9 DEF Follows

LEMMA FollowsAppend ==
    ASSUME NEW s \in Seq(Entries), NEW e \in Entries
    PROVE  Follows(Append(s, e), s, 1)
<1>. DEFINE u == Append(s, e)
<1>1. Len(s) \in Nat /\ Len(u) = Len(s) + 1 /\ \A j \in 1 .. Len(s) : u[j] = s[j]
  BY AppendProperties
<1>. HIDE DEF u
<1>2. \A j \in 1 .. Len(u) : j + 0 <= Len(s) => u[j] = s[j + 0]
  BY <1>1
<1>3. 1 \in 0 .. 1 /\ 0 \in Nat /\ Len(u) = Len(s) + 1 - 0
  BY <1>1
<1>4. Len(u) >= IF Len(s) < Retained THEN Len(s) ELSE Retained
  BY <1>1, BoundsAssumption
<1>. QED  BY <1>2, <1>3, <1>4 DEF Follows, u

LEMMA FollowsExtends ==
    ASSUME NEW s \in Seq(Entries), NEW u \in Seq(Entries), NEW n \in Nat, Follows(u, s, n)
    PROVE  Extends(u, s, n)
<1>0. Len(s) \in Nat /\ Len(u) \in Nat
  OBVIOUS
<1>1. PICK m \in 0 .. n, d \in Nat :
          /\ Len(u) = Len(s) + m - d
          /\ Len(u) >= IF Len(s) < Retained THEN Len(s) ELSE Retained
          /\ \A j \in 1 .. Len(u) : j + d <= Len(s) => u[j] = s[j + d]
  BY DEF Follows
<1>. DEFINE more == [k \in 1 .. m |-> IF k + Len(s) > d THEN u[k + Len(s) - d] ELSE Marker]
            q == s \o more
<1>2. more \in [1 .. m -> Entries]
  <2>1. ASSUME NEW k \in 1 .. m, k + Len(s) > d PROVE u[k + Len(s) - d] \in Entries
    <3>1. k + Len(s) - d \in 1 .. Len(u)
      BY <1>0, <1>1, <2>1
    <3>. QED  BY <3>1, ElementOfSeq
  <2>. QED  BY <2>1, MarkerType
<1>3. more \in Seq(Entries) /\ Len(more) = m
  <2>1. m \in Nat
    OBVIOUS
  <2>. HIDE DEF more
  <2>. QED  BY <1>2, <2>1, Function
<1>a. \A k \in 1 .. m : more[k] = IF k + Len(s) > d THEN u[k + Len(s) - d] ELSE Marker
  OBVIOUS
<1>. HIDE DEF more
<1>4. /\ q \in Seq(Entries) /\ Len(q) = Len(s) + m
      /\ \A k \in 1 .. Len(s) + m : q[k] = IF k <= Len(s) THEN s[k] ELSE more[k - Len(s)]
  BY <1>3, ConcatProperties
<1>. HIDE DEF q
<1>5. ASSUME NEW j \in 1 .. Len(u) PROVE u[j] = q[j + d]
  <2>1. j + d \in 1 .. Len(s) + m
    BY <1>0, <1>1, <1>5
  <2>2. CASE j + d <= Len(s)
    BY <1>1, <1>4, <2>1, <2>2
  <2>3. CASE ~(j + d <= Len(s))
    <3>1. /\ (j + d) - Len(s) \in 1 .. m /\ ((j + d) - Len(s)) + Len(s) > d
          /\ ((j + d) - Len(s)) + Len(s) - d = j
      BY <1>0, <1>1, <2>1, <2>3
    <3>2. more[(j + d) - Len(s)] = u[j]
      BY <1>a, <3>1
    <3>3. q[j + d] = more[(j + d) - Len(s)]
      BY <1>4, <2>1, <2>3
    <3>. QED  BY <3>2, <3>3
  <2>. QED  BY <2>2, <2>3
<1>6. IsSuffix(u, q)
  <2>. DEFINE ru == Reverse(u)
              rq == Reverse(q)
  <2>1. /\ ru \in [1 .. Len(u) -> Entries] /\ rq \in [1 .. Len(q) -> Entries]
        /\ \A k \in 1 .. Len(u) : ru[k] = u[(Len(u) - k) + 1]
        /\ \A k \in 1 .. Len(q) : rq[k] = q[(Len(q) - k) + 1]
    <3>1. \A k \in 1 .. Len(u) : u[(Len(u) - k) + 1] \in Entries
      <4>1. ASSUME NEW k \in 1 .. Len(u) PROVE (Len(u) - k) + 1 \in 1 .. Len(u)
        BY <1>0
      <4>. QED  BY <4>1, ElementOfSeq
    <3>2. \A k \in 1 .. Len(q) : q[(Len(q) - k) + 1] \in Entries
      <4>1. ASSUME NEW k \in 1 .. Len(q) PROVE (Len(q) - k) + 1 \in 1 .. Len(q)
        BY <1>4
      <4>. QED  BY <1>4, <4>1, ElementOfSeq
    <3>. QED  BY <3>1, <3>2 DEF Reverse
  <2>2. ru \in Seq(Entries) /\ Len(ru) = Len(u) /\ rq \in Seq(Entries) /\ Len(rq) = Len(q)
    <3>1. Len(q) \in Nat
      BY <1>4
    <3>. HIDE DEF ru, rq
    <3>. QED  BY <1>0, <2>1, <3>1, Function
  <2>3. Len(u) <= Len(q) /\ Len(q) \in Nat
    BY <1>0, <1>1, <1>4
  <2>4. ASSUME NEW k \in 1 .. Len(u) PROVE ru[k] = rq[k]
    <3>1. (Len(u) - k) + 1 \in 1 .. Len(u) /\ k \in 1 .. Len(q)
      BY <1>0, <2>3
    <3>2. ((Len(u) - k) + 1) + d = (Len(q) - k) + 1
      BY <1>0, <1>1, <1>4
    <3>. QED  BY <1>5, <2>1, <3>1, <3>2
  <2>. HIDE DEF ru, rq
  <2>5. SubSeq(ru, 1, Len(ru)) = SubSeq(rq, 1, Len(ru))
    <3>. DEFINE a == SubSeq(ru, 1, Len(u))
                b == SubSeq(rq, 1, Len(u))
    <3>1. a \in Seq(Entries) /\ Len(a) = Len(u) /\ \A k \in 1 .. Len(u) : a[k] = ru[k]
      BY <1>0, <2>2
    <3>2. b \in Seq(Entries) /\ Len(b) = Len(u) /\ \A k \in 1 .. Len(u) : b[k] = rq[k]
      BY <1>0, <2>2, <2>3
    <3>. HIDE DEF a, b
    <3>3. a = b
      BY <2>4, <3>1, <3>2, SeqEqual
    <3>. QED  BY <2>2, <3>3 DEF a, b
  <2>. QED  BY <2>2, <2>3, <2>5 DEF IsSuffix, IsPrefix, ru, rq
<1>7. more \in UNION {[1 .. k -> Entries] : k \in 0 .. n}
  BY <1>2
<1>. QED  BY <1>1, <1>6, <1>7 DEF Extends, q

\* What the tab t has captured.
Captured(t) == t.log \o t.pending

\* A closed tab queues nothing.
Quiet(t) == t.disposed => t.pending = <<>>

SameEntries(t, u) == u.log = t.log /\ u.pending = t.pending /\ u.disposed = t.disposed

\* u has what t has captured, and at most n entries more.
Grows(t, u, n) == u \in Tab /\ Quiet(u) /\ Follows(Captured(u), Captured(t), n)

LEMMA CapturedType ==
    ASSUME NEW t \in Tab
    PROVE  /\ t.log \in Seq(Entries) /\ t.pending \in Seq(Lines) /\ t.pending \in Seq(Entries)
           /\ Captured(t) \in Seq(Entries)
<1>1. t.log \in Seq(Entries) /\ t.pending \in Seq(Lines)
  BY DEF Tab
<1>2. t.pending \in Seq(Entries)
  BY <1>1, SeqMonotonic DEF Entries
<1>. QED  BY <1>1, <1>2, ConcatProperties DEF Captured

LEMMA SameGrows ==
    ASSUME NEW t \in Tab, Quiet(t), NEW u \in Tab, SameEntries(t, u)
    PROVE  Grows(t, u, 0)
<1>1. Captured(u) = Captured(t) /\ Quiet(u)
  BY DEF SameEntries, Captured, Quiet
<1>. QED  BY <1>1, CapturedType, FollowsItself DEF Grows

LEMMA GrowsThen ==
    ASSUME NEW t \in Tab, NEW u, NEW v, NEW n \in Nat, NEW k \in Nat,
           Grows(t, u, n), Grows(u, v, k)
    PROVE  Grows(t, v, n + k)
<1>1. u \in Tab /\ v \in Tab /\ Quiet(v)
  BY DEF Grows
<1>2. Captured(t) \in Seq(Entries) /\ Captured(u) \in Seq(Entries) /\ Captured(v) \in Seq(Entries)
  BY <1>1, CapturedType
<1>3. Follows(Captured(u), Captured(t), n) /\ Follows(Captured(v), Captured(u), k)
  BY DEF Grows
<1>4. Follows(Captured(v), Captured(t), n + k)
  BY <1>2, <1>3, FollowsThen
<1>. QED  BY <1>1, <1>4 DEF Grows

LEMMA GrowsMore ==
    ASSUME NEW t, NEW u, NEW n \in Nat, NEW k \in Nat, n <= k, Grows(t, u, n)
    PROVE  Grows(t, u, k)
  BY FollowsMore DEF Grows

LEMMA FlushGrows ==
    ASSUME NEW t \in Tab, Quiet(t)
    PROVE  Grows(t, FlushPendingLogs(t), 0)
<1>1. CASE t.disposed
  BY <1>1, SameGrows DEF FlushPendingLogs, SameEntries
<1>2. CASE ~t.disposed
  <2>. DEFINE u == [t EXCEPT !.log = Newest(t.log \o t.pending), !.pending = <<>>]
  <2>1. Captured(t) \in Seq(Entries) /\ <<>> \in Seq(Lines)
    BY CapturedType, EmptySeq
  <2>2. Newest(Captured(t)) \in Seq(Entries)
    BY <2>1, NewestType
  <2>3. /\ u \in Tab /\ u.log = Newest(Captured(t)) /\ u.pending = <<>>
    BY <2>1, <2>2 DEF Tab, Captured
  <2>4. Captured(u) = Newest(Captured(t))
    BY <2>2, <2>3, ConcatEmptySeq DEF Captured
  <2>5. FlushPendingLogs(t) = u
    BY <1>2 DEF FlushPendingLogs
  <2>. HIDE DEF u
  <2>. QED  BY <2>1, <2>3, <2>4, <2>5, FollowsNewest DEF Grows, Quiet
<1>. QED  BY <1>1, <1>2

LEMMA AppendImmediateGrows ==
    ASSUME NEW t \in Tab, Quiet(t), NEW e \in Entries
    PROVE  Grows(t, AppendImmediate(t, e), 1)
<1>. DEFINE f == FlushPendingLogs(t)
            u == [f EXCEPT !.log = Newest(Append(f.log, e))]
<1>1. Grows(t, f, 0)
  BY FlushGrows
<1>2. f.pending = <<>> /\ f.disposed = t.disposed
  BY DEF FlushPendingLogs, Quiet, Tab
<1>3. f \in Tab
  BY <1>1 DEF Grows
<1>. HIDE DEF f
<1>4. f.log \in Seq(Entries) /\ Captured(f) = f.log
  BY <1>2, <1>3, CapturedType, ConcatEmptySeq DEF Captured
<1>5. Append(f.log, e) \in Seq(Entries) /\ Follows(Append(f.log, e), f.log, 1)
  BY <1>4, FollowsAppend, AppendProperties
<1>6. /\ Newest(Append(f.log, e)) \in Seq(Entries)
      /\ Follows(Newest(Append(f.log, e)), Append(f.log, e), 0)
  BY <1>5, FollowsNewest, NewestType
<1>7. Follows(Newest(Append(f.log, e)), f.log, 1 + 0)
  BY <1>4, <1>5, <1>6, FollowsThen
<1>8. u \in Tab /\ u.log = Newest(Append(f.log, e)) /\ u.pending = <<>>
  BY <1>2, <1>3, <1>6 DEF Tab
<1>9. Captured(u) = Newest(Append(f.log, e))
  BY <1>6, <1>8, ConcatEmptySeq DEF Captured
<1>10. Grows(f, u, 1)
  BY <1>4, <1>7, <1>8, <1>9 DEF Grows, Quiet
<1>11. Grows(t, u, 0 + 1)
  BY <1>1, <1>10, GrowsThen
<1>12. AppendImmediate(t, e) = u
  BY DEF AppendImmediate, f
<1>. QED  BY <1>11, <1>12

LEMMA AppendLast ==
    ASSUME NEW S, NEW a \in Seq(S), NEW b \in Seq(S), NEW e \in S
    PROVE  a \o Append(b, e) = Append(a \o b, e)
<1>. DEFINE c == Append(b, e)
            x == a \o c
            d == a \o b
            y == Append(d, e)
<1>1. /\ c \in Seq(S) /\ Len(c) = Len(b) + 1 /\ c[Len(b) + 1] = e
      /\ \A k \in 1 .. Len(b) : c[k] = b[k]
  BY AppendProperties
<1>2. /\ d \in Seq(S) /\ Len(d) = Len(a) + Len(b)
      /\ \A k \in 1 .. Len(a) + Len(b) : d[k] = IF k <= Len(a) THEN a[k] ELSE b[k - Len(a)]
  BY ConcatProperties
<1>. HIDE DEF c, d
<1>3. /\ x \in Seq(S) /\ Len(x) = Len(a) + Len(c)
      /\ \A k \in 1 .. Len(a) + Len(c) : x[k] = IF k <= Len(a) THEN a[k] ELSE c[k - Len(a)]
  BY <1>1, ConcatProperties
<1>4. /\ y \in Seq(S) /\ Len(y) = Len(d) + 1 /\ y[Len(d) + 1] = e
      /\ \A k \in 1 .. Len(d) : y[k] = d[k]
  BY <1>2, AppendProperties
<1>. HIDE DEF x, y
<1>5. Len(a) \in Nat /\ Len(b) \in Nat
  OBVIOUS
<1>6. ASSUME NEW k \in 1 .. Len(x) PROVE x[k] = y[k]
  <2>1. CASE k <= Len(a)
    BY <1>1, <1>2, <1>3, <1>4, <1>5, <1>6, <2>1
  <2>2. CASE k > Len(a) /\ k <= Len(d)
    <3>1. /\ k - Len(a) \in 1 .. Len(b) /\ k \in 1 .. Len(a) + Len(b) /\ k \in 1 .. Len(d)
          /\ k \in 1 .. Len(a) + Len(c) /\ ~(k <= Len(a))
      BY <1>1, <1>2, <1>5, <2>2, <1>6
    <3>. QED  BY <1>1, <1>2, <1>3, <1>4, <3>1
  <2>3. CASE k > Len(d)
    <3>1. k = Len(d) + 1 /\ k - Len(a) = Len(b) + 1 /\ k \in 1 .. Len(a) + Len(c) /\ ~(k <= Len(a))
      <4>1. Len(x) = Len(a) + Len(c) /\ Len(c) = Len(b) + 1 /\ Len(d) = Len(a) + Len(b)
        BY <1>1, <1>2, <1>3
      <4>. QED  BY <1>5, <2>3, <1>6, <4>1
    <3>. QED  BY <1>1, <1>3, <1>4, <3>1
  <2>. QED  BY <1>2, <1>5, <1>6, <2>1, <2>2, <2>3
<1>7. Len(x) = Len(y)
  BY <1>1, <1>2, <1>3, <1>4, <1>5
<1>8. x = y
  BY <1>3, <1>4, <1>6, <1>7, SeqEqual
<1>. QED  BY <1>8 DEF x, y, c, d

\* A line at the end of the queue.
LEMMA QueueGrows ==
    ASSUME NEW t \in Tab, ~t.disposed, NEW e \in Lines
    PROVE  Grows(t, [t EXCEPT !.pending = Append(@, e)], 1)
<1>. DEFINE u == [t EXCEPT !.pending = Append(@, e)]
<1>1. t.log \in Seq(Entries) /\ t.pending \in Seq(Lines) /\ t.pending \in Seq(Entries)
      /\ Captured(t) \in Seq(Entries)
  BY CapturedType
<1>2. Append(t.pending, e) \in Seq(Lines)
  BY <1>1, AppendProperties
<1>3. u \in Tab /\ u.log = t.log /\ u.pending = Append(t.pending, e) /\ u.disposed = t.disposed
  BY <1>2 DEF Tab
<1>4. t.log \o Append(t.pending, e) = Append(t.log \o t.pending, e)
  <2>1. e \in Entries
    BY DEF Entries
  <2>2. PICK a, b : a = t.log /\ b = t.pending
    OBVIOUS
  <2>3. a \in Seq(Entries) /\ b \in Seq(Entries)
    BY <1>1, <2>2
  <2>4. a \o Append(b, e) = Append(a \o b, e)
    BY <2>1, <2>3, AppendLast
  <2>. QED  BY <2>2, <2>4
<1>5. Follows(Append(Captured(t), e), Captured(t), 1)
  BY <1>1, FollowsAppend DEF Entries
<1>. HIDE DEF u
<1>. QED  BY <1>3, <1>4, <1>5 DEF Grows, Captured, Quiet, u

\* The ways a step leaves a tab whose control is changed to t's.
LEMMA GrowsForms ==
    ASSUME NEW s \in Tab, Quiet(s), NEW t \in Tab, SameEntries(s, t), NEW e \in Entries,
           NEW u \in Tab,
           \/ SameEntries(t, u) \/ SameEntries(FlushPendingLogs(t), u)
           \/ SameEntries(AppendImmediate(t, e), u)
    PROVE  Grows(s, u, 1)
<1>1. Grows(s, t, 0) /\ Quiet(t)
  BY SameGrows DEF Grows
<1>2. PICK v : /\ v \in {t, FlushPendingLogs(t), AppendImmediate(t, e)} /\ SameEntries(v, u)
  OBVIOUS
<1>3. Grows(t, v, 1)
  <2>1. CASE v = t
    <3>1. Grows(t, t, 0)
      BY <1>1, SameGrows DEF SameEntries
    <3>. QED  BY <2>1, <3>1, GrowsMore
  <2>2. CASE v = FlushPendingLogs(t)
    <3>1. Grows(t, v, 0)
      BY <1>1, <2>2, FlushGrows
    <3>. QED  BY <3>1, GrowsMore
  <2>3. CASE v = AppendImmediate(t, e)
    BY <1>1, <2>3, AppendImmediateGrows
  <2>. QED  BY <1>2, <2>1, <2>2, <2>3
<1>4. Grows(v, u, 0)
  BY <1>2, <1>3, SameGrows DEF Grows
<1>5. Grows(s, v, 0 + 1)
  BY <1>1, <1>3, GrowsThen
<1>6. Grows(s, u, 1 + 0)
  BY <1>4, <1>5, GrowsThen
<1>. QED  BY <1>6

\* What a step may do to what the tab has captured.
Kept(u) ==
    /\ u \in Tab /\ Quiet(u)
    /\ \/ Grows(tab, u, 2)
       \/ ~tab.disposed /\ u.disposed

\* The steps that discard it.
Discards ==
    /\ tab' \in Tab /\ Quiet(tab')
    /\ ClearedByTheUser \/ Restarted

QInv == IInv /\ Quiet(tab)

LEMMA KeptForms ==
    ASSUME QInv, NEW t \in Tab, SameEntries(tab, t), NEW e \in Entries, NEW u \in Tab,
           \/ SameEntries(t, u) \/ SameEntries(FlushPendingLogs(t), u)
           \/ SameEntries(AppendImmediate(t, e), u)
    PROVE  Kept(u)
<1>1. tab \in Tab /\ Quiet(tab)
  BY DEF QInv, IInv, TypeOK
<1>2. Grows(tab, u, 1)
  BY <1>1, GrowsForms
<1>3. Grows(tab, u, 2)
  BY <1>2, GrowsMore
<1>. QED  BY <1>3 DEF Kept, Grows

\* The helpers that change the control alone.
LEMMA CancelTimersSame ==
    ASSUME NEW t \in Tab
    PROVE  CancelTimers(t) \in Tab /\ SameEntries(t, CancelTimers(t))
  BY DEF Tab, CancelTimers, SameEntries

LEMMA AttachToSame ==
    ASSUME NEW t \in Tab, NEW s \in FreeStreams
    PROVE  AttachTo(t, s) \in Tab /\ SameEntries(t, AttachTo(t, s))
  BY BoundsAssumption DEF Tab, AttachTo, SameEntries, FreeStreams

LEMMA ReleasedSame ==
    ASSUME tab \in Tab
    PROVE  Released \in Tab /\ SameEntries(tab, Released)
  BY DEF Tab, Released, SameEntries

LEMMA SameThen ==
    ASSUME NEW t, NEW u, NEW v, SameEntries(t, u), SameEntries(u, v)
    PROVE  SameEntries(t, v)
  BY DEF SameEntries

LEMMA EnterInterruptedIs ==
    ASSUME NEW t \in Tab
    PROVE  \E u \in Tab : SameEntries(t, u) /\ EnterInterruptedState(t) = AppendImmediate(u, Marker)
<1>. DEFINE u == [t EXCEPT !.recovering = FALSE, !.interrupted = TRUE,
                           !.recovery = "off", !.watchdog = FALSE]
<1>1. u \in Tab /\ SameEntries(t, u)
  BY DEF Tab, SameEntries
<1>. QED  BY <1>1 DEF EnterInterruptedState

\* The parts of steps.
LEMMA CancelKept ==
    ASSUME QInv, NEW t \in Tab, SameEntries(tab, t), tab' = CancelTimers(t)
    PROVE  Kept(tab')
<1>1. tab' \in Tab /\ SameEntries(t, tab')
  BY CancelTimersSame
<1>. QED  BY <1>1, KeptForms, MarkerType

LEMMA LoseKept ==
    ASSUME QInv, tab' = FlushPendingLogs(CancelTimers(tab))
    PROVE  Kept(tab')
<1>. DEFINE t == CancelTimers(tab)
<1>1. tab \in Tab
  BY DEF QInv, IInv, TypeOK
<1>2. t \in Tab /\ SameEntries(tab, t)
  BY <1>1, CancelTimersSame
<1>. HIDE DEF t
<1>3. Quiet(t)
  BY <1>2 DEF QInv, Quiet, SameEntries
<1>4. tab' \in Tab /\ SameEntries(FlushPendingLogs(t), tab')
  BY <1>2, <1>3, FlushGrows DEF Grows, SameEntries, t
<1>. QED  BY <1>2, <1>4, KeptForms, MarkerType

LEMMA MarkKept ==
    ASSUME QInv, NEW t \in Tab, SameEntries(tab, t), NEW v, v = AppendImmediate(t, Marker)
    PROVE  v \in Tab /\ Kept(v)
<1>1. Quiet(t)
  BY DEF QInv, Quiet, SameEntries
<1>2. v \in Tab /\ SameEntries(AppendImmediate(t, Marker), v)
  BY <1>1, AppendImmediateGrows, MarkerType DEF Grows, SameEntries
<1>. QED  BY <1>2, KeptForms, MarkerType

LEMMA AttachKept ==
    ASSUME QInv, NEW t \in Tab, SameEntries(tab, t), NEW s \in FreeStreams,
           NEW v, v = AttachTo(AppendImmediate(t, Marker), s)
    PROVE  Kept(v)
<1>1. Quiet(t)
  BY DEF QInv, Quiet, SameEntries
<1>. DEFINE w == AppendImmediate(t, Marker)
<1>2. w \in Tab
  BY <1>1, AppendImmediateGrows, MarkerType DEF Grows
<1>. HIDE DEF w
<1>3. v \in Tab /\ SameEntries(w, v)
  BY <1>2, AttachToSame DEF w
<1>. QED  BY <1>3, KeptForms, MarkerType DEF w

\* Every step keeps what the tab has captured.
LEMMA UserKept ==
    ASSUME QInv,
           \/ Activate \/ StartLogcat \/ StopLogcat \/ ResumeLiveLogging
           \/ TogglePauseResume \/ ClearLogs \/ Dispose
    PROVE  Kept(tab') \/ Discards
<1>1. tab \in Tab /\ Quiet(tab) /\ SameEntries(tab, tab) /\ 0 \in 0 .. MaxAutoRecoveryAttempts
  BY BoundsAssumption DEF QInv, IInv, TypeOK, SameEntries
<1>2. CASE Activate
  <2>. DEFINE t == [tab EXCEPT !.activated = TRUE]
  <2>1. t \in Tab /\ SameEntries(tab, t) /\ SameEntries(t, t)
    BY <1>1 DEF Tab, SameEntries
  <2>2. tab' = CancelTimers(t) \/ tab' = t
    BY <1>2 DEF Activate, BeginStart, AwaitCancel
  <2>. HIDE DEF t
  <2>. QED  BY <2>1, <2>2, CancelKept, KeptForms, MarkerType
<1>3. CASE StartLogcat \/ StopLogcat
  <2>1. tab' = CancelTimers(tab)
    BY <1>3 DEF StartLogcat, StopLogcat, BeginStart, AwaitCancel
  <2>. QED  BY <1>1, <2>1, CancelKept
<1>4. CASE ResumeLiveLogging
  <2>. DEFINE t == [tab EXCEPT !.attempts = 0]
  <2>1. t \in Tab /\ SameEntries(tab, t)
    BY <1>1 DEF Tab, SameEntries
  <2>2. tab' = CancelTimers(t)
    BY <1>4 DEF ResumeLiveLogging, BeginResume, AwaitCancel
  <2>. HIDE DEF t
  <2>. QED  BY <2>1, <2>2, CancelKept
<1>5. CASE TogglePauseResume
  <2>. DEFINE running == [tab EXCEPT !.state = "running"]
              paused == [tab EXCEPT !.state = "paused"]
  <2>1. /\ running \in Tab /\ SameEntries(tab, running) /\ SameEntries(running, running)
        /\ paused \in Tab /\ SameEntries(tab, paused)
    BY <1>1 DEF Tab, SameEntries
  <2>2. \/ tab' = AppendImmediate(paused, Marker) \/ tab' = CancelTimers(running)
        \/ tab' = running \/ tab' = AppendImmediate(running, Marker)
    BY <1>5 DEF TogglePauseResume, BeginResume, AwaitCancel
  <2>. HIDE DEF running, paused
  <2>. QED  BY <2>1, <2>2, CancelKept, MarkKept, KeptForms, MarkerType
<1>6. CASE ClearLogs
  <2>1. ClearedByTheUser
    BY <1>6 DEF ClearLogs, ClearedByTheUser
  <2>2. <<>> \in Seq(Lines) /\ <<>> \in Seq(Entries)
    BY EmptySeq
  <2>3. tab' \in Tab /\ tab'.pending = <<>>
    BY <1>1, <2>1, <2>2 DEF ClearedByTheUser, ClearStoredLogs, Tab
  <2>. QED  BY <2>1, <2>3 DEF Discards, Quiet
<1>7. CASE Dispose
  <2>. DEFINE c == CancelTimers(tab)
  <2>1. tab' = [c EXCEPT !.disposed = TRUE, !.pending = <<>>] /\ ~tab.disposed
    BY <1>7 DEF Dispose
  <2>2. c \in Tab /\ <<>> \in Seq(Lines)
    BY <1>1, CancelTimersSame, EmptySeq
  <2>. HIDE DEF c
  <2>3. tab' \in Tab /\ tab'.disposed /\ tab'.pending = <<>>
    BY <2>1, <2>2 DEF Tab
  <2>. QED  BY <2>1, <2>3 DEF Kept, Quiet
<1>. QED  BY <1>2, <1>3, <1>4, <1>5, <1>6, <1>7

LEMMA ReceiveKept ==
    ASSUME QInv, NEW s \in Streams, NEW e \in Lines \cup {ToolError}, Receive(s, e)
    PROVE  Kept(tab')
<1>1. tab \in Tab /\ Quiet(tab) /\ SameEntries(tab, tab) /\ 0 \in 0 .. MaxAutoRecoveryAttempts
  BY BoundsAssumption DEF QInv, IInv, TypeOK, SameEntries
<1>. DEFINE t == MarkStreamRecovered(tab)
            r == [tab EXCEPT !.interrupted = FALSE, !.recovering = FALSE,
                             !.attempts = 0, !.recovery = "off"]
            q == IF Len(t.pending) >= MaxPendingLogs THEN FlushPendingLogs(t) ELSE t
            u == [q EXCEPT !.pending = Append(@, e)]
<1>2. t = tab \/ t = r \/ t = AppendImmediate(r, Marker)
  BY DEF MarkStreamRecovered
<1>3. r \in Tab /\ SameEntries(tab, r)
  BY <1>1 DEF Tab, SameEntries
<1>. HIDE DEF r
<1>4. Quiet(r)
  BY <1>1, <1>3 DEF Quiet, SameEntries
<1>5. ~tab.disposed
  BY DEF Receive
<1>6. Grows(tab, t, 1) /\ ~t.disposed
  <2>1. CASE t = tab \/ t = r
    <3>1. t \in Tab /\ SameEntries(tab, t)
      BY <1>1, <1>3, <2>1
    <3>. HIDE DEF t
    <3>2. Grows(tab, t, 0) /\ ~t.disposed
      BY <1>1, <1>5, <3>1, SameGrows DEF SameEntries
    <3>. QED  BY <3>2, GrowsMore
  <2>2. CASE t = AppendImmediate(r, Marker)
    <3>. HIDE DEF t
    <3>1. t.disposed = r.disposed
      BY <1>3, <2>2 DEF AppendImmediate, FlushPendingLogs, Tab
    <3>2. Grows(r, t, 1)
      BY <1>3, <1>4, <2>2, AppendImmediateGrows, MarkerType
    <3>3. Grows(tab, r, 0)
      BY <1>1, <1>3, SameGrows
    <3>4. Grows(tab, t, 0 + 1)
      BY <1>1, <3>2, <3>3, GrowsThen
    <3>. QED  BY <1>3, <1>5, <3>1, <3>4 DEF SameEntries
  <2>. QED  BY <1>2, <2>1, <2>2
<1>7. \/ tab' = AppendImmediate(t, e)
      \/ tab' = t
      \/ e # ToolError /\ tab' = u
  BY DEF Receive
<1>8. t \in Tab /\ Quiet(t) /\ e \in Entries
  BY <1>6 DEF Grows, Entries
<1>. HIDE DEF t
<1>9. Grows(t, tab', 1)
  <2>1. CASE tab' = AppendImmediate(t, e)
    BY <1>8, <2>1, AppendImmediateGrows
  <2>2. CASE tab' = t
    <3>1. Grows(t, t, 0)
      BY <1>8, SameGrows DEF SameEntries
    <3>. QED  BY <2>2, <3>1, GrowsMore
  <2>3. CASE e # ToolError /\ tab' = u
    <3>1. Grows(t, q, 0) /\ ~q.disposed
      <4>1. CASE q = t
        <5>1. Grows(t, t, 0)
          BY <1>8, SameGrows DEF SameEntries
        <5>. QED  BY <1>6, <4>1, <5>1
      <4>2. CASE q = FlushPendingLogs(t)
        <5>. HIDE DEF q
        <5>1. q.disposed = t.disposed
          BY <1>8, <4>2 DEF FlushPendingLogs, Tab
        <5>. QED  BY <1>6, <1>8, <4>2, <5>1, FlushGrows
      <4>. QED  BY <4>1, <4>2
    <3>. HIDE DEF q
    <3>2. q \in Tab
      BY <3>1 DEF Grows
    <3>3. Grows(q, tab', 1)
      BY <2>3, <3>1, <3>2, QueueGrows
    <3>4. Grows(t, tab', 0 + 1)
      BY <1>8, <3>1, <3>3, GrowsThen
    <3>. QED  BY <3>4
  <2>. QED  BY <1>7, <2>1, <2>2, <2>3
<1>10. Grows(tab, tab', 1 + 1)
  BY <1>1, <1>6, <1>9, GrowsThen
<1>. QED  BY <1>10 DEF Kept, Grows

LEMMA EventKept ==
    ASSUME QInv,
           \/ Disconnect \/ Connect \/ FlushTick \/ WatchdogTick \/ RecoveryTimerFires
           \/ \E s \in Streams : StreamEnds(s) \/ CancelCompletes(s)
           \/ UNCHANGED vars
    PROVE  Kept(tab')
<1>1. tab \in Tab /\ Quiet(tab) /\ SameEntries(tab, tab)
  BY DEF QInv, IInv, TypeOK, SameEntries
<1>2. CASE tab' = tab
  BY <1>1, <1>2, KeptForms, MarkerType
<1>3. CASE Connect
  <2>. DEFINE t == [tab EXCEPT !.interrupted = FALSE]
  <2>1. t \in Tab /\ SameEntries(tab, t)
    BY <1>1 DEF Tab, SameEntries
  <2>2. tab' = tab \/ tab' = CancelTimers(tab) \/ tab' = AppendImmediate(t, Marker)
    BY <1>3 DEF Connect, BeginResume, AwaitCancel
  <2>. HIDE DEF t
  <2>. QED  BY <1>1, <1>2, <2>1, <2>2, CancelKept, MarkKept
<1>4. CASE Disconnect \/ \E s \in Streams : StreamEnds(s)
  <2>1. tab' = tab \/ tab' = FlushPendingLogs(CancelTimers(tab))
    BY <1>4 DEF Disconnect, StreamEnds, LoseStream, AwaitCancel
  <2>. QED  BY <1>2, <2>1, LoseKept
<1>5. CASE FlushTick
  <2>1. tab' = FlushPendingLogs(tab)
    BY <1>5 DEF FlushTick
  <2>2. tab' \in Tab /\ SameEntries(FlushPendingLogs(tab), tab')
    BY <1>1, <2>1, FlushGrows DEF Grows, SameEntries
  <2>. QED  BY <1>1, <2>2, KeptForms, MarkerType
<1>6. CASE WatchdogTick
  <2>1. tab' \in Tab /\ SameEntries(tab, tab')
    BY <1>1, <1>6 DEF WatchdogTick, Tab, SameEntries
  <2>. QED  BY <1>1, <2>1, KeptForms, MarkerType
<1>7. CASE RecoveryTimerFires
  <2>. DEFINE t == [tab EXCEPT !.recovery = "off"]
  <2>1. t \in Tab /\ SameEntries(tab, t) /\ SameEntries(t, t)
    BY <1>1 DEF Tab, SameEntries
  <2>2. tab' = t \/ tab' = EnterInterruptedState(t)
    BY <1>7 DEF RecoveryTimerFires
  <2>. HIDE DEF t
  <2>3. PICK v \in Tab : SameEntries(t, v) /\ EnterInterruptedState(t) = AppendImmediate(v, Marker)
    BY <2>1, EnterInterruptedIs
  <2>4. SameEntries(tab, v)
    BY <2>1, <2>3, SameThen
  <2>. QED  BY <2>1, <2>2, <2>3, <2>4, MarkKept, KeptForms, MarkerType
<1>8. CASE (\E s \in Streams : CancelCompletes(s)) \/ UNCHANGED vars
  BY <1>2, <1>8 DEF CancelCompletes, vars
<1>. QED  BY <1>3, <1>4, <1>5, <1>6, <1>7, <1>8

LEMMA StartKept ==
    ASSUME QInv, NEW i \in DOMAIN tasks, ContinueStart(i)
    PROVE  Kept(tab') \/ Discards
<1>1. tab \in Tab /\ Released \in Tab /\ SameEntries(tab, Released) /\ SameEntries(Released, Released)
  BY ReleasedSame DEF QInv, IInv, TypeOK, SameEntries
<1>2. CASE tab' = Released
  BY <1>1, <1>2, KeptForms, MarkerType
<1>. DEFINE t == [ClearStoredLogs(Released) EXCEPT
                    !.state = "running", !.interrupted = FALSE,
                    !.recovering = FALSE, !.attempts = 0]
            w == AppendImmediate(t, Marker)
<1>3. CASE /\ tasks[i].op = "start" /\ tasks' = RemoveAt(tasks, i)
           /\ \E s \in FreeStreams : tab' = AttachTo(w, s)
  <2>1. <<>> \in Seq(Lines) /\ <<>> \in Seq(Entries) /\ 0 \in 0 .. MaxAutoRecoveryAttempts
    BY EmptySeq, BoundsAssumption
  <2>2. t \in Tab /\ t.log = <<>> /\ t.pending = <<>>
    BY <1>1, <2>1 DEF ClearStoredLogs, Tab
  <2>. HIDE DEF t
  <2>3. Newest(<<>>) = <<>>
    BY BoundsAssumption DEF Newest
  <2>. DEFINE f == FlushPendingLogs(t)
  <2>4. f.log = <<>> /\ f.pending = <<>>
    <3>1. t.log \o t.pending = <<>>
      BY <2>1, <2>2, ConcatEmptySeq
    <3>. QED  BY <2>2, <2>3, <3>1 DEF FlushPendingLogs, Tab
  <2>5. f \in Tab
    BY <2>2, FlushGrows DEF Grows, Quiet
  <2>. HIDE DEF f
  <2>6. Append(f.log, Marker) = <<Marker>>
    BY <2>4
  <2>7. Newest(Append(f.log, Marker)) = Newest(<<Marker>>)
    BY <2>6
  <2>8. w = [f EXCEPT !.log = Newest(Append(f.log, Marker))]
    BY DEF AppendImmediate, f
  <2>9. w \in Tab
    BY <2>2, AppendImmediateGrows, MarkerType DEF Grows, Quiet
  <2>. HIDE DEF w
  <2>10. w.log = Newest(<<Marker>>) /\ w.pending = <<>>
    BY <2>4, <2>5, <2>6, <2>7, <2>8 DEF Tab
  <2>11. PICK s \in FreeStreams : tab' = AttachTo(w, s)
    BY <1>3
  <2>12. tab' \in Tab /\ SameEntries(w, tab')
    BY <2>9, <2>11, AttachToSame
  <2>13. tab'.pending = <<>> /\ tab'.log = w.log /\ w.log \in Seq(Entries)
    BY <2>9, <2>10, <2>12, CapturedType DEF SameEntries
  <2>14. tab'.log \o tab'.pending = Newest(<<Marker>>)
    BY <2>10, <2>13, ConcatEmptySeq
  <2>15. Restarted
    BY <1>3, <2>14 DEF Restarted, captured
  <2>. QED  BY <2>12, <2>13, <2>15 DEF Discards, Quiet
<1>. HIDE DEF w, t
<1>4. \/ tab' = Released
      \/ /\ tasks[i].op = "start" /\ tasks' = RemoveAt(tasks, i)
         /\ \E s \in FreeStreams : tab' = AttachTo(w, s)
  BY DEF ContinueStart, Finish, FinishAttached, w, t
<1>. QED  BY <1>2, <1>3, <1>4

LEMMA ContinueKept ==
    ASSUME QInv, NEW i, ContinueStop(i) \/ ContinueResume(i) \/ ContinueLost(i)
    PROVE  Kept(tab')
<1>1. /\ tab \in Tab /\ Quiet(tab) /\ SameEntries(tab, tab) /\ 0 \in 0 .. MaxAutoRecoveryAttempts
      /\ Len(tab.pending) <= MaxPendingLogs
  BY BoundsAssumption DEF QInv, IInv, TypeOK, SameEntries
<1>2. Released \in Tab /\ SameEntries(tab, Released) /\ SameEntries(Released, Released)
  BY <1>1, ReleasedSame DEF SameEntries
<1>3. CASE tab' = Released
  BY <1>2, <1>3, KeptForms, MarkerType
<1>4. CASE ContinueStop(i)
  <2>. DEFINE t == [Released EXCEPT !.state = "stopped", !.interrupted = FALSE,
                                    !.recovering = FALSE, !.attempts = 0]
  <2>1. t \in Tab /\ SameEntries(Released, t)
    BY <1>1, <1>2 DEF Tab, SameEntries
  <2>2. tab' = Released \/ tab' = AppendImmediate(t, Marker)
    BY <1>4 DEF ContinueStop, Finish
  <2>. HIDE DEF t
  <2>. QED  BY <1>2, <1>3, <2>1, <2>2, SameThen, MarkKept
<1>5. CASE ContinueResume(i)
  <2>. DEFINE f == FlushPendingLogs(Released)
              t == [f EXCEPT !.state = "running", !.recovering = FALSE, !.attempts = 0]
              u == [t EXCEPT !.interrupted = FALSE]
              w == AppendImmediate(u, Marker)
  <2>1. \/ tab' = Released \/ tab' = t
        \/ \E s \in FreeStreams : tab' = AttachTo(w, s)
    BY <1>5 DEF ContinueResume, Reattach, Finish, Await, FinishAttached
  <2>2. Quiet(Released)
    BY <1>1, <1>2 DEF Quiet, SameEntries
  <2>3. Grows(Released, f, 0) /\ f \in Tab /\ Quiet(f)
    BY <1>2, <2>2, FlushGrows DEF Grows
  <2>. HIDE DEF f
  <2>4. t \in Tab /\ SameEntries(f, t) /\ u \in Tab /\ SameEntries(f, u)
    BY <1>1, <2>3 DEF Tab, SameEntries
  <2>. HIDE DEF t, u
  <2>5. Grows(tab, f, 0)
    <3>1. Grows(tab, Released, 0)
      BY <1>1, <1>2, SameGrows
    <3>2. Grows(tab, f, 0 + 0)
      BY <1>1, <2>3, <3>1, GrowsThen
    <3>. QED  BY <3>2
  <2>6. CASE tab' = t
    <3>1. Grows(f, t, 0)
      BY <2>3, <2>4, SameGrows
    <3>2. Grows(tab, t, 0 + 0)
      BY <1>1, <2>5, <3>1, GrowsThen
    <3>3. Grows(tab, t, 2)
      BY <3>2, GrowsMore
    <3>. QED  BY <2>6, <3>3 DEF Kept, Grows
  <2>7. CASE \E s \in FreeStreams : tab' = AttachTo(w, s)
    <3>1. PICK s \in FreeStreams : tab' = AttachTo(w, s)
      BY <2>7
    <3>2. Grows(f, u, 0)
      BY <2>3, <2>4, SameGrows
    <3>3. Grows(u, w, 1)
      BY <2>4, <3>2, AppendImmediateGrows, MarkerType DEF Grows
    <3>. HIDE DEF w
    <3>4. w \in Tab /\ Quiet(w)
      BY <3>3 DEF Grows
    <3>5. Grows(w, tab', 0)
      BY <3>1, <3>4, AttachToSame, SameGrows
    <3>6. Grows(tab, u, 0 + 0)
      BY <1>1, <2>5, <3>2, GrowsThen
    <3>7. Grows(tab, w, 0 + 1)
      BY <1>1, <3>3, <3>6, GrowsThen
    <3>8. Grows(tab, tab', 1 + 0)
      BY <1>1, <3>5, <3>7, GrowsThen
    <3>9. Grows(tab, tab', 2)
      BY <3>8, GrowsMore
    <3>. QED  BY <3>9 DEF Kept, Grows
  <2>. QED  BY <1>3, <2>1, <2>6, <2>7
<1>6. CASE ContinueLost(i)
  <2>. DEFINE t == IF tasks[i].probe THEN [Released EXCEPT !.probing = FALSE] ELSE Released
              reconnect == tasks[i].flag \/ tab.attempts >= 1
              v == ScheduleRecovery(t, reconnect)
  <2>1. t \in Tab /\ SameEntries(Released, t) /\ t.attempts = tab.attempts
    BY <1>1, <1>2 DEF Tab, SameEntries, Released
  <2>. HIDE DEF t
  <2>2. \/ tab' = t \/ tab' = EnterInterruptedState(t)
        \/ ~(tab.attempts >= MaxAutoRecoveryAttempts) /\ tab' = v
    BY <1>6 DEF ContinueLost, Finish, t
  <2>3. PICK u \in Tab : SameEntries(t, u) /\ EnterInterruptedState(t) = AppendImmediate(u, Marker)
    BY <2>1, EnterInterruptedIs
  <2>4. SameEntries(tab, t) /\ SameEntries(tab, u) /\ SameEntries(t, t)
    BY <1>2, <2>1, <2>3 DEF SameEntries
  <2>5. CASE ~(tab.attempts >= MaxAutoRecoveryAttempts) /\ tab' = v
    <3>1. t.attempts + 1 \in 0 .. MaxAutoRecoveryAttempts
      BY <1>1, <2>1, <2>5, BoundsAssumption DEF Tab
    <3>2. v \in Tab /\ SameEntries(t, v)
      BY <2>1, <3>1 DEF Tab, SameEntries, ScheduleRecovery
    <3>. HIDE DEF v
    <3>. QED  BY <2>1, <2>4, <2>5, <3>2, KeptForms, MarkerType
  <2>. QED  BY <2>1, <2>2, <2>3, <2>4, <2>5, MarkKept, KeptForms, MarkerType
<1>. QED  BY <1>4, <1>5, <1>6

LEMMA AnswerKept ==
    ASSUME QInv, ReconnectReturns \/ PingAnswers
    PROVE  Kept(tab')
<1>1. /\ tab \in Tab /\ Quiet(tab) /\ SameEntries(tab, tab)
      /\ Len(tab.pending) <= MaxPendingLogs
  BY DEF QInv, IInv, TypeOK, SameEntries
<1>. DEFINE a == [tab EXCEPT !.interrupted = FALSE]
            b == [tab EXCEPT !.recovering = FALSE]
            c == [tab EXCEPT !.probing = FALSE]
            v == ScheduleRecovery(tab, TRUE)
<1>2. /\ a \in Tab /\ SameEntries(tab, a) /\ b \in Tab /\ SameEntries(tab, b)
      /\ c \in Tab /\ SameEntries(tab, c)
  BY <1>1 DEF Tab, SameEntries
<1>3. \/ tab' = tab \/ tab' = c
      \/ tab' = FlushPendingLogs(CancelTimers(tab))
      \/ tab.attempts < MaxAutoRecoveryAttempts /\ tab' = v
      \/ tab' = EnterInterruptedState(tab)
      \/ \E s \in FreeStreams : \/ tab' = AttachTo(AppendImmediate(a, Marker), s)
                                \/ tab' = AttachTo(AppendImmediate(b, Marker), s)
  <2>1. CASE ReconnectReturns
    <3>1. PICK i \in DOMAIN tasks : Finish(i, tab) \/ Reattach(i, tab) \/ Await(i, tab, "ping")
      BY <2>1 DEF ReconnectReturns
    <3>. QED  BY <3>1 DEF Finish, Reattach, Await, FinishAttached
  <2>2. CASE PingAnswers
    <3>1. PICK i \in DOMAIN tasks, alive \in BOOLEAN :
              ProbeAnswered(i, alive) \/ RecoveryAnswered(i, alive)
      BY <2>2 DEF PingAnswers
    <3>2. CASE ProbeAnswered(i, alive)
      BY <3>2 DEF ProbeAnswered, Finish, LoseStream, AwaitCancel
    <3>3. CASE RecoveryAnswered(i, alive)
      <4>1. \/ Finish(i, tab)
            \/ tab.attempts < MaxAutoRecoveryAttempts /\ Finish(i, v)
            \/ Finish(i, EnterInterruptedState(tab))
            \/ FinishAttached(i, AppendImmediate(b, Marker))
        BY <3>3 DEF RecoveryAnswered
      <4>. HIDE DEF v, b
      <4>. QED  BY <4>1 DEF Finish, FinishAttached
    <3>. QED  BY <3>1, <3>2, <3>3
  <2>. QED  BY <2>1, <2>2
<1>4. CASE tab.attempts < MaxAutoRecoveryAttempts /\ tab' = v
  <2>1. tab.attempts + 1 \in 0 .. MaxAutoRecoveryAttempts
    BY <1>1, <1>4, BoundsAssumption DEF Tab
  <2>2. v \in Tab /\ SameEntries(tab, v)
    BY <1>1, <2>1 DEF Tab, SameEntries, ScheduleRecovery
  <2>. HIDE DEF v
  <2>. QED  BY <1>1, <1>4, <2>2, KeptForms, MarkerType
<1>5. CASE tab' = EnterInterruptedState(tab)
  <2>1. PICK u \in Tab : SameEntries(tab, u) /\ EnterInterruptedState(tab) = AppendImmediate(u, Marker)
    BY <1>1, EnterInterruptedIs
  <2>. QED  BY <1>5, <2>1, MarkKept
<1>6. CASE tab' = tab \/ tab' = c
  <2>1. tab' \in Tab /\ SameEntries(tab, tab')
    BY <1>1, <1>2, <1>6
  <2>. QED  BY <1>1, <2>1, KeptForms, MarkerType
<1>. HIDE DEF a, b, c, v
<1>7. CASE \E s \in FreeStreams : \/ tab' = AttachTo(AppendImmediate(a, Marker), s)
                                  \/ tab' = AttachTo(AppendImmediate(b, Marker), s)
  BY <1>2, <1>7, AttachKept
<1>. QED  BY <1>3, <1>4, <1>5, <1>6, <1>7, LoseKept

LEMMA StepKept ==
    ASSUME QInv, [Next]_vars
    PROVE  Kept(tab') \/ Discards
<1>1. CASE \/ Activate \/ StartLogcat \/ StopLogcat \/ ResumeLiveLogging
           \/ TogglePauseResume \/ ClearLogs \/ Dispose
  BY <1>1, UserKept
<1>2. CASE \E s \in Streams, e \in Lines \cup {ToolError} : Receive(s, e)
  BY <1>2, ReceiveKept
<1>3. CASE \/ Disconnect \/ Connect \/ FlushTick \/ WatchdogTick \/ RecoveryTimerFires
           \/ \E s \in Streams : StreamEnds(s) \/ CancelCompletes(s)
           \/ UNCHANGED vars
  BY <1>3, EventKept
<1>4. CASE TakeTurn
  <2>1. PICK i \in DOMAIN tasks : ContinueStart(i) \/ ContinueStop(i) \/ ContinueResume(i) \/ ContinueLost(i)
    BY <1>4 DEF TakeTurn, Ready
  <2>. QED  BY <2>1, StartKept, ContinueKept
<1>5. CASE ReconnectReturns \/ PingAnswers
  BY <1>5, AnswerKept
<1>. QED  BY <1>1, <1>2, <1>3, <1>4, <1>5 DEF Next

\* Whatever operations overlap and whatever streams deliver, a step only adds
\* entries after those captured, at most two, and loses old ones only to
\* retention; the user's clear, a restart and the closing of the tab are the
\* exceptions, each told by more than what is left of the entries.
THEOREM CaptureKeepsItsOrder == Spec => CapturedInOrder
<1>. DEFINE Step == \/ Extends(captured', captured, 2)
                    \/ ClearedByTheUser
                    \/ Restarted
                    \/ ~tab.disposed /\ tab'.disposed
<1>1. Init => QInv
  BY InitIInv DEF QInv, Init, Quiet
<1>2. QInv /\ [Next]_vars => QInv' /\ Step
  <2>. SUFFICES ASSUME QInv, [Next]_vars PROVE QInv' /\ Step
    OBVIOUS
  <2>1. Kept(tab') \/ Discards
    BY StepKept
  <2>2. QInv'
    <3>1. Quiet(tab') /\ IInv'
      BY <2>1, StepIInv DEF Kept, Discards, QInv
    <3>. QED  BY <3>1 DEF QInv, Quiet
  <2>3. /\ captured = Captured(tab) /\ captured' = Captured(tab')
        /\ tab \in Tab /\ tab' \in Tab
    BY <2>1 DEF captured, Captured, Kept, Discards, QInv, IInv, TypeOK
  <2>4. CASE Grows(tab, tab', 2)
    <3>1. Captured(tab) \in Seq(Entries) /\ Captured(tab') \in Seq(Entries)
      BY <2>3, CapturedType
    <3>2. Extends(Captured(tab'), Captured(tab), 2)
      BY <2>4, <3>1, FollowsExtends DEF Grows
    <3>. QED  BY <2>2, <2>3, <3>2
  <2>5. CASE (~tab.disposed /\ tab'.disposed) \/ Discards
    BY <2>2, <2>5 DEF Discards
  <2>. QED  BY <2>1, <2>4, <2>5 DEF Kept
<1>3. QInv /\ [Next]_vars => [Step]_vars
  BY <1>2
<1>. HIDE DEF Step
<1>4. Spec => [][Step]_vars
  BY <1>1, <1>2, <1>3, PTL DEF Spec
<1>. QED  BY <1>4 DEF CapturedInOrder, Step

-----------------------------------------------------------------------------
(* One operation at a time.                                                *)

\* t holds a stream that delivers.
Live(t, str) == t.sub # NoStream /\ str[t.sub] = "live"

\* Nothing but t's stream delivers, with the timers it needs; a stopped tab
\* has none.
Common(t, str) ==
    /\ \A s \in Streams : str[s] = "live" => t.sub = s
    /\ Live(t, str) => t.flushTimer /\ (HasWatchdog => t.watchdog)
    /\ t.state = "stopped" => ~t.interrupted /\ t.sub = NoStream

\* With no operation under way: a stream held delivers, a running tab without
\* one says so or is about to recover.
Free(t, c, str) ==
    /\ Common(t, str)
    /\ t.recovery # "off" => t.sub = NoStream /\ t.recovering
    /\ t.sub # NoStream => Live(t, str)
    /\ t.state = "running" => Live(t, str) \/ t.interrupted \/ t.recovery # "off"
    /\ ~c /\ t.state # "stopped" => Live(t, str) \/ t.interrupted

\* With the operation k under way: only a probe leaves the stream alone, and
\* a resume or a recovery began with the device connected.
Busy(t, c, str, k) ==
    /\ Common(t, str) /\ t.recovery = "off"
    /\ k.op = "probe" => Live(t, str)
    /\ k.op # "probe" => ~Live(t, str)
    /\ k.op = "recovery" => t.sub = NoStream
    /\ k.op \in {"recovery", "resume"} => c /\ t.state # "stopped"

Alone(t, c, str, ts) ==
    /\ Len(ts) <= 1
    /\ ~t.disposed =>
          /\ ts = <<>> => Free(t, c, str)
          /\ \A i \in DOMAIN ts : Busy(t, c, str, ts[i])

AInv == IInv /\ Alone(tab, connected, stream, tasks)

\* u differs from t in what the invariant does not speak of.
SameRun(t, u) ==
    /\ SameControl(t, u)
    /\ u.flushTimer = t.flushTimer /\ u.watchdog = t.watchdog

LEMMA SameRunKeeps ==
    ASSUME NEW t, NEW u, SameRun(t, u), NEW c, NEW str, NEW k
    PROVE  /\ Free(t, c, str) => Free(u, c, str)
           /\ Busy(t, c, str, k) => Busy(u, c, str, k)
<1>1. (Live(t, str) <=> Live(u, str)) /\ (Common(t, str) => Common(u, str))
  BY DEF SameRun, SameControl, Live, Common
<1>. QED  BY <1>1 DEF SameRun, SameControl, Free, Busy

LEMMA FlushRun ==
    ASSUME NEW t \in Tab
    PROVE  SameRun(t, FlushPendingLogs(t))
  BY DEF Tab, FlushPendingLogs, SameRun, SameControl

LEMMA MarkRun ==
    ASSUME NEW t \in Tab, Quiet(t), NEW e \in Entries
    PROVE  SameRun(t, AppendImmediate(t, e))
<1>. DEFINE f == FlushPendingLogs(t)
<1>1. SameRun(t, f) /\ f \in Tab
  BY FlushRun, FlushGrows DEF Grows
<1>. HIDE DEF f
<1>2. SameRun(f, [f EXCEPT !.log = Newest(Append(f.log, e))])
  BY <1>1 DEF Tab, SameRun, SameControl
<1>. QED  BY <1>1, <1>2 DEF AppendImmediate, f, SameRun, SameControl

\* The operation under way is the only one.
LEMMA OneTask ==
    ASSUME NEW ts \in Seq(Task), Len(ts) <= 1, NEW i \in DOMAIN ts
    PROVE  i = 1 /\ Len(ts) = 1 /\ RemoveAt(ts, i) = <<>>
<1>1. Len(ts) \in Nat /\ DOMAIN ts = 1 .. Len(ts)
  OBVIOUS
<1>2. i = 1 /\ Len(ts) = 1
  BY <1>1
<1>3. RemoveAt(ts, 1) = SubSeq(ts, 1, 0) \o SubSeq(ts, 2, 1)
  BY <1>2 DEF RemoveAt
<1>4. SubSeq(ts, 1, 0) = <<>> /\ SubSeq(ts, 2, 1) = <<>>
  BY <1>1, <1>2
<1>. QED  BY <1>2, <1>3, <1>4, EmptySeq, ConcatEmptySeq

LEMMA RoomIsFree ==
    ASSUME MaxTasks = 1, tasks \in Seq(Task), Room
    PROVE  tasks = <<>>
<1>1. Len(tasks) \in Nat /\ Len(tasks) < 1
  BY DEF Room
<1>. QED  BY <1>1

LEMMA AloneFree ==
    ASSUME tasks' = <<>>, ~tab'.disposed => Free(tab', connected', stream')
    PROVE  Alone(tab', connected', stream', tasks')
  BY DEF Alone

LEMMA AloneBusy ==
    ASSUME NEW k, tasks' = Append(<<>>, k),
           ~tab'.disposed => Busy(tab', connected', stream', k)
    PROVE  Alone(tab', connected', stream', tasks')
<1>1. tasks' = <<k>> /\ Len(tasks') = 1 /\ DOMAIN tasks' = {1} /\ tasks'[1] = k /\ tasks' # <<>>
  OBVIOUS
<1>. QED  BY <1>1 DEF Alone

\* A step of the tab alone.
LEMMA AloneTab ==
    ASSUME AInv, UNCHANGED <<connected, stream, tasks>>,
           tab'.disposed = tab.disposed \/ tab'.disposed,
           ~tab'.disposed =>
             /\ Free(tab, connected, stream) => Free(tab', connected, stream)
             /\ \A k \in Task : Busy(tab, connected, stream, k) => Busy(tab', connected, stream, k)
    PROVE  Alone(tab', connected', stream', tasks')
<1>1. \A i \in DOMAIN tasks : tasks[i] \in Task
  BY ElementOfSeq DEF AInv, IInv, TypeOK
<1>. QED  BY <1>1 DEF AInv, Alone

\* An operation that begins by cancelling the subscription.
LEMMA AloneCancel ==
    ASSUME NEW t \in Tab, NEW str \in [Streams -> {"free", "live", "draining"}],
           NEW op \in {"start", "stop", "lost", "resume"}, NEW flag, NEW probe,
           AwaitCancel(t, str, <<>>, op, flag, probe),
           \A s \in Streams : str[s] = "live" => t.sub = s,
           t.recovery = "off",
           t.state = "stopped" => ~t.interrupted /\ t.sub = NoStream,
           op = "resume" => connected' /\ t.state # "stopped"
    PROVE  Alone(tab', connected', stream', tasks')
<1>. DEFINE k == [op |-> op, wait |-> CancelWait(str, t.sub), flag |-> flag, probe |-> probe]
<1>1. tab' = t /\ stream' = Cancelled(str, t.sub) /\ tasks' = Append(<<>>, k)
  BY DEF AwaitCancel
<1>2. k.op = op
  OBVIOUS
<1>3. \A s \in Streams : stream'[s] # "live"
  BY <1>1, StreamsAssumption DEF Cancelled
<1>4. ~Live(tab', stream')
  BY <1>1, <1>3 DEF Live, Tab
<1>. HIDE DEF k
<1>5. Busy(tab', connected', stream', k)
  BY <1>1, <1>2, <1>3, <1>4 DEF Busy, Common
<1>. QED  BY <1>1, <1>5, AloneBusy

\* An operation that ends by attaching the tab to a new stream.
LEMMA AloneAttach ==
    ASSUME AInv, NEW i \in DOMAIN tasks, NEW t \in Tab, FinishAttached(i, t),
           connected' = connected, ~tab.disposed, tasks[i].op # "probe",
           t.recovery = "off", t.state # "stopped"
    PROVE  Alone(tab', connected', stream', tasks')
<1>1. PICK s \in FreeStreams :
        /\ tab' = AttachTo(t, s)
        /\ stream' = [stream EXCEPT ![s] = "live"]
        /\ tasks' = RemoveAt(tasks, i)
  BY DEF FinishAttached
<1>2. s \in Streams /\ s # NoStream /\ stream \in [Streams -> {"free", "live", "draining"}]
  BY StreamsAssumption DEF FreeStreams, AInv, IInv, TypeOK
<1>3. tasks' = <<>>
  BY <1>1, OneTask DEF AInv, Alone, IInv, TypeOK
<1>4. Busy(tab, connected, stream, tasks[i])
  BY DEF AInv, Alone
<1>5. \A r \in Streams : stream[r] # "live"
  BY <1>4, StreamsAssumption DEF Busy, Common, Live
<1>6. /\ tab'.sub = s /\ tab'.flushTimer = TRUE /\ tab'.watchdog = HasWatchdog
      /\ tab'.recovery = t.recovery /\ tab'.state = t.state
  BY <1>1 DEF AttachTo, Tab
<1>7. stream'[s] = "live" /\ \A r \in Streams : stream'[r] = "live" => r = s
  BY <1>1, <1>2, <1>5
<1>8. Live(tab', stream')
  BY <1>2, <1>6, <1>7 DEF Live
<1>9. Common(tab', stream')
  BY <1>6, <1>7 DEF Common
<1>10. Free(tab', connected', stream')
  BY <1>6, <1>8, <1>9 DEF Free
<1>. QED  BY <1>3, <1>10, AloneFree

\* An operation that ends, leaving t.
LEMMA AloneFinish ==
    ASSUME AInv, NEW i \in DOMAIN tasks, NEW t, Finish(i, t), connected' = connected,
           ~t.disposed => Free(t, connected, stream)
    PROVE  Alone(tab', connected', stream', tasks')
<1>1. tasks' = <<>>
  BY OneTask DEF AInv, Alone, IInv, TypeOK, Finish
<1>. QED  BY <1>1, AloneFree DEF Finish

\* What every step starts from.
LEMMA AloneFacts ==
    ASSUME AInv
    PROVE  /\ tab \in Tab /\ connected \in BOOLEAN /\ tasks \in Seq(Task)
           /\ stream \in [Streams -> {"free", "live", "draining"}]
           /\ Len(tasks) <= 1
           /\ tab.state = "stopped" => ~tab.recovering
           /\ ~tab.disposed => /\ tasks = <<>> => Free(tab, connected, stream)
                               /\ \A i \in DOMAIN tasks : Busy(tab, connected, stream, tasks[i])
           /\ ~tab.disposed => Common(tab, stream)
           /\ ~tab.disposed /\ tab.recovery # "off" => tasks = <<>>
<1>1. /\ tab \in Tab /\ connected \in BOOLEAN /\ tasks \in Seq(Task) /\ Len(tasks) <= 1
      /\ stream \in [Streams -> {"free", "live", "draining"}]
      /\ tab.state = "stopped" => ~tab.recovering
      /\ ~tab.disposed => /\ tasks = <<>> => Free(tab, connected, stream)
                          /\ \A i \in DOMAIN tasks : Busy(tab, connected, stream, tasks[i])
  BY DEF AInv, IInv, TypeOK, StoppedIsSettled, Alone
<1>2. tasks = <<>> \/ 1 \in DOMAIN tasks
  BY <1>1
<1>3. ~tab.disposed => Common(tab, stream)
  BY <1>1, <1>2 DEF Free, Busy
<1>4. ~tab.disposed /\ tab.recovery # "off" => tasks = <<>>
  BY <1>1, <1>2 DEF Busy
<1>. QED  BY <1>1, <1>3, <1>4

LEMMA CancelRun ==
    ASSUME NEW t \in Tab
    PROVE  /\ CancelTimers(t) \in Tab /\ CancelTimers(t).recovery = "off"
           /\ CancelTimers(t).sub = t.sub /\ CancelTimers(t).state = t.state
           /\ CancelTimers(t).interrupted = t.interrupted
           /\ CancelTimers(t).disposed = t.disposed
  BY DEF Tab, CancelTimers

\* An operation begins with the timers of t cancelled.
LEMMA AloneBegin ==
    ASSUME NEW t \in Tab, NEW op \in {"start", "stop", "resume"}, NEW flag, NEW probe,
           AInv, ~tab.disposed, tasks = <<>>,
           AwaitCancel(CancelTimers(t), stream, tasks, op, flag, probe),
           t.sub = tab.sub, t.interrupted = tab.interrupted,
           t.state = tab.state \/ t.state # "stopped",
           op = "resume" => connected' /\ t.state # "stopped"
    PROVE  Alone(tab', connected', stream', tasks')
<1>1. Common(tab, stream) /\ stream \in [Streams -> {"free", "live", "draining"}]
  BY AloneFacts
<1>. DEFINE u == CancelTimers(t)
<1>2. /\ u \in Tab /\ u.recovery = "off" /\ u.sub = tab.sub
      /\ u.state = "stopped" => ~u.interrupted /\ u.sub = NoStream
      /\ op = "resume" => u.state # "stopped"
      /\ \A s \in Streams : stream[s] = "live" => u.sub = s
  BY <1>1, CancelRun DEF Common
<1>. HIDE DEF u
<1>3. AwaitCancel(u, stream, <<>>, op, flag, probe)
  BY DEF u
<1>4. op \in {"start", "stop", "lost", "resume"}
  OBVIOUS
<1>. QED  BY <1>1, <1>2, <1>3, <1>4, AloneCancel

\* The tab loses its stream.
LEMMA AloneLose ==
    ASSUME AInv, ~tab.disposed, NEW str \in [Streams -> {"free", "live", "draining"}],
           \A s \in Streams : str[s] = "live" => stream[s] = "live",
           NEW rest, rest = <<>>, NEW stalled, NEW probe,
           LoseStream(tab, str, rest, stalled, probe)
    PROVE  Alone(tab', connected', stream', tasks')
<1>. DEFINE c == CancelTimers(tab)
            u == FlushPendingLogs(c)
<1>1. Common(tab, stream) /\ tab \in Tab
  BY AloneFacts
<1>2. /\ c \in Tab /\ c.recovery = "off" /\ c.sub = tab.sub /\ c.state = tab.state
      /\ c.interrupted = tab.interrupted /\ c.disposed = tab.disposed
  BY <1>1, CancelRun
<1>. HIDE DEF c
<1>3. SameRun(c, u) /\ u \in Tab
  BY <1>2, FlushRun, FlushGrows DEF Grows, Quiet
<1>4. AwaitCancel(u, str, <<>>, "lost", stalled, probe)
  BY DEF LoseStream, c
<1>. HIDE DEF u
<1>5. /\ u.recovery = "off"
      /\ u.state = "stopped" => ~u.interrupted /\ u.sub = NoStream
      /\ \A s \in Streams : str[s] = "live" => u.sub = s
  BY <1>1, <1>2, <1>3 DEF Common, SameRun, SameControl
<1>. QED  BY <1>3, <1>4, <1>5, AloneCancel

LEMMA UserAlone ==
    ASSUME MaxTasks = 1, AInv,
           \/ Activate \/ StartLogcat \/ StopLogcat \/ ResumeLiveLogging
           \/ TogglePauseResume \/ ClearLogs \/ Dispose
    PROVE  Alone(tab', connected', stream', tasks')
<1>1. /\ tab \in Tab /\ tasks \in Seq(Task)
      /\ ~tab.disposed => Common(tab, stream)
      /\ ~tab.disposed /\ tasks = <<>> => Free(tab, connected, stream)
      /\ 0 \in 0 .. MaxAutoRecoveryAttempts
  BY AloneFacts, BoundsAssumption
<1>2. CASE Activate
  <2>. DEFINE t == [tab EXCEPT !.activated = TRUE]
  <2>1. /\ t \in Tab /\ t.sub = tab.sub /\ t.interrupted = tab.interrupted
        /\ t.state = tab.state /\ SameRun(tab, t) /\ t.disposed = tab.disposed
    BY <1>1 DEF Tab, SameRun, SameControl
  <2>2. ~tab.disposed /\ tasks = <<>> /\ connected' = connected
    BY <1>1, <1>2, RoomIsFree DEF Activate
  <2>3. \/ AwaitCancel(CancelTimers(t), stream, tasks, "start", FALSE, FALSE)
        \/ tab' = t /\ UNCHANGED <<stream, tasks>>
    BY <1>2 DEF Activate, BeginStart
  <2>. HIDE DEF t
  <2>4. CASE AwaitCancel(CancelTimers(t), stream, tasks, "start", FALSE, FALSE)
    BY <2>1, <2>2, <2>4, AloneBegin
  <2>5. CASE tab' = t /\ UNCHANGED <<stream, tasks>>
    BY <2>1, <2>2, <2>5, SameRunKeeps, AloneTab
  <2>. QED  BY <2>3, <2>4, <2>5
<1>3. CASE StartLogcat \/ StopLogcat
  <2>1. ~tab.disposed /\ tasks = <<>>
    BY <1>1, <1>3, RoomIsFree DEF StartLogcat, StopLogcat
  <2>2. \/ AwaitCancel(CancelTimers(tab), stream, tasks, "start", FALSE, FALSE)
        \/ AwaitCancel(CancelTimers(tab), stream, tasks, "stop", FALSE, FALSE)
    BY <1>3 DEF StartLogcat, StopLogcat, BeginStart
  <2>. QED  BY <1>1, <2>1, <2>2, AloneBegin
<1>4. CASE ResumeLiveLogging
  <2>. DEFINE t == [tab EXCEPT !.attempts = 0]
  <2>1. /\ t \in Tab /\ t.sub = tab.sub /\ t.interrupted = tab.interrupted /\ t.state = tab.state
    BY <1>1 DEF Tab
  <2>2. ~tab.disposed /\ tasks = <<>> /\ connected' /\ tab.interrupted
    BY <1>1, <1>4, RoomIsFree DEF ResumeLiveLogging
  <2>3. AwaitCancel(CancelTimers(t), stream, tasks, "resume", TRUE, FALSE)
    BY <1>4 DEF ResumeLiveLogging, BeginResume
  <2>4. t.state # "stopped"
    BY <1>1, <2>1, <2>2 DEF Common
  <2>. HIDE DEF t
  <2>. QED  BY <2>1, <2>2, <2>3, <2>4, AloneBegin
<1>5. CASE TogglePauseResume
  <2>. DEFINE running == [tab EXCEPT !.state = "running"]
              paused == [tab EXCEPT !.state = "paused"]
  <2>1. ~tab.disposed /\ tasks = <<>> /\ connected' = connected
    BY <1>1, <1>5, RoomIsFree DEF TogglePauseResume
  <2>2. Free(tab, connected, stream) /\ Common(tab, stream)
    BY <1>1, <2>1
  <2>3. /\ running \in Tab /\ running.sub = tab.sub /\ running.interrupted = tab.interrupted
        /\ running.state = "running" /\ running.recovery = tab.recovery /\ running.disposed = tab.disposed
        /\ running.flushTimer = tab.flushTimer /\ running.watchdog = tab.watchdog
        /\ running.recovering = tab.recovering
    BY <1>1 DEF Tab
  <2>4. /\ paused \in Tab /\ paused.sub = tab.sub /\ paused.interrupted = tab.interrupted
        /\ paused.state = "paused" /\ paused.recovery = tab.recovery /\ paused.disposed = tab.disposed
        /\ paused.flushTimer = tab.flushTimer /\ paused.watchdog = tab.watchdog
        /\ paused.recovering = tab.recovering
    BY <1>1 DEF Tab
  <2>5. \/ /\ tab.state = "running"
           /\ tab' = AppendImmediate(paused, Marker) /\ UNCHANGED <<stream, tasks>>
        \/ /\ connected
           /\ AwaitCancel(CancelTimers(running), stream, tasks, "resume", FALSE, FALSE)
        \/ /\ tab.state = "paused" /\ (tab.interrupted \/ tab.sub = NoStream) /\ ~connected
           /\ tab' = running /\ UNCHANGED <<stream, tasks>>
        \/ /\ ~(tab.interrupted \/ tab.sub = NoStream)
           /\ tab' = AppendImmediate(running, Marker) /\ UNCHANGED <<stream, tasks>>
    BY <1>5 DEF TogglePauseResume, BeginResume, MustAttach
  <2>. HIDE DEF running, paused
  <2>6. CASE /\ tab.state = "running"
             /\ tab' = AppendImmediate(paused, Marker) /\ UNCHANGED <<stream, tasks>>
    <3>1. Live(paused, stream) <=> Live(tab, stream)
      BY <2>4 DEF Live
    <3>2. Free(paused, connected, stream)
      BY <2>2, <2>4, <2>6, <3>1 DEF Free, Common
    <3>3. SameRun(paused, tab')
      BY <2>1, <2>4, <2>6, MarkRun, MarkerType DEF Quiet
    <3>. QED  BY <2>1, <2>6, <3>2, <3>3, SameRunKeeps, AloneFree
  <2>7. CASE /\ connected
             /\ AwaitCancel(CancelTimers(running), stream, tasks, "resume", FALSE, FALSE)
    BY <2>1, <2>3, <2>7, AloneBegin
  <2>8. CASE /\ tab.state = "paused" /\ (tab.interrupted \/ tab.sub = NoStream) /\ ~connected
             /\ tab' = running /\ UNCHANGED <<stream, tasks>>
    <3>1. Live(running, stream) <=> Live(tab, stream)
      BY <2>3 DEF Live
    <3>2. tab.interrupted
      BY <2>2, <2>8 DEF Free, Live
    <3>3. Free(running, connected, stream)
      BY <2>2, <2>3, <2>8, <3>1, <3>2 DEF Free, Common
    <3>. QED  BY <2>1, <2>8, <3>3, AloneFree
  <2>9. CASE /\ ~(tab.interrupted \/ tab.sub = NoStream)
             /\ tab' = AppendImmediate(running, Marker) /\ UNCHANGED <<stream, tasks>>
    <3>1. Live(running, stream) <=> Live(tab, stream)
      BY <2>3 DEF Live
    <3>2. Live(tab, stream)
      BY <2>2, <2>9 DEF Free
    <3>3. Free(running, connected, stream)
      BY <2>2, <2>3, <2>9, <3>1, <3>2 DEF Free, Common
    <3>4. SameRun(running, tab')
      BY <2>1, <2>3, <2>9, MarkRun, MarkerType DEF Quiet
    <3>. QED  BY <2>1, <2>9, <3>3, <3>4, SameRunKeeps, AloneFree
  <2>. QED  BY <2>5, <2>6, <2>7, <2>8, <2>9
<1>6. CASE ClearLogs
  <2>1. SameRun(tab, tab') /\ UNCHANGED <<connected, stream, tasks>>
    BY <1>1, <1>6 DEF ClearLogs, ClearStoredLogs, Tab, SameRun, SameControl
  <2>. QED  BY <2>1, SameRunKeeps, AloneTab DEF SameRun, SameControl
<1>7. CASE Dispose
  <2>1. tab'.disposed /\ tasks' = tasks
    BY <1>1, <1>7 DEF Dispose, CancelTimers, Tab
  <2>. QED  BY <2>1, AloneFacts DEF Alone
<1>. QED  BY <1>2, <1>3, <1>4, <1>5, <1>6, <1>7

LEMMA EventAlone ==
    ASSUME MaxTasks = 1, AInv,
           \/ Disconnect \/ Connect
           \/ \E s \in Streams : StreamEnds(s) \/ CancelCompletes(s)
           \/ UNCHANGED vars
    PROVE  Alone(tab', connected', stream', tasks')
<1>1. /\ tab \in Tab /\ tasks \in Seq(Task) /\ Len(tasks) <= 1 /\ connected \in BOOLEAN
      /\ stream \in [Streams -> {"free", "live", "draining"}]
      /\ ~tab.disposed => Common(tab, stream)
      /\ ~tab.disposed => /\ tasks = <<>> => Free(tab, connected, stream)
                          /\ \A i \in DOMAIN tasks : Busy(tab, connected, stream, tasks[i])
  BY AloneFacts
<1>2. CASE UNCHANGED vars
  BY <1>2 DEF vars, AInv
<1>3. CASE Disconnect
  <2>1. CASE (tab.disposed \/ tab.state = "stopped") /\ UNCHANGED <<tab, stream, tasks>>
    BY <1>1, <2>1 DEF Alone, Free, Busy
  <2>2. CASE ~tab.disposed /\ Room /\ LoseStream(tab, stream, tasks, FALSE, FALSE)
    BY <1>1, <2>2, RoomIsFree, AloneLose
  <2>. QED  BY <1>3, <2>1, <2>2 DEF Disconnect
<1>4. CASE Connect
  <2>1. connected' = TRUE
    BY <1>4 DEF Connect
  <2>2. CASE UNCHANGED <<tab, stream, tasks>>
    BY <1>1, <2>1, <2>2 DEF Alone, Free, Busy
  <2>3. CASE ~tab.disposed /\ tab.state = "running" /\ Room /\ BeginResume(tab, FALSE)
    <3>1. tasks = <<>>
      BY <1>1, <2>3, RoomIsFree
    <3>2. AwaitCancel(CancelTimers(tab), stream, tasks, "resume", FALSE, FALSE)
      BY <2>3 DEF BeginResume
    <3>. QED  BY <1>1, <2>1, <2>3, <3>1, <3>2, AloneBegin
  <2>4. CASE /\ ~tab.disposed /\ tab.state = "paused"
             /\ tab' = AppendImmediate([tab EXCEPT !.interrupted = FALSE], Marker)
             /\ UNCHANGED <<stream, tasks>>
    <3>. DEFINE t == [tab EXCEPT !.interrupted = FALSE]
    <3>1. /\ t \in Tab /\ t.sub = tab.sub /\ t.interrupted = FALSE
          /\ t.state = "paused" /\ t.recovery = tab.recovery /\ t.disposed = tab.disposed
          /\ t.flushTimer = tab.flushTimer /\ t.watchdog = tab.watchdog
          /\ t.recovering = tab.recovering
      BY <1>1, <2>4 DEF Tab
    <3>2. tab' = AppendImmediate(t, Marker)
      BY <2>4
    <3>. HIDE DEF t
    <3>3. (Live(t, stream) <=> Live(tab, stream)) /\ Common(t, stream)
      BY <1>1, <2>4, <3>1 DEF Live, Common
    <3>4. tasks = <<>> => Free(t, TRUE, stream)
      BY <1>1, <2>4, <3>1, <3>3 DEF Free
    <3>5. \A i \in DOMAIN tasks : Busy(t, TRUE, stream, tasks[i])
      BY <1>1, <2>4, <3>1, <3>3 DEF Busy
    <3>6. SameRun(t, tab')
      BY <2>4, <3>1, <3>2, MarkRun, MarkerType DEF Quiet
    <3>7. /\ tasks = <<>> => Free(tab', TRUE, stream)
          /\ \A i \in DOMAIN tasks : Busy(tab', TRUE, stream, tasks[i])
      BY <3>4, <3>5, <3>6, SameRunKeeps
    <3>. QED  BY <1>1, <2>1, <2>4, <3>7 DEF Alone
  <2>. QED  BY <1>4, <2>2, <2>3, <2>4 DEF Connect
<1>5. ASSUME NEW s \in Streams, StreamEnds(s) PROVE Alone(tab', connected', stream', tasks')
  <2>. DEFINE ended == [stream EXCEPT ![s] = "free"]
  <2>1. /\ ended \in [Streams -> {"free", "live", "draining"}]
        /\ \A r \in Streams : ended[r] = "live" => stream[r] = "live"
    BY <1>1
  <2>2. stream[s] = "live" /\ connected' = connected
    BY <1>5 DEF StreamEnds
  <2>3. \/ /\ ~tab.disposed /\ Room /\ LoseStream(tab, ended, tasks, FALSE, FALSE)
        \/ /\ ~(~tab.disposed /\ tab.sub = s /\ tab.state # "stopped")
           /\ UNCHANGED <<tab, tasks>>
    BY <1>5 DEF StreamEnds
  <2>. HIDE DEF ended
  <2>4. CASE ~tab.disposed /\ Room /\ LoseStream(tab, ended, tasks, FALSE, FALSE)
    BY <1>1, <2>1, <2>4, RoomIsFree, AloneLose
  <2>5. CASE /\ ~(~tab.disposed /\ tab.sub = s /\ tab.state # "stopped")
             /\ UNCHANGED <<tab, tasks>>
    <3>1. tab.disposed
      BY <1>1, <2>2, <2>5, StreamsAssumption DEF Common
    <3>. QED  BY <1>1, <2>5, <3>1 DEF Alone
  <2>. QED  BY <2>3, <2>4, <2>5
<1>6. ASSUME NEW s \in Streams, CancelCompletes(s) PROVE Alone(tab', connected', stream', tasks')
  <2>1. /\ stream[s] = "draining" /\ stream' = [stream EXCEPT ![s] = "free"]
        /\ UNCHANGED <<tab, connected>>
        /\ tasks' = [i \in DOMAIN tasks |->
                       IF tasks[i].wait = s THEN [tasks[i] EXCEPT !.wait = Turn] ELSE tasks[i]]
    BY <1>6 DEF CancelCompletes
  <2>2. /\ DOMAIN tasks' = DOMAIN tasks
        /\ \A i \in DOMAIN tasks : tasks'[i].op = tasks[i].op
    <3>1. \A i \in DOMAIN tasks : tasks[i] \in Task
      BY <1>1, ElementOfSeq
    <3>. QED  BY <2>1, <3>1 DEF Task
  <2>3. tasks' \in Seq(Task)
    BY <1>6, StreamStep DEF AInv, IInv, TypeOK
  <2>4. Len(tasks') <= 1 /\ (tasks' = <<>> => tasks = <<>>)
    BY <1>1, <2>2, <2>3
  <2>5. \A r \in Streams : stream'[r] = "live" <=> stream[r] = "live"
    BY <1>1, <2>1
  <2>6. Live(tab, stream') <=> Live(tab, stream)
    BY <1>1, <2>5 DEF Live, Tab
  <2>7. ~tab.disposed => Common(tab, stream')
    BY <1>1, <2>5, <2>6 DEF Common
  <2>8. ~tab.disposed /\ tasks = <<>> => Free(tab, connected, stream')
    BY <1>1, <2>6, <2>7 DEF Free
  <2>9. ~tab.disposed => \A i \in DOMAIN tasks' : Busy(tab, connected, stream', tasks'[i])
    BY <1>1, <2>2, <2>6, <2>7 DEF Busy
  <2>. QED  BY <2>1, <2>4, <2>8, <2>9 DEF Alone
<1>. QED  BY <1>2, <1>3, <1>4, <1>5, <1>6

LEMMA ReceiveAlone ==
    ASSUME AInv, NEW s \in Streams, NEW e \in Lines \cup {ToolError}, Receive(s, e)
    PROVE  Alone(tab', connected', stream', tasks')
<1>1. /\ tab \in Tab /\ Common(tab, stream) /\ ~tab.disposed /\ stream[s] = "live"
      /\ UNCHANGED <<connected, stream, tasks>> /\ 0 \in 0 .. MaxAutoRecoveryAttempts
  BY AloneFacts, BoundsAssumption DEF Receive
<1>2. Live(tab, stream)
  BY <1>1, StreamsAssumption DEF Common, Live
<1>. DEFINE t == MarkStreamRecovered(tab)
            r == [tab EXCEPT !.interrupted = FALSE, !.recovering = FALSE,
                             !.attempts = 0, !.recovery = "off"]
            q == IF Len(t.pending) >= MaxPendingLogs THEN FlushPendingLogs(t) ELSE t
            u == [q EXCEPT !.pending = Append(@, e)]
<1>3. t = tab \/ t = r \/ t = AppendImmediate(r, Marker)
  BY DEF MarkStreamRecovered
<1>4. /\ r \in Tab /\ r.sub = tab.sub /\ r.state = tab.state /\ r.interrupted = FALSE
      /\ r.recovery = "off" /\ r.flushTimer = tab.flushTimer /\ r.watchdog = tab.watchdog
      /\ r.disposed = FALSE
  BY <1>1 DEF Tab
<1>5. \/ tab' = AppendImmediate(t, e)
      \/ tab' = t
      \/ e # ToolError /\ tab' = u
  BY DEF Receive
<1>. HIDE DEF r
<1>6. Live(r, stream) /\ Common(r, stream)
  BY <1>1, <1>2, <1>4 DEF Live, Common
<1>7. /\ Free(r, connected, stream)
      /\ \A k \in Task : Busy(tab, connected, stream, k) => Busy(r, connected, stream, k)
  <2>1. Free(r, connected, stream)
    BY <1>4, <1>6 DEF Free
  <2>2. ASSUME NEW k \in Task, Busy(tab, connected, stream, k) PROVE Busy(r, connected, stream, k)
    BY <1>2, <1>4, <1>6, <2>2 DEF Busy
  <2>. QED  BY <2>1, <2>2
<1>8. /\ t \in Tab /\ ~t.disposed
      /\ Free(tab, connected, stream) => Free(t, connected, stream)
      /\ \A k \in Task : Busy(tab, connected, stream, k) => Busy(t, connected, stream, k)
  <2>1. CASE t = tab
    BY <1>1, <2>1
  <2>2. CASE t = r
    BY <1>4, <1>7, <2>2
  <2>3. CASE t = AppendImmediate(r, Marker)
    <3>. HIDE DEF t
    <3>1. SameRun(r, t) /\ t \in Tab
      BY <1>4, <2>3, MarkRun, AppendImmediateGrows, MarkerType DEF Quiet, Grows
    <3>2. ~t.disposed
      BY <1>4, <3>1 DEF SameRun, SameControl
    <3>. QED  BY <1>7, <3>1, <3>2, SameRunKeeps
  <2>. QED  BY <1>3, <2>1, <2>2, <2>3
<1>. HIDE DEF t
<1>9. SameRun(t, tab')
  <2>1. CASE tab' = AppendImmediate(t, e)
    <3>1. e \in Entries
      BY DEF Entries
    <3>. QED  BY <1>8, <2>1, <3>1, MarkRun DEF Quiet
  <2>2. CASE tab' = t
    BY <2>2 DEF SameRun, SameControl
  <2>3. CASE e # ToolError /\ tab' = u
    <3>1. q \in Tab /\ SameRun(t, q)
      <4>1. CASE q = t
        BY <1>8, <4>1 DEF SameRun, SameControl
      <4>2. CASE q = FlushPendingLogs(t)
        <5>. HIDE DEF q
        <5>. QED  BY <1>8, <4>2, FlushRun, FlushGrows DEF Quiet, Grows
      <4>. QED  BY <4>1, <4>2
    <3>. HIDE DEF q
    <3>2. SameRun(q, u)
      BY <3>1 DEF Tab, SameRun, SameControl
    <3>. QED  BY <2>3, <3>1, <3>2 DEF SameRun, SameControl
  <2>. QED  BY <1>5, <2>1, <2>2, <2>3
<1>10. ~tab'.disposed
  BY <1>8, <1>9 DEF SameRun, SameControl
<1>11. Free(tab, connected, stream) => Free(tab', connected, stream)
  BY <1>8, <1>9, SameRunKeeps
<1>12. \A k \in Task : Busy(tab, connected, stream, k) => Busy(tab', connected, stream, k)
  <2>1. ASSUME NEW k \in Task, Busy(tab, connected, stream, k) PROVE Busy(tab', connected, stream, k)
    BY <1>8, <1>9, <2>1, SameRunKeeps
  <2>. QED  BY <2>1
<1>13. tab'.disposed = tab.disposed
  <2>1. tab'.disposed = t.disposed /\ t.disposed \in BOOLEAN /\ tab.disposed \in BOOLEAN
    BY <1>1, <1>8, <1>9 DEF SameRun, SameControl, Tab
  <2>. QED  BY <1>1, <1>8, <2>1
<1>. QED  BY <1>1, <1>11, <1>12, <1>13, AloneTab

LEMMA EnterRun ==
    ASSUME NEW t \in Tab, ~t.disposed
    PROVE  /\ EnterInterruptedState(t).interrupted = TRUE
           /\ EnterInterruptedState(t).recovery = "off"
           /\ EnterInterruptedState(t).sub = t.sub
           /\ EnterInterruptedState(t).state = t.state
           /\ EnterInterruptedState(t).disposed = FALSE
<1>. DEFINE u == [t EXCEPT !.recovering = FALSE, !.interrupted = TRUE,
                           !.recovery = "off", !.watchdog = FALSE]
<1>1. /\ u \in Tab /\ u.interrupted = TRUE /\ u.recovery = "off" /\ u.sub = t.sub
      /\ u.state = t.state /\ u.disposed = FALSE
  BY DEF Tab
<1>2. EnterInterruptedState(t) = AppendImmediate(u, Marker)
  BY DEF EnterInterruptedState
<1>. HIDE DEF u
<1>3. SameRun(u, AppendImmediate(u, Marker))
  BY <1>1, MarkRun, MarkerType DEF Quiet
<1>. QED  BY <1>1, <1>2, <1>3 DEF SameRun, SameControl

\* A tab without a stream that shows the banner, or is about to recover.
LEMMA ToldIsFree ==
    ASSUME NEW t, NEW c, t.sub = NoStream, t.state # "stopped",
           \A s \in Streams : stream[s] # "live",
           \/ t.interrupted /\ t.recovery = "off"
           \/ c /\ t.recovery # "off" /\ t.recovering
    PROVE  Free(t, c, stream)
<1>1. ~Live(t, stream)
  BY DEF Live
<1>2. Common(t, stream)
  BY <1>1 DEF Common
<1>. QED  BY <1>1, <1>2 DEF Free

LEMMA TimerAlone ==
    ASSUME MaxTasks = 1, AInv, FlushTick \/ WatchdogTick \/ RecoveryTimerFires
    PROVE  Alone(tab', connected', stream', tasks')
<1>1. /\ tab \in Tab /\ tasks \in Seq(Task) /\ connected \in BOOLEAN
      /\ ~tab.disposed => Common(tab, stream)
      /\ ~tab.disposed /\ tasks = <<>> => Free(tab, connected, stream)
      /\ ~tab.disposed /\ tab.recovery # "off" => tasks = <<>>
  BY AloneFacts
<1>2. CASE FlushTick
  <2>1. SameRun(tab, tab') /\ UNCHANGED <<connected, stream, tasks>>
    BY <1>1, <1>2, FlushRun DEF FlushTick
  <2>. QED  BY <2>1, SameRunKeeps, AloneTab DEF SameRun, SameControl
<1>3. CASE WatchdogTick
  <2>. DEFINE t == [tab EXCEPT !.probing = TRUE]
              k == [op |-> "probe", wait |-> "ping", flag |-> FALSE, probe |-> FALSE]
  <2>1. /\ tab' = t /\ tasks' = Append(tasks, k) /\ UNCHANGED <<connected, stream>>
        /\ tab.state = "running" /\ ~tab.interrupted /\ ~tab.recovering
    BY <1>3 DEF WatchdogTick
  <2>2. tasks = <<>>
    BY <1>1, <1>3, RoomIsFree DEF WatchdogTick
  <2>3. SameRun(tab, t)
    BY <1>1 DEF Tab, SameRun, SameControl
  <2>4. k.op = "probe"
    OBVIOUS
  <2>. HIDE DEF t, k
  <2>5. CASE ~tab.disposed
    <3>1. Free(tab, connected, stream) /\ Common(tab, stream)
      BY <1>1, <2>2, <2>5
    <3>2. tab.recovery = "off" /\ Live(tab, stream)
      BY <2>1, <3>1 DEF Free
    <3>3. Busy(tab, connected, stream, k)
      BY <2>4, <3>1, <3>2 DEF Busy
    <3>. QED  BY <2>1, <2>2, <2>3, <3>3, SameRunKeeps, AloneBusy
  <2>6. CASE tab.disposed
    BY <2>1, <2>2, <2>3, <2>6, AloneBusy DEF SameRun, SameControl
  <2>. QED  BY <2>5, <2>6
<1>4. CASE RecoveryTimerFires
  <2>. DEFINE t == [tab EXCEPT !.recovery = "off"]
              again == tab.recovery = "reconnect"
              k == [op |-> "recovery", flag |-> again, probe |-> FALSE,
                    wait |-> IF again THEN "reconnect" ELSE "ping"]
  <2>1. /\ t \in Tab /\ t.recovery = "off" /\ t.sub = tab.sub /\ t.state = tab.state
        /\ t.interrupted = tab.interrupted /\ t.disposed = tab.disposed
    BY <1>1 DEF Tab
  <2>2. UNCHANGED <<connected, stream>> /\ tab.recovery # "off"
    BY <1>4 DEF RecoveryTimerFires
  <2>3. k.op = "recovery"
    OBVIOUS
  <2>4. \/ tab.state = "stopped" /\ tab' = t /\ tasks' = tasks
        \/ tab.state # "stopped" /\ tab' = EnterInterruptedState(t) /\ tasks' = tasks
        \/ tab.state # "stopped" /\ connected /\ Room /\ tab' = t /\ tasks' = Append(tasks, k)
    BY <1>4 DEF RecoveryTimerFires
  <2>. HIDE DEF t, k
  <2>5. CASE tab.disposed
    <3>1. PICK u \in Tab : SameEntries(t, u) /\ EnterInterruptedState(t) = AppendImmediate(u, Marker)
      BY <2>1, EnterInterruptedIs
    <3>2. AppendImmediate(u, Marker).disposed = u.disposed
      BY <3>1 DEF AppendImmediate, FlushPendingLogs, Tab
    <3>3. tab'.disposed
      BY <2>1, <2>4, <2>5, <3>1, <3>2 DEF SameEntries
    <3>4. Len(tasks) <= 1
      BY AloneFacts
    <3>5. CASE tasks' = tasks
      BY <3>3, <3>4, <3>5 DEF Alone
    <3>6. CASE Room /\ tasks' = Append(tasks, k)
      <4>1. tasks = <<>>
        BY <1>1, <3>6, RoomIsFree
      <4>. QED  BY <3>3, <3>6, <4>1, AloneBusy
    <3>. QED  BY <2>4, <3>5, <3>6
  <2>6. CASE ~tab.disposed
    <3>1. tasks = <<>> /\ Free(tab, connected, stream) /\ Common(tab, stream)
      BY <1>1, <2>2, <2>6
    <3>2. tab.sub = NoStream /\ tab.recovering
      BY <2>2, <3>1 DEF Free
    <3>3. ~Live(t, stream) /\ \A s \in Streams : stream[s] # "live"
      BY <2>1, <3>1, <3>2, StreamsAssumption DEF Live, Common
    <3>4. CASE tab.state = "stopped" /\ tab' = t /\ tasks' = tasks
      BY <3>2, <3>4, AloneFacts
    <3>5. CASE tab.state # "stopped" /\ tab' = EnterInterruptedState(t) /\ tasks' = tasks
      <4>1. /\ tab'.interrupted = TRUE /\ tab'.recovery = "off" /\ tab'.sub = NoStream
            /\ tab'.state = tab.state
        BY <2>1, <2>6, <3>2, <3>5, EnterRun
      <4>2. Free(tab', connected, stream)
        BY <3>3, <3>5, <4>1, ToldIsFree
      <4>. QED  BY <2>2, <3>1, <3>5, <4>2, AloneFree
    <3>6. CASE tab.state # "stopped" /\ connected /\ Room /\ tab' = t /\ tasks' = Append(tasks, k)
      <4>1. Common(t, stream)
        BY <2>1, <3>1, <3>3 DEF Common
      <4>2. Busy(t, connected, stream, k)
        BY <2>1, <2>3, <3>2, <3>3, <3>6, <4>1 DEF Busy
      <4>. QED  BY <2>2, <3>1, <3>6, <4>2, AloneBusy
    <3>. QED  BY <2>4, <3>4, <3>5, <3>6
  <2>. QED  BY <2>5, <2>6
<1>. QED  BY <1>2, <1>3, <1>4

\* A task under way that is not a probe: nothing delivers.
LEMMA NothingDelivers ==
    ASSUME AInv, NEW i \in DOMAIN tasks, ~tab.disposed
    PROVE  /\ Busy(tab, connected, stream, tasks[i]) /\ tab.recovery = "off"
           /\ tasks[i].op # "probe" => \A s \in Streams : stream[s] # "live"
<1>1. Busy(tab, connected, stream, tasks[i])
  BY AloneFacts
<1>. QED  BY <1>1, StreamsAssumption DEF Busy, Common, Live

\* A task suspended again.
LEMMA AloneAwait ==
    ASSUME AInv, NEW i \in DOMAIN tasks, NEW t, NEW w, Await(i, t, w), connected' = connected,
           ~t.disposed => Busy(t, connected, stream, tasks[i])
    PROVE  Alone(tab', connected', stream', tasks')
<1>. DEFINE k == [tasks[i] EXCEPT !.wait = w]
<1>1. tasks[i] \in Task
  BY ElementOfSeq, AloneFacts
<1>2. k.op = tasks[i].op
  BY <1>1 DEF Task
<1>3. tab' = t /\ stream' = stream /\ tasks' = Append(RemoveAt(tasks, i), k)
  BY DEF Await
<1>. HIDE DEF k
<1>4. tasks' = Append(<<>>, k)
  BY <1>3, OneTask, AloneFacts
<1>5. ~t.disposed => Busy(t, connected, stream, k)
  BY <1>2 DEF Busy
<1>. QED  BY <1>3, <1>4, <1>5, AloneBusy

LEMMA TurnAlone ==
    ASSUME AInv, TakeTurn
    PROVE  Alone(tab', connected', stream', tasks')
<1>1. /\ tab \in Tab /\ connected' = connected /\ 0 \in 0 .. MaxAutoRecoveryAttempts
      /\ tab.disposed \in BOOLEAN /\ connected \in BOOLEAN
  BY AloneFacts, BoundsAssumption DEF TakeTurn, Tab
<1>2. PICK i \in DOMAIN tasks :
        ContinueStart(i) \/ ContinueStop(i) \/ ContinueResume(i) \/ ContinueLost(i)
  BY DEF TakeTurn, Ready
<1>. DEFINE r == Released
<1>3. /\ r \in Tab /\ r.sub = NoStream /\ r.recovery = tab.recovery /\ r.state = tab.state
      /\ r.interrupted = tab.interrupted /\ r.recovering = tab.recovering
      /\ r.disposed = tab.disposed /\ r.attempts = tab.attempts
  BY <1>1 DEF Released, Tab
<1>4. CASE tab.disposed /\ Finish(i, r)
  BY <1>1, <1>3, <1>4, AloneFinish
<1>5. ASSUME ~tab.disposed, tasks[i].op # "probe"
      PROVE  /\ tab.recovery = "off" /\ \A s \in Streams : stream[s] # "live"
             /\ Common(tab, stream) /\ Busy(tab, connected, stream, tasks[i])
  BY <1>5, NothingDelivers, AloneFacts
<1>. HIDE DEF r
<1>6. CASE ContinueStart(i)
  <2>. DEFINE t == [ClearStoredLogs(r) EXCEPT !.state = "running", !.interrupted = FALSE,
                                              !.recovering = FALSE, !.attempts = 0]
              w == AppendImmediate(t, Marker)
  <2>1. tasks[i].op = "start"
    BY <1>6 DEF ContinueStart
  <2>2. \/ tab.disposed /\ Finish(i, r)
        \/ ~tab.disposed /\ FinishAttached(i, w)
    BY <1>6 DEF ContinueStart, r
  <2>3. CASE ~tab.disposed /\ FinishAttached(i, w)
    <3>1. <<>> \in Seq(Lines) /\ <<>> \in Seq(Entries)
      BY EmptySeq
    <3>2. t \in Tab /\ t.state = "running" /\ t.recovery = tab.recovery /\ Quiet(t)
      BY <1>1, <1>3, <3>1 DEF ClearStoredLogs, Tab, Quiet
    <3>. HIDE DEF t
    <3>3. SameRun(t, w) /\ w \in Tab
      BY <3>2, MarkRun, AppendImmediateGrows, MarkerType DEF Grows
    <3>. HIDE DEF w
    <3>4. w.recovery = "off" /\ w.state # "stopped"
      BY <1>5, <2>1, <2>3, <3>2, <3>3 DEF SameRun, SameControl
    <3>. QED  BY <1>1, <2>1, <2>3, <3>3, <3>4, AloneAttach
  <2>. QED  BY <1>4, <2>2, <2>3
<1>7. CASE ContinueStop(i)
  <2>. DEFINE t == [r EXCEPT !.state = "stopped", !.interrupted = FALSE,
                             !.recovering = FALSE, !.attempts = 0]
              w == AppendImmediate(t, Marker)
  <2>1. tasks[i].op = "stop"
    BY <1>7 DEF ContinueStop
  <2>2. \/ tab.disposed /\ Finish(i, r)
        \/ ~tab.disposed /\ Finish(i, w)
    BY <1>7 DEF ContinueStop, r
  <2>3. CASE ~tab.disposed /\ Finish(i, w)
    <3>1. /\ t \in Tab /\ t.state = "stopped" /\ t.recovery = tab.recovery /\ t.disposed = tab.disposed
          /\ t.sub = NoStream /\ t.interrupted = FALSE
      BY <1>1, <1>3 DEF Tab
    <3>. HIDE DEF t
    <3>2. SameRun(t, w)
      BY <2>3, <3>1, MarkRun, MarkerType DEF Quiet
    <3>3. ~Live(t, stream) /\ Common(t, stream)
      BY <1>5, <2>1, <2>3, <3>1 DEF Live, Common
    <3>4. Free(t, connected, stream)
      BY <1>5, <2>1, <2>3, <3>1, <3>3 DEF Free
    <3>. HIDE DEF w
    <3>5. Free(w, connected, stream)
      BY <3>2, <3>4, SameRunKeeps
    <3>. QED  BY <1>1, <2>3, <3>5, AloneFinish
  <2>. QED  BY <1>4, <2>2, <2>3
<1>8. CASE ContinueResume(i)
  <2>. DEFINE f == FlushPendingLogs(r)
              t == [f EXCEPT !.state = "running", !.recovering = FALSE, !.attempts = 0]
              u == [t EXCEPT !.interrupted = FALSE]
              w == AppendImmediate(u, Marker)
  <2>1. tasks[i].op = "resume"
    BY <1>8 DEF ContinueResume
  <2>2. \/ tab.disposed /\ Finish(i, r)
        \/ ~tab.disposed /\ Await(i, t, "reconnect")
        \/ ~tab.disposed /\ FinishAttached(i, w)
    BY <1>8 DEF ContinueResume, Reattach, r
  <2>3. CASE ~tab.disposed
    <3>1. f \in Tab /\ SameRun(r, f)
      BY <1>3, <2>3, FlushRun, FlushGrows DEF Quiet, Grows
    <3>. HIDE DEF f
    <3>2. /\ t \in Tab /\ t.state = "running" /\ t.recovery = f.recovery /\ t.sub = f.sub
          /\ u \in Tab /\ u.state = "running" /\ u.recovery = f.recovery /\ u.disposed = f.disposed
      BY <1>1, <3>1 DEF Tab
    <3>. HIDE DEF t, u
    <3>3. /\ t.sub = NoStream /\ t.recovery = "off" /\ u.recovery = "off" /\ ~u.disposed
      BY <1>3, <1>5, <2>1, <2>3, <3>1, <3>2 DEF SameRun, SameControl
    <3>4. CASE Await(i, t, "reconnect")
      <4>1. ~Live(t, stream) /\ Common(t, stream)
        BY <1>5, <2>1, <2>3, <3>2, <3>3 DEF Live, Common
      <4>2. Busy(t, connected, stream, tasks[i])
        BY <1>5, <2>1, <2>3, <3>2, <3>3, <4>1 DEF Busy
      <4>. QED  BY <1>1, <3>4, <4>2, AloneAwait
    <3>5. CASE FinishAttached(i, w)
      <4>1. SameRun(u, w) /\ w \in Tab
        BY <3>2, <3>3, MarkRun, AppendImmediateGrows, MarkerType DEF Quiet, Grows
      <4>. HIDE DEF w
      <4>2. w.recovery = "off" /\ w.state # "stopped"
        BY <3>2, <3>3, <4>1 DEF SameRun, SameControl
      <4>. QED  BY <1>1, <2>1, <2>3, <3>5, <4>1, <4>2, AloneAttach
    <3>. QED  BY <2>2, <2>3, <3>4, <3>5
  <2>. QED  BY <1>4, <2>2, <2>3
<1>9. CASE ContinueLost(i)
  <2>. DEFINE t == IF tasks[i].probe THEN [r EXCEPT !.probing = FALSE] ELSE r
              reconnect == tasks[i].flag \/ tab.attempts >= 1
              v == ScheduleRecovery(t, reconnect)
  <2>1. /\ t \in Tab /\ t.sub = NoStream /\ t.recovery = tab.recovery /\ t.state = tab.state
        /\ t.interrupted = tab.interrupted /\ t.disposed = tab.disposed
    BY <1>3 DEF Tab
  <2>. HIDE DEF t
  <2>2. tasks[i].op = "lost"
    BY <1>9 DEF ContinueLost
  <2>3. \/ (tab.disposed \/ tab.state = "stopped") /\ Finish(i, t)
        \/ ~tab.disposed /\ tab.state # "stopped" /\ Finish(i, EnterInterruptedState(t))
        \/ ~tab.disposed /\ tab.state # "stopped" /\ connected /\ Finish(i, v)
    BY <1>9 DEF ContinueLost, t, r
  <2>4. CASE (tab.disposed \/ tab.state = "stopped") /\ Finish(i, t)
    <3>1. CASE tab.disposed
      BY <1>1, <2>1, <2>4, <3>1, AloneFinish
    <3>2. CASE ~tab.disposed
      <4>1. ~Live(t, stream) /\ Common(t, stream)
        BY <1>5, <2>1, <2>2, <3>2 DEF Live, Common
      <4>2. Free(t, connected, stream)
        BY <1>5, <2>1, <2>2, <2>4, <3>2, <4>1 DEF Free
      <4>. QED  BY <1>1, <2>4, <4>2, AloneFinish
    <3>. QED  BY <1>1, <3>1, <3>2
  <2>5. CASE ~tab.disposed /\ tab.state # "stopped" /\ Finish(i, EnterInterruptedState(t))
    <3>1. /\ EnterInterruptedState(t).interrupted = TRUE /\ EnterInterruptedState(t).recovery = "off"
          /\ EnterInterruptedState(t).sub = NoStream /\ EnterInterruptedState(t).state = tab.state
      BY <2>1, <2>5, EnterRun
    <3>2. Free(EnterInterruptedState(t), connected, stream)
      BY <1>5, <2>2, <2>5, <3>1, ToldIsFree
    <3>. QED  BY <1>1, <2>5, <3>2, AloneFinish
  <2>6. CASE ~tab.disposed /\ tab.state # "stopped" /\ connected /\ Finish(i, v)
    <3>1. /\ v.sub = NoStream /\ v.state = tab.state /\ v.recovery # "off" /\ v.recovering
      BY <2>1 DEF ScheduleRecovery, Tab
    <3>. HIDE DEF v
    <3>2. Free(v, connected, stream)
      BY <1>5, <2>2, <2>6, <3>1, ToldIsFree
    <3>. QED  BY <1>1, <2>6, <3>2, AloneFinish
  <2>. QED  BY <2>3, <2>4, <2>5, <2>6
<1>. QED  BY <1>2, <1>6, <1>7, <1>8, <1>9

LEMMA ReconnectAlone ==
    ASSUME AInv, ReconnectReturns
    PROVE  Alone(tab', connected', stream', tasks')
<1>1. tab \in Tab /\ connected' = connected /\ connected \in BOOLEAN
  BY AloneFacts DEF ReconnectReturns
<1>2. PICK i \in DOMAIN tasks :
        \/ /\ tasks[i].op = "resume"
           /\ \/ (tab.disposed \/ ~connected) /\ Finish(i, tab)
              \/ ~tab.disposed /\ connected /\ Reattach(i, tab)
        \/ /\ tasks[i].op = "recovery"
           /\ \/ (tab.disposed \/ tab.state = "stopped") /\ Finish(i, tab)
              \/ ~tab.disposed /\ tab.state # "stopped" /\ Await(i, tab, "ping")
  BY DEF ReconnectReturns
<1>3. CASE tab.disposed
  <2>1. Finish(i, tab)
    BY <1>2, <1>3
  <2>. QED  BY <1>1, <1>3, <2>1, AloneFinish
<1>4. CASE ~tab.disposed
  <2>1. Busy(tab, connected, stream, tasks[i]) /\ tab.recovery = "off"
    BY <1>4, NothingDelivers
  <2>2. connected /\ tab.state # "stopped"
    BY <1>2, <2>1 DEF Busy
  <2>3. CASE tasks[i].op = "resume" /\ Reattach(i, tab)
    <3>. DEFINE u == [tab EXCEPT !.interrupted = FALSE]
                w == AppendImmediate(u, Marker)
    <3>1. /\ u \in Tab /\ u.state = tab.state /\ u.recovery = tab.recovery /\ u.disposed = tab.disposed
      BY <1>1 DEF Tab
    <3>2. FinishAttached(i, w)
      BY <2>3 DEF Reattach
    <3>. HIDE DEF u
    <3>3. SameRun(u, w) /\ w \in Tab
      BY <1>4, <3>1, MarkRun, AppendImmediateGrows, MarkerType DEF Quiet, Grows
    <3>. HIDE DEF w
    <3>4. w.recovery = "off" /\ w.state # "stopped" /\ tasks[i].op # "probe"
      BY <2>1, <2>2, <2>3, <3>1, <3>3 DEF SameRun, SameControl
    <3>. QED  BY <1>1, <1>4, <3>2, <3>3, <3>4, AloneAttach
  <2>4. CASE Await(i, tab, "ping")
    BY <1>1, <2>1, <2>4, AloneAwait
  <2>. QED  BY <1>2, <1>4, <2>2, <2>3, <2>4
<1>. QED  BY <1>3, <1>4

LEMMA PingAlone ==
    ASSUME AInv, PingAnswers
    PROVE  Alone(tab', connected', stream', tasks')
<1>1. /\ tab \in Tab /\ connected' = connected /\ connected \in BOOLEAN
      /\ stream \in [Streams -> {"free", "live", "draining"}]
  BY AloneFacts DEF PingAnswers
<1>2. PICK i \in DOMAIN tasks, alive \in BOOLEAN : ProbeAnswered(i, alive) \/ RecoveryAnswered(i, alive)
  BY DEF PingAnswers
<1>3. CASE ProbeAnswered(i, alive)
  <2>. DEFINE t == [tab EXCEPT !.probing = FALSE]
  <2>1. tasks[i].op = "probe" /\ SameRun(tab, t)
    BY <1>1, <1>3 DEF ProbeAnswered, Tab, SameRun, SameControl
  <2>2. \/ Finish(i, t)
        \/ ~tab.disposed /\ LoseStream(tab, stream, RemoveAt(tasks, i), TRUE, TRUE)
    BY <1>3 DEF ProbeAnswered
  <2>. HIDE DEF t
  <2>3. CASE Finish(i, t)
    <3>1. ASSUME ~tab.disposed PROVE Free(t, connected, stream)
      <4>1. Busy(tab, connected, stream, tasks[i])
        BY <3>1, NothingDelivers
      <4>2. Live(tab, stream) /\ Common(tab, stream) /\ tab.recovery = "off"
        BY <2>1, <4>1 DEF Busy
      <4>3. Free(tab, connected, stream)
        BY <4>2 DEF Free
      <4>. QED  BY <2>1, <4>3, SameRunKeeps
    <3>2. t.disposed = tab.disposed
      BY <2>1 DEF SameRun, SameControl
    <3>. QED  BY <1>1, <2>3, <3>1, <3>2, AloneFinish
  <2>4. CASE ~tab.disposed /\ LoseStream(tab, stream, RemoveAt(tasks, i), TRUE, TRUE)
    <3>1. RemoveAt(tasks, i) = <<>>
      BY AloneFacts, OneTask
    <3>. QED  BY <1>1, <2>4, <3>1, AloneLose
  <2>. QED  BY <2>2, <2>3, <2>4
<1>4. CASE RecoveryAnswered(i, alive)
  <2>. DEFINE u == [tab EXCEPT !.recovering = FALSE]
              w == AppendImmediate(u, Marker)
              v == ScheduleRecovery(tab, TRUE)
  <2>1. tasks[i].op = "recovery"
    BY <1>4 DEF RecoveryAnswered
  <2>2. \/ (tab.disposed \/ tab.state = "stopped") /\ Finish(i, tab)
        \/ ~tab.disposed /\ Finish(i, v)
        \/ ~tab.disposed /\ Finish(i, EnterInterruptedState(tab))
        \/ ~tab.disposed /\ FinishAttached(i, w)
    BY <1>4 DEF RecoveryAnswered
  <2>3. CASE tab.disposed /\ Finish(i, tab)
    BY <1>1, <2>3, AloneFinish
  <2>4. CASE ~tab.disposed
    <3>1. /\ Busy(tab, connected, stream, tasks[i]) /\ tab.recovery = "off"
          /\ \A s \in Streams : stream[s] # "live"
      BY <2>1, <2>4, NothingDelivers
    <3>2. connected /\ tab.state # "stopped" /\ tab.sub = NoStream
      BY <2>1, <3>1 DEF Busy
    <3>3. CASE Finish(i, v)
      <4>1. v.sub = tab.sub /\ v.state = tab.state /\ v.recovery # "off" /\ v.recovering
        BY <1>1 DEF ScheduleRecovery, Tab
      <4>. HIDE DEF v
      <4>2. Free(v, connected, stream)
        BY <3>1, <3>2, <4>1, ToldIsFree
      <4>. QED  BY <1>1, <3>3, <4>2, AloneFinish
    <3>4. CASE Finish(i, EnterInterruptedState(tab))
      <4>1. /\ EnterInterruptedState(tab).interrupted = TRUE /\ EnterInterruptedState(tab).recovery = "off"
            /\ EnterInterruptedState(tab).sub = NoStream /\ EnterInterruptedState(tab).state = tab.state
        BY <1>1, <2>4, <3>2, EnterRun
      <4>2. Free(EnterInterruptedState(tab), connected, stream)
        BY <3>1, <3>2, <4>1, ToldIsFree
      <4>. QED  BY <1>1, <3>4, <4>2, AloneFinish
    <3>5. CASE FinishAttached(i, w)
      <4>1. /\ u \in Tab /\ u.state = tab.state /\ u.recovery = tab.recovery /\ u.disposed = tab.disposed
        BY <1>1 DEF Tab
      <4>. HIDE DEF u
      <4>2. SameRun(u, w) /\ w \in Tab
        BY <2>4, <4>1, MarkRun, AppendImmediateGrows, MarkerType DEF Quiet, Grows
      <4>. HIDE DEF w
      <4>3. w.recovery = "off" /\ w.state # "stopped" /\ tasks[i].op # "probe"
        BY <2>1, <3>1, <3>2, <4>1, <4>2 DEF SameRun, SameControl
      <4>. QED  BY <1>1, <2>4, <3>5, <4>2, <4>3, AloneAttach
    <3>. HIDE DEF v, w, u
    <3>. QED  BY <2>2, <2>4, <3>2, <3>3, <3>4, <3>5
  <2>. HIDE DEF v, w, u
  <2>. QED  BY <1>1, <2>2, <2>3, <2>4
<1>. QED  BY <1>2, <1>3, <1>4

LEMMA InitAlone == Init => AInv
<1>. SUFFICES ASSUME Init PROVE AInv
  OBVIOUS
<1>1. /\ tab.sub = NoStream /\ tab.state = "stopped" /\ tab.interrupted = FALSE
      /\ tab.recovery = "off" /\ \A s \in Streams : stream[s] = "free"
  BY DEF Init
<1>2. ~Live(tab, stream) /\ Common(tab, stream)
  BY <1>1 DEF Live, Common
<1>3. Free(tab, connected, stream)
  BY <1>1, <1>2 DEF Free
<1>4. tasks = <<>>
  BY DEF Init
<1>5. Alone(tab, connected, stream, tasks)
  BY <1>3, <1>4 DEF Alone
<1>. QED  BY <1>5, InitIInv DEF AInv

LEMMA StepAlone == MaxTasks = 1 /\ AInv /\ [Next]_vars => AInv'
<1>. SUFFICES ASSUME MaxTasks = 1, AInv, [Next]_vars PROVE AInv'
  OBVIOUS
<1>1. CASE \/ Activate \/ StartLogcat \/ StopLogcat \/ ResumeLiveLogging
           \/ TogglePauseResume \/ ClearLogs \/ Dispose
  <2>1. Alone(tab', connected', stream', tasks')
    BY <1>1, UserAlone
  <2>. QED  BY <2>1, StepIInv DEF AInv
<1>2. CASE \/ Disconnect \/ Connect
           \/ \E s \in Streams : StreamEnds(s) \/ CancelCompletes(s)
           \/ UNCHANGED vars
  <2>1. Alone(tab', connected', stream', tasks')
    BY <1>2, EventAlone
  <2>. QED  BY <2>1, StepIInv DEF AInv
<1>3. CASE \E s \in Streams, e \in Lines \cup {ToolError} : Receive(s, e)
  <2>1. Alone(tab', connected', stream', tasks')
    BY <1>3, ReceiveAlone
  <2>. QED  BY <2>1, StepIInv DEF AInv
<1>4. CASE FlushTick \/ WatchdogTick \/ RecoveryTimerFires
  <2>1. Alone(tab', connected', stream', tasks')
    BY <1>4, TimerAlone
  <2>. QED  BY <2>1, StepIInv DEF AInv
<1>5. CASE TakeTurn \/ ReconnectReturns \/ PingAnswers
  <2>1. Alone(tab', connected', stream', tasks')
    BY <1>5, TurnAlone, ReconnectAlone, PingAlone
  <2>. QED  BY <2>1, StepIInv DEF AInv
<1>. QED  BY <1>1, <1>2, <1>3, <1>4, <1>5 DEF Next

\* While operations do not overlap, the tab owns its only stream, and a
\* running tab captures, is about to, or says that it does not.
THEOREM RunningTabIsServed ==
    ASSUME MaxTasks = 1
    PROVE  Spec => []RunningIsServed
<1>1. AInv => RunningIsServed
  <2>. SUFFICES ASSUME AInv PROVE RunningIsServed
    OBVIOUS
  <2>1. ~tab.disposed => Common(tab, stream)
    BY AloneFacts
  <2>2. OwnsItsStream
    BY <2>1 DEF OwnsItsStream, Common
  <2>3. ASSUME tab.state = "running", ~tab.disposed, tasks = <<>>, tab.recovery = "off",
               ~tab.interrupted
        PROVE  /\ tab.sub # NoStream /\ stream[tab.sub] = "live"
               /\ tab.flushTimer /\ (HasWatchdog => tab.watchdog)
    <3>1. Free(tab, connected, stream)
      BY <2>3, AloneFacts
    <3>2. Live(tab, stream)
      BY <2>3, <3>1 DEF Free
    <3>. QED  BY <2>1, <2>3, <3>2 DEF Live, Common
  <2>. QED  BY <2>2, <2>3 DEF RunningIsServed
<1>2. AInv /\ [Next]_vars => AInv'
  BY StepAlone
<1>. QED  BY InitAlone, <1>1, <1>2, PTL DEF Spec
=============================================================================
