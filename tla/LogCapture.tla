----------------------------- MODULE LogCapture -----------------------------
(***************************************************************************)
(* Live capture of one log tab: LogController of                           *)
(* lib/features/logs/log_controller.dart, without filtering and search.    *)
(*                                                                         *)
(* The controller runs on one event loop.  An action below is one event    *)
(* handler up to its first await; what follows the await is a task, an     *)
(* entry of `tasks` that says which operation goes on and what it waits    *)
(* for.  A task whose future has completed waits for its Turn: turns run   *)
(* before the next event, in the order in which the futures were awaited.  *)
(***************************************************************************)
EXTENDS Integers, Sequences, FiniteSets, SequencesExt

CONSTANTS
    Streams,                 \* slots for the log streams that exist at once
    NoStream, Turn,          \* the null subscription; "runs next"
    Lines,                   \* lines a device can log
    ToolError,               \* an entry with isSpecialEntry: a tool error
    Marker,                  \* a session-state entry (started, paused, ...)
    MaxAutoRecoveryAttempts, \* _maxAutoRecoveryAttempts
    MaxPendingLogs,          \* maxPendingLogs
    Retained,                \* bound: newest stored entries the model keeps
    MaxTasks,                \* bound: operations under way at once
    HasWatchdog,             \* _supportsStallWatchdog: an Android device
    StopIsCalled             \* whether stopLogcat, which only tests call, is

ASSUME StreamsAssumption ==
    /\ IsFiniteSet(Streams)
    /\ NoStream \notin Streams
    /\ Turn \notin Streams
    /\ \A w \in {"ping", "reconnect"} : w \notin Streams /\ w # Turn

ASSUME BoundsAssumption ==
    /\ MaxAutoRecoveryAttempts \in Nat
    /\ MaxPendingLogs \in Nat \ {0}
    /\ Retained \in Nat
    /\ MaxTasks \in Nat \ {0}
    /\ HasWatchdog \in BOOLEAN
    /\ StopIsCalled \in BOOLEAN

VARIABLES
    tab,        \* the fields of the LogController
    connected,  \* session.isConnected
    stream,     \* the status of each stream slot
    tasks       \* the operations suspended at an await, oldest wait first

vars == <<tab, connected, stream, tasks>>

Entries == Lines \cup {ToolError, Marker}
Operations == {"start", "stop", "resume", "lost", "recovery", "probe"}

Tab == [state       : {"stopped", "running", "paused"},
        sub         : Streams \cup {NoStream},
        flushTimer  : BOOLEAN,
        watchdog    : BOOLEAN,
        recovery    : {"off", "gentle", "reconnect"},
        interrupted : BOOLEAN,
        recovering  : BOOLEAN,
        attempts    : 0 .. MaxAutoRecoveryAttempts,
        probing     : BOOLEAN,
        disposed    : BOOLEAN,
        activated   : BOOLEAN,
        pending     : Seq(Lines),
        log         : Seq(Entries)]

\* flag: resume(reconnect), lost(stalled), or the timer's captured reconnect;
\* probe: a lost that the watchdog's probe awaits.
Task == [op    : Operations,
         wait  : Streams \cup {Turn, "ping", "reconnect"},
         flag  : BOOLEAN,
         probe : BOOLEAN]

TypeOK ==
    /\ tab \in Tab
    /\ connected \in BOOLEAN
    /\ stream \in [Streams -> {"free", "live", "draining"}]
    /\ tasks \in Seq(Task)
    /\ Len(tab.pending) <= MaxPendingLogs

Init ==
    /\ tab = [state |-> "stopped", sub |-> NoStream,
              flushTimer |-> FALSE, watchdog |-> FALSE, recovery |-> "off",
              interrupted |-> FALSE, recovering |-> FALSE, attempts |-> 0,
              probing |-> FALSE, disposed |-> FALSE, activated |-> FALSE,
              pending |-> <<>>, log |-> <<>>]
    /\ connected \in BOOLEAN
    /\ stream = [s \in Streams |-> "free"]
    /\ tasks = <<>>

-----------------------------------------------------------------------------
(* The synchronous helpers, as functions of the tab.                       *)

\* What LogBuffer keeps of s.
Newest(s) ==
    SubSeq(s, IF Len(s) > Retained THEN Len(s) - Retained + 1 ELSE 1, Len(s))

FlushPendingLogs(t) ==
    IF t.disposed THEN t
    ELSE [t EXCEPT !.log = Newest(t.log \o t.pending), !.pending = <<>>]

\* Deviation: appends around the queue.
AppendImmediateAround(t, e) == [t EXCEPT !.log = Newest(Append(t.log, e))]

AppendImmediate(t, e) ==
    LET f == FlushPendingLogs(t)
    IN  [f EXCEPT !.log = Newest(Append(f.log, e))]

CancelTimers(t) ==
    [t EXCEPT !.flushTimer = FALSE, !.watchdog = FALSE, !.recovery = "off"]

ClearStoredLogs(t) == [t EXCEPT !.log = <<>>, !.pending = <<>>]

EnterInterruptedState(t) ==
    AppendImmediate(
        [t EXCEPT !.recovering = FALSE, !.interrupted = TRUE,
                  !.recovery = "off", !.watchdog = FALSE],
        Marker)

ScheduleRecovery(t, reconnect) ==
    [t EXCEPT !.recovering = TRUE, !.attempts = @ + 1,
              !.recovery = IF reconnect THEN "reconnect" ELSE "gentle"]

MarkStreamRecovered(t) ==
    LET r == [t EXCEPT !.interrupted = FALSE, !.recovering = FALSE,
                       !.attempts = 0, !.recovery = "off"]
    IN  IF ~(t.interrupted \/ t.recovering \/ t.attempts > 0) THEN t
        ELSE IF t.interrupted THEN AppendImmediate(r, Marker) ELSE r

\* Deviation: forgets the flush timer.
AttachToUnflushed(t, s) == [t EXCEPT !.sub = s, !.watchdog = HasWatchdog]

\* _attachLogStream, _startFlushTimer and _startWatchdog, always together.
AttachTo(t, s) ==
    [t EXCEPT !.sub = s, !.flushTimer = TRUE, !.watchdog = HasWatchdog]

-----------------------------------------------------------------------------
(* Tasks.                                                                  *)

Ready == {i \in DOMAIN tasks : tasks[i].wait = Turn}

\* No continuation is due: the event loop takes the next event.
Idle == Ready = {}

FreeStreams == {s \in Streams : stream[s] = "free"}

\* Bound: an event that begins an operation leaves every operation under way
\* a slot for the stream it may attach.
Room ==
    /\ Len(tasks) < MaxTasks
    /\ Cardinality(FreeStreams) > Len(tasks)

\* What `_logSub?.cancel()` makes of the streams and what its awaiter waits
\* for: nothing when there is no subscription or its stream has ended, else
\* the stream, which an async* generator suspended in its `await for` leaves
\* only with the source's next line or its end.
Cancelled(str, s) ==
    IF s # NoStream /\ str[s] = "live" THEN [str EXCEPT ![s] = "draining"]
    ELSE str

CancelWait(str, s) ==
    IF s = NoStream THEN Turn ELSE IF str[s] = "free" THEN Turn ELSE s

\* Await the cancellation of t's subscription, as the last of the tasks rest.
AwaitCancel(t, str, rest, op, flag, probe) ==
    /\ tab' = t
    /\ stream' = Cancelled(str, t.sub)
    /\ tasks' = Append(rest, [op |-> op, wait |-> CancelWait(str, t.sub),
                              flag |-> flag, probe |-> probe])

\* The part of _onLiveStreamLost before its await.
LoseStream(t, str, rest, stalled, probe) ==
    AwaitCancel(FlushPendingLogs(CancelTimers(t)), str, rest,
                "lost", stalled, probe)

\* The part of _resumeLiveStream before its first await.
BeginResume(t, reconnect) ==
    AwaitCancel(CancelTimers(t), stream, tasks, "resume", reconnect, FALSE)

-----------------------------------------------------------------------------
(* The user.                                                               *)

BeginStart(t) ==
    AwaitCancel(CancelTimers(t), stream, tasks, "start", FALSE, FALSE)

Activate ==
    /\ Idle /\ Room
    /\ ~tab.disposed /\ ~tab.activated
    /\ \/ /\ connected
          /\ BeginStart([tab EXCEPT !.activated = TRUE])
       \/ /\ ~connected
          /\ tab' = [tab EXCEPT !.activated = TRUE]
          /\ UNCHANGED <<stream, tasks>>
    /\ UNCHANGED connected

StartLogcat ==
    /\ Idle /\ Room
    /\ ~tab.disposed /\ tab.activated
    /\ connected
    /\ BeginStart(tab)
    /\ UNCHANGED connected

StopLogcat ==
    /\ StopIsCalled
    /\ Idle /\ Room
    /\ ~tab.disposed /\ tab.activated
    /\ AwaitCancel(CancelTimers(tab), stream, tasks, "stop", FALSE, FALSE)
    /\ UNCHANGED connected

\* The banner's button.
ResumeLiveLogging ==
    /\ Idle /\ Room
    /\ ~tab.disposed /\ tab.interrupted
    /\ connected
    /\ BeginResume([tab EXCEPT !.attempts = 0], TRUE)
    /\ UNCHANGED connected

\* Deviation: only looks at the banner.
MustAttachByBanner(t) == t.interrupted

\* A tab whose stream dropped while it was paused attaches again on resume.
MustAttach(t) == t.interrupted \/ t.sub = NoStream

TogglePauseResume ==
    /\ Idle /\ Room
    /\ ~tab.disposed
    /\ LET running == [tab EXCEPT !.state = "running"]
           mustAttach == MustAttach(tab)
       IN  \/ /\ tab.state = "running"
              /\ tab' = AppendImmediate([tab EXCEPT !.state = "paused"], Marker)
              /\ UNCHANGED <<stream, tasks>>
           \/ /\ tab.state = "paused" /\ mustAttach /\ connected
              /\ BeginResume(running, FALSE)
           \/ /\ tab.state = "paused" /\ mustAttach /\ ~connected
              /\ tab' = running
              /\ UNCHANGED <<stream, tasks>>
           \/ /\ tab.state = "paused" /\ ~mustAttach
              /\ tab' = AppendImmediate(running, Marker)
              /\ UNCHANGED <<stream, tasks>>
    /\ UNCHANGED connected

ClearLogs ==
    /\ Idle
    /\ ~tab.disposed /\ tab.log # <<>>
    /\ tab' = ClearStoredLogs(tab)
    /\ UNCHANGED <<connected, stream, tasks>>

Dispose ==
    /\ Idle
    /\ ~tab.disposed
    /\ tab' = [CancelTimers(tab) EXCEPT !.disposed = TRUE, !.pending = <<>>]
    /\ stream' = Cancelled(stream, tab.sub)
    /\ UNCHANGED <<connected, tasks>>

-----------------------------------------------------------------------------
(* The session's connectivity hooks.                                       *)

Disconnect ==
    /\ Idle
    /\ connected
    /\ connected' = FALSE
    /\ \/ /\ tab.disposed \/ tab.state = "stopped"
          /\ UNCHANGED <<tab, stream, tasks>>
       \/ /\ ~tab.disposed /\ tab.state # "stopped"
          /\ Room
          /\ LoseStream(tab, stream, tasks, FALSE, FALSE)

Connect ==
    /\ Idle
    /\ ~connected
    /\ connected' = TRUE
    /\ \/ /\ tab.disposed \/ tab.state = "stopped"
          /\ UNCHANGED <<tab, stream, tasks>>
       \/ /\ ~tab.disposed /\ tab.state = "running"
          /\ Room
          /\ BeginResume(tab, FALSE)
       \/ /\ ~tab.disposed /\ tab.state = "paused"
          /\ tab' = AppendImmediate([tab EXCEPT !.interrupted = FALSE], Marker)
          /\ UNCHANGED <<stream, tasks>>

-----------------------------------------------------------------------------
(* The streams.                                                            *)

\* Deviation: queues lines while paused.
ReceivePaused(s, e) ==
    /\ Idle
    /\ stream[s] = "live" /\ ~tab.disposed /\ e # ToolError
    /\ tab' = [MarkStreamRecovered(tab) EXCEPT !.pending = Append(@, e)]
    /\ Len(tab'.pending) <= MaxPendingLogs
    /\ UNCHANGED <<connected, stream, tasks>>

\* onData.  It does not ask whether the stream is still the tab's own.
Receive(s, e) ==
    /\ Idle
    /\ stream[s] = "live" /\ ~tab.disposed
    /\ LET t == MarkStreamRecovered(tab)
           full == Len(t.pending) >= MaxPendingLogs
           q == IF full THEN FlushPendingLogs(t) ELSE t
       IN  \/ e = ToolError /\ tab' = AppendImmediate(t, e)
           \/ e # ToolError /\ tab.state = "paused" /\ tab' = t
           \/ /\ e # ToolError /\ tab.state # "paused"
              /\ tab' = [q EXCEPT !.pending = Append(@, e)]
    /\ UNCHANGED <<connected, stream, tasks>>

\* A live stream ends or fails: onDone and onError ignore any stream but the
\* tab's own.
StreamEnds(s) ==
    /\ Idle
    /\ stream[s] = "live"
    /\ LET ended == [stream EXCEPT ![s] = "free"]
           ours == ~tab.disposed /\ tab.sub = s /\ tab.state # "stopped"
       IN  \/ ours /\ Room /\ LoseStream(tab, ended, tasks, FALSE, FALSE)
           \/ ~ours /\ stream' = ended /\ UNCHANGED <<tab, tasks>>
    /\ UNCHANGED connected

\* The source of a cancelled stream produces a line or ends: the generator
\* leaves, and everyone who awaited the cancellation is due.
CancelCompletes(s) ==
    /\ Idle
    /\ stream[s] = "draining"
    /\ stream' = [stream EXCEPT ![s] = "free"]
    /\ tasks' = [i \in DOMAIN tasks |->
                   IF tasks[i].wait = s THEN [tasks[i] EXCEPT !.wait = Turn]
                   ELSE tasks[i]]
    /\ UNCHANGED <<tab, connected>>

-----------------------------------------------------------------------------
(* The timers.                                                             *)

FlushTick ==
    /\ Idle
    /\ tab.flushTimer /\ tab.pending # <<>>
    /\ tab' = FlushPendingLogs(tab)
    /\ UNCHANGED <<connected, stream, tasks>>

\* A tick that finds the stream silent for streamStallThreshold.
WatchdogTick ==
    /\ Idle /\ Room
    /\ tab.watchdog /\ ~tab.probing
    /\ tab.state = "running" /\ ~tab.interrupted /\ ~tab.recovering
    /\ tab' = [tab EXCEPT !.probing = TRUE]
    /\ tasks' = Append(tasks, [op |-> "probe", wait |-> "ping",
                               flag |-> FALSE, probe |-> FALSE])
    /\ UNCHANGED <<connected, stream>>

RecoveryTimerFires ==
    /\ Idle
    /\ tab.recovery # "off"
    /\ LET t == [tab EXCEPT !.recovery = "off"]
           again == tab.recovery = "reconnect"
       IN  \/ /\ tab.state = "stopped"
              /\ tab' = t /\ tasks' = tasks
           \/ /\ tab.state # "stopped" /\ ~connected
              /\ tab' = EnterInterruptedState(t) /\ tasks' = tasks
           \/ /\ tab.state # "stopped" /\ connected
              /\ Room
              /\ tab' = t
              /\ tasks' = Append(tasks,
                    [op |-> "recovery", flag |-> again, probe |-> FALSE,
                     wait |-> IF again THEN "reconnect" ELSE "ping"])
    /\ UNCHANGED <<connected, stream>>

-----------------------------------------------------------------------------
(* The continuations.  Each takes the task at i off and ends it, suspends  *)
(* it again, or hands it on.                                               *)

\* The task ends, leaving t.
Finish(i, t) == tab' = t /\ tasks' = RemoveAt(tasks, i) /\ UNCHANGED stream

\* The task ends by attaching t to a new stream.
FinishAttached(i, t) ==
    \E s \in FreeStreams :
        /\ tab' = AttachTo(t, s)
        /\ stream' = [stream EXCEPT ![s] = "live"]
        /\ tasks' = RemoveAt(tasks, i)

\* The task goes on to await w.
Await(i, t, w) ==
    /\ tab' = t
    /\ tasks' = Append(RemoveAt(tasks, i), [tasks[i] EXCEPT !.wait = w])
    /\ UNCHANGED stream

\* `_logSub = null` after the await.
Released == [tab EXCEPT !.sub = NoStream]

\* Deviation: keeps the recovery flag.
ContinueStartRecovering(i) ==
    /\ tasks[i].op = "start"
    /\ \/ tab.disposed /\ Finish(i, Released)
       \/ /\ ~tab.disposed
          /\ FinishAttached(i,
                AppendImmediate(
                  [ClearStoredLogs(Released) EXCEPT
                     !.state = "running", !.interrupted = FALSE, !.attempts = 0],
                  Marker))

ContinueStart(i) ==
    /\ tasks[i].op = "start"
    /\ \/ tab.disposed /\ Finish(i, Released)
       \/ /\ ~tab.disposed
          /\ FinishAttached(i,
                AppendImmediate(
                  [ClearStoredLogs(Released) EXCEPT
                     !.state = "running", !.interrupted = FALSE,
                     !.recovering = FALSE, !.attempts = 0],
                  Marker))

ContinueStop(i) ==
    /\ tasks[i].op = "stop"
    /\ \/ tab.disposed /\ Finish(i, Released)
       \/ /\ ~tab.disposed
          /\ Finish(i,
                AppendImmediate(
                  [Released EXCEPT !.state = "stopped", !.interrupted = FALSE,
                                   !.recovering = FALSE, !.attempts = 0],
                  Marker))

\* The last part of _resumeLiveStream.
Reattach(i, t) ==
    FinishAttached(i, AppendImmediate([t EXCEPT !.interrupted = FALSE], Marker))

ContinueResume(i) ==
    LET t == [FlushPendingLogs(Released) EXCEPT
                !.state = "running", !.recovering = FALSE, !.attempts = 0]
    IN  /\ tasks[i].op = "resume"
        /\ \/ tab.disposed /\ Finish(i, Released)
           \/ ~tab.disposed /\ tasks[i].flag /\ Await(i, t, "reconnect")
           \/ ~tab.disposed /\ ~tasks[i].flag /\ Reattach(i, t)

\* The rest of _onLiveStreamLost, and of the probe that awaited it.
ContinueLost(i) ==
    LET t == IF tasks[i].probe THEN [Released EXCEPT !.probing = FALSE]
             ELSE Released
        giveUp == \/ ~connected
                  \/ tab.state = "paused"
                  \/ tab.attempts >= MaxAutoRecoveryAttempts
        over == tab.disposed \/ tab.state = "stopped"
    IN  /\ tasks[i].op = "lost"
        /\ \/ over /\ Finish(i, t)
           \/ ~over /\ giveUp /\ Finish(i, EnterInterruptedState(t))
           \/ /\ ~over /\ ~giveUp
              /\ Finish(i, ScheduleRecovery(t,
                             tasks[i].flag \/ tab.attempts >= 1))

\* The first task whose turn it is.
TakeTurn ==
    /\ \E i \in Ready :
          /\ \A j \in Ready : i <= j
          /\ \/ ContinueStart(i)
             \/ ContinueStop(i)
             \/ ContinueResume(i)
             \/ ContinueLost(i)
    /\ UNCHANGED connected

\* recoverConnection, `adb reconnect`, returns; it never throws.
ReconnectReturns ==
    /\ Idle
    /\ \E i \in DOMAIN tasks :
          /\ tasks[i].wait = "reconnect"
          /\ \/ /\ tasks[i].op = "resume"
                /\ \/ (tab.disposed \/ ~connected) /\ Finish(i, tab)
                   \/ ~tab.disposed /\ connected /\ Reattach(i, tab)
             \/ /\ tasks[i].op = "recovery"
                /\ \/ /\ tab.disposed \/ tab.state = "stopped"
                      /\ Finish(i, tab)
                   \/ /\ ~tab.disposed /\ tab.state # "stopped"
                      /\ Await(i, tab, "ping")
    /\ UNCHANGED connected

\* The probe's answer; only an unanswered probe goes on to lose the stream.
ProbeAnswered(i, alive) ==
    LET lost == /\ ~alive /\ ~tab.disposed /\ tab.state = "running"
                /\ ~tab.interrupted /\ ~tab.recovering
    IN  /\ tasks[i].op = "probe"
        /\ \/ ~lost /\ Finish(i, [tab EXCEPT !.probing = FALSE])
           \/ lost /\ LoseStream(tab, stream, RemoveAt(tasks, i), TRUE, TRUE)

\* Deviation: gives up without the banner.
RecoveryAnsweredSilently(i, alive) ==
    /\ tasks[i].op = "recovery"
    /\ Finish(i, [tab EXCEPT !.recovering = FALSE])

\* The answer the recovery timer's callback waits for.
RecoveryAnswered(i, alive) ==
    LET over == tab.disposed \/ tab.state = "stopped"
        retry == tab.attempts < MaxAutoRecoveryAttempts
    IN  /\ tasks[i].op = "recovery"
        /\ \/ over /\ Finish(i, tab)
           \/ ~over /\ ~alive /\ retry /\ Finish(i, ScheduleRecovery(tab, TRUE))
           \/ ~over /\ ~alive /\ ~retry /\ Finish(i, EnterInterruptedState(tab))
           \/ /\ ~over /\ alive
              /\ FinishAttached(i,
                    AppendImmediate([tab EXCEPT !.recovering = FALSE], Marker))

\* pingDevice answers; an iOS device is assumed responsive.
PingAnswers ==
    /\ Idle
    /\ \E i \in DOMAIN tasks, alive \in BOOLEAN :
          /\ tasks[i].wait = "ping"
          /\ HasWatchdog \/ alive
          /\ ProbeAnswered(i, alive) \/ RecoveryAnswered(i, alive)
    /\ UNCHANGED connected

-----------------------------------------------------------------------------
Next ==
    \/ Activate \/ StartLogcat \/ StopLogcat \/ ResumeLiveLogging
    \/ TogglePauseResume \/ ClearLogs \/ Dispose
    \/ Disconnect \/ Connect
    \/ \E s \in Streams, e \in Lines \cup {ToolError} : Receive(s, e)
    \/ \E s \in Streams : StreamEnds(s) \/ CancelCompletes(s)
    \/ FlushTick \/ WatchdogTick \/ RecoveryTimerFires
    \/ TakeTurn \/ ReconnectReturns \/ PingAnswers

Spec == Init /\ [][Next]_vars

\* The event loop runs due continuations and fires armed timers; `adb
\* reconnect` and the probe are bounded by timeouts.  Nothing is assumed of the
\* device: it may stay silent for ever, and so may a cancelled stream.
AppFairness ==
    /\ WF_vars(TakeTurn)
    /\ WF_vars(FlushTick)
    /\ WF_vars(RecoveryTimerFires)
    /\ WF_vars(ReconnectReturns)
    /\ WF_vars(PingAnswers)

FairSpec == Spec /\ AppFairness

-----------------------------------------------------------------------------
(* Properties.                                                             *)

\* What the tab has captured: `_currentLogsSnapshot`.
captured == tab.log \o tab.pending

\* t is s after more entries and the loss of old ones, at most what
\* retention drops.
Extends(t, s, n) ==
    \E more \in UNION {[1 .. k -> Entries] : k \in 0 .. n} :
        /\ IsSuffix(t, s \o more)
        /\ Len(t) >= IF Len(s) < Retained THEN Len(s) ELSE Retained

\* The user's clear, and nothing else with it.
ClearedByTheUser == tab' = ClearStoredLogs(tab) /\ UNCHANGED <<connected, stream, tasks>>

\* A restart comes to its end: what was captured gives way to its marker.
Restarted ==
    /\ captured' = Newest(<<Marker>>)
    /\ \E i \in DOMAIN tasks : tasks[i].op = "start" /\ tasks' = RemoveAt(tasks, i)

\* Guarantees 3 and 7 of docs/LOG_STREAMING.md: a step only adds entries at
\* the end of what the tab has captured, never around queued ones, and only
\* the user's clear, a restart and closing the tab discard any that retention
\* keeps: a stop, a loss, a resume and a recovery preserve them all.
CapturedInOrder ==
    [][ \/ Extends(captured', captured, 2)
        \/ ClearedByTheUser
        \/ Restarted
        \/ ~tab.disposed /\ tab'.disposed ]_vars

\* While the tab is paused nothing waits to be shown: the flush timer, which
\* goes on ticking, can add no line after the "paused" marker.
PausedIsQuiet == tab.state = "paused" => tab.pending = <<>>

\* The operations whose next steps write `recovering`: all but a probe and a
\* resume that already has and only awaits `adb reconnect`.
SettlesRecovery(task) ==
    \/ task.op \in {"start", "stop", "lost", "recovery"}
    \/ task.op = "resume" /\ task.wait # "reconnect"

\* An automatic recovery is never forgotten half-way: while the controller
\* says it is recovering, its timer or an operation will settle it.
RecoveryIsUnderWay ==
    tab.recovering /\ ~tab.disposed =>
        tab.recovery # "off" \/ \E i \in DOMAIN tasks : SettlesRecovery(tasks[i])

\* A stopped tab, which no operation would settle, is not recovering.
StoppedIsSettled == tab.state = "stopped" => ~tab.recovering

\* "Each live log tab owns its own stream (the StreamSubscription held by its
\* LogController)": no stream delivers to the tab but the one it holds.
OwnsItsStream ==
    \A s \in Streams : stream[s] = "live" /\ ~tab.disposed => tab.sub = s

\* A running tab captures, is about to, or says that it does not: with no
\* operation and no timer pending, a tab without the banner holds a live
\* stream served by the flush timer and, on Android, by the watchdog.  While
\* operations do not overlap, no other stream delivers to it.
RunningIsServed ==
    /\ OwnsItsStream
    /\ (/\ tab.state = "running" /\ ~tab.disposed
        /\ tasks = <<>> /\ tab.recovery = "off" /\ ~tab.interrupted)
       => /\ tab.sub # NoStream /\ stream[tab.sub] = "live"
          /\ tab.flushTimer /\ (HasWatchdog => tab.watchdog)

\* The banner ("could not be resumed automatically") and an automatic recovery
\* are never on at once.  It holds as long as operations do not overlap: TLC
\* refutes it on the instance of LogCapture_orphan.cfg.
BannerOrRecovery == ~(tab.interrupted /\ tab.recovering)

Capturing == tab.sub # NoStream /\ stream[tab.sub] = "live"

\* An operation waits for a cancelled stream to let go.
Wedged == \E i \in DOMAIN tasks : tasks[i].wait \in Streams

\* "Tears down the stream while preserving captured logs, then either
\* schedules automatic recovery or surfaces the warning banner": a running
\* tab without a stream captures again, shows the banner, or is taken over by
\* the user.  The one exception is the case the watchdog was written for, a
\* wedged transport that neither logs nor ends: the operation that handles
\* the loss then waits for the cancellation for ever, and no banner comes.
LossIsSettled ==
    (tab.state = "running" /\ ~Capturing)
        ~> (\/ Capturing \/ tab.interrupted \/ tab.disposed \/ tab.state # "running"
            \/ []Wedged)

\* Guarantee 6 of docs/LOG_STREAMING.md, the controller's share of it: a
\* queued line reaches the stored logs, whatever becomes of the stream, unless
\* an operation that has stopped the flush timer waits for ever as above.
QueueIsShown == (tab.pending # <<>>) ~> (tab.pending = <<>> \/ []Wedged)
=============================================================================
