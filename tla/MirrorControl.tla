----------------------------- MODULE MirrorControl -----------------------------
(***************************************************************************)
(* A device's screen mirror (MirrorController): scrcpy for Android, an     *)
(* IosMirrorSession for iOS.  start, stop and the watchers of a running    *)
(* mirror are async functions: each runs from one await to the next, and   *)
(* anything may come between.  A task is such a call; its slot says which  *)
(* await holds it.                                                         *)
(***************************************************************************)
EXTENDS Integers, FiniteSets

CONSTANTS
    Platforms,        \* devices to look at: "android", "ios"
    MaxAutoRestarts,  \* _maxAutoRestarts
    MaxMirrors,       \* bound: mirrors created
    MaxTasks,         \* bound: calls in flight together
    None

ASSUME MirrorAssumption ==
    /\ Platforms \subseteq {"android", "ios"}
    /\ MaxAutoRestarts \in Nat \ {0}
    /\ MaxMirrors \in Nat \ {0} /\ MaxTasks \in Nat \ {0}
    /\ None \notin Nat

Mirror == 1..MaxMirrors
Task   == 1..MaxTasks

VARIABLES
    ctl,     \* the controller's fields
    mirror,  \* every ScrcpyMirrorSession or IosMirrorSession, and its watcher
    task     \* the calls in flight

vars == <<ctl, mirror, task>>

Android == ctl.platform = "android"

\* The awaits of a call: the capture notice (asked, then answered); the
\* stops of the mirrors it took down, before a start, at the end of a stop,
\* on giving a mirror up, on discarding one that came too late, or after a
\* start that failed; and the start itself.
Awaits == {"idle", "asking", "answered", "clearing", "stopping", "givingUp",
           "discarding", "failing", "probing", "connecting"}

\* session stands for _session or _ios, of which the platform uses one;
\* wanted is history: whether the last word from the user was a start.
Controller == [platform    : Platforms,
               state       : {"stopped", "starting", "running", "error"},
               session     : Mirror \cup {None},
               iosStarting : Mirror \cup {None},
               restarts    : 0..MaxAutoRestarts,
               quality     : BOOLEAN,
               connected   : BOOLEAN,
               disposed    : BOOLEAN,
               wanted      : BOOLEAN]

\* exited: the server is gone; the texture, the sockets and the forward are
\* not.  quality is what a mirror was started with; overtaken and crossed are
\* those of the call that brought it up.
Mirrors == [life    : {"none", "connecting", "live", "exited", "stopping",
                       "stopped"},
            quality : BOOLEAN,
            watch   : {"off", "on", "settling"},
            overtaken : BOOLEAN, crossed : BOOLEAN]

\* mirror: the one a call starts; stops: the one it awaits the end of, and next
\* what it stops after; current: no start or stop came after (_iosGeneration);
\* overtaken and crossed are history: another start or stop came in while this
\* call was at an await it does not look around after; and either that, or this
\* one came in so on another.
Tasks == [at : Awaits, mirror : Mirror \cup {None},
          stops : Mirror \cup {None}, next : Mirror \cup {None},
          current : BOOLEAN, overtaken : BOOLEAN, crossed : BOOLEAN]

IdleTask == [at |-> "idle", mirror |-> None, stops |-> None, next |-> None,
             current |-> FALSE, overtaken |-> FALSE, crossed |-> FALSE]

Init ==
    /\ \E platform \in Platforms :
          ctl = [platform |-> platform, state |-> "stopped",
                 session |-> None, iosStarting |-> None, restarts |-> 0,
                 quality |-> FALSE, connected |-> TRUE, disposed |-> FALSE,
                 wanted |-> FALSE]
    /\ mirror = [m \in Mirror |->
                    [life |-> "none", quality |-> FALSE, watch |-> "off",
                     overtaken |-> FALSE, crossed |-> FALSE]]
    /\ task = [t \in Task |-> IdleTask]

-----------------------------------------------------------------------------
(* What a call does from one await to the next, as functions of the whole. *)

World == [ctl |-> ctl, mirror |-> mirror, task |-> task]

Become(w) == ctl' = w.ctl /\ mirror' = w.mirror /\ task' = w.task

Busy(t)   == task[t].at # "idle"
Running   == ctl.state \in {"running", "starting"}
CanStop(w, m) ==
    m # None /\ w.mirror[m].life \in {"connecting", "live", "exited"}

Report(w, state) == IF w.ctl.disposed THEN w ELSE [w EXCEPT !.ctl.state = state]
Return(w, t)     == [w EXCEPT !.task[t] = IdleTask]

\* mirror.stop(), awaited by t, which has next to stop yet.
StopMirror(w, t, at, m, next) ==
    [w EXCEPT !.mirror[m] = [@ EXCEPT !.life = "stopping", !.watch = "off"],
              !.task[t] = [@ EXCEPT !.at = at, !.stops = m, !.next = next]]

\* ++_iosGeneration.
Overtake(w) ==
    [w EXCEPT !.task = [t \in Task |-> [w.task[t] EXCEPT !.current = FALSE]]]

\* The awaits after which a call does not ask whether another came.
Unguarded == {"clearing", "stopping", "givingUp"}
                 \cup (IF Android THEN {"connecting"} ELSE {})

\* History: call t comes in.  A controller that is disposed is asked after
\* every await.
Cross(w, t) ==
    LET open == {u \in Task \ {t} : w.task[u].at \in Unguarded}
    IN  IF w.ctl.disposed \/ open = {} THEN w
        ELSE [w EXCEPT !.task = [u \in Task |->
                 [w.task[u] EXCEPT !.overtaken = @ \/ u \in open,
                                   !.crossed = @ \/ u \in open \cup {t}]]]

Fresh(w) == CHOOSE m \in Mirror : w.mirror[m].life = "none"

\* start, once the old mirror is down: the Android connection begins, or the
\* iPhone is asked what it offers.
EnterStarting(w, t) ==
    LET v == [w EXCEPT !.ctl.state = "starting"]
        m == Fresh(v)
        call == [IdleTask EXCEPT !.overtaken = w.task[t].overtaken,
                                 !.crossed = w.task[t].crossed]
    IN  IF Android
        THEN [v EXCEPT !.mirror[m] = [@ EXCEPT !.life = "connecting",
                                               !.quality = v.ctl.quality],
                       !.task[t] = [call EXCEPT !.at = "connecting",
                                                !.mirror = m]]
        ELSE [Overtake(v) EXCEPT !.task[t] = [call EXCEPT !.at = "probing",
                                                          !.current = TRUE]]

\* Deviation: a failed start reports even when it was overtaken, and a mirror
\* given up is not reported.
AfterStopsUnreported(w, t) ==
    LET call == w.task[t]
        v    == Return(w, t)
    IN  CASE call.at = "stopping" -> Report(v, "stopped")
          [] call.at = "clearing" ->
                IF v.ctl.disposed THEN v
                ELSE EnterStarting(Report(w, "stopped"), t)
          [] OTHER -> v

\* Past the last mirror.stop() of a call.
AfterStops(w, t) ==
    LET call == w.task[t]
        v    == Return(w, t)
    IN  CASE call.at = "stopping"   -> Report(v, "stopped")
          [] call.at = "givingUp"   -> Report(v, "error")
          [] call.at = "discarding" -> v
          [] call.at = "clearing"   ->
                IF v.ctl.disposed THEN v
                ELSE EnterStarting(Report(w, "stopped"), t)
          [] call.at = "failing"    ->
                IF ~call.current THEN v
                ELSE Report([v EXCEPT !.ctl.iosStarting = None], "error")

\* A call that awaits mirror.stop() of first, then of second: one that is not
\* there, or already stopping, answers at once.
AwaitStops(w, t, at, first, second) ==
    CASE CanStop(w, first) -> StopMirror(w, t, at, first, second)
      [] ~CanStop(w, first) /\ CanStop(w, second) ->
            StopMirror(w, t, at, second, None)
      [] OTHER -> AfterStops([w EXCEPT !.task[t].at = at], t)

\* stop forgets what it is about to stop.
Forgetting(w) ==
    [w EXCEPT !.ctl = [@ EXCEPT !.session = None, !.iosStarting = None]]

\* Deviation: a stop is not a new generation, and forgets what is starting.
EnterStopUncounted(w, t, at) ==
    AwaitStops(Forgetting(Cross(w, t)), t, at, w.ctl.session, None)

\* stop, from its first line to its first await; start enters it too.
EnterStop(w, t, at) ==
    AwaitStops(Forgetting(Overtake(Cross(w, t))), t, at,
               w.ctl.iosStarting, w.ctl.session)

\* start, to its first await: the notice is for an iPhone on macOS, unless
\* the user asked not to see it again.
EnterStart(w, t, asks) ==
    IF ~w.ctl.connected THEN Report(Return(w, t), "error")
    ELSE IF asks THEN [w EXCEPT !.task[t] = [IdleTask EXCEPT !.at = "asking"]]
         ELSE EnterStop(w, t, "clearing")

\* Whether the controller still holds m when something happens to it.
Holds(m) == ~ctl.disposed /\ ctl.session = m

\* _watchStream, when the stream of m is gone: long says whether it had
\* outlived _restartCooldown.
StreamGone(w, t, m, long) ==
    LET restarts == IF long THEN 0 ELSE w.ctl.restarts
        watched  == [w EXCEPT !.mirror[m].watch = "off"]
        v        == [watched EXCEPT !.ctl.restarts = restarts]
    IN  IF ~Holds(m) \/ w.ctl.state # "running" THEN watched
        ELSE IF restarts >= MaxAutoRestarts
             THEN AwaitStops([v EXCEPT !.ctl.session = None],
                             t, "givingUp", m, None)
             ELSE [v EXCEPT !.ctl.restarts = restarts + 1,
                            !.mirror[m].watch = "settling"]

\* Deviation: nobody looks whether the start still counts.
ConnectedAnyway(w, t, m) ==
    [Return(w, t) EXCEPT !.mirror[m] = [@ EXCEPT !.life = "live", !.watch = "on",
                                             !.overtaken = w.task[t].overtaken,
                                             !.crossed = w.task[t].crossed],
                         !.ctl.session = m, !.ctl.state = "running"]

\* startScreenMirror or IosMirrorSession.start returns the mirror m.
Connected(w, t, m) ==
    LET v == [w EXCEPT !.mirror[m].life = "live",
                       !.mirror[m].overtaken = w.task[t].overtaken,
                       !.mirror[m].crossed = w.task[t].crossed,
                       !.ctl.iosStarting = IF @ = m THEN None ELSE @]
    IN  IF w.ctl.disposed \/ (~Android /\ ~w.task[t].current)
        THEN AwaitStops(v, t, "discarding", m, None)
        ELSE [Return(v, t) EXCEPT !.ctl.session = m, !.ctl.state = "running",
                                  !.mirror[m].watch = "on"]

\* It throws: scrcpy has taken its own mirror down by then, the iOS session
\* stops first.
ConnectionFailed(w, t, m) ==
    IF Android
    THEN [Return(w, t) EXCEPT !.mirror[m].life = "stopped",
                              !.ctl.state = "error"]
    ELSE AwaitStops(w, t, "failing", m, None)

-----------------------------------------------------------------------------
(* Actions.                                                                *)

\* The continuations of one answered notice run together.
AtRest == \A t \in Task : task[t].at # "answered"

\* A free slot for a call, and the mirror it may need (both bounds).
Call(t) ==
    /\ AtRest /\ ~Busy(t) /\ \A u \in 1..(t - 1) : Busy(u)
HasRoom ==
    Cardinality({m \in Mirror : mirror[m].life # "none"})
        + Cardinality({t \in Task : task[t].at \in
                          {"asking", "answered", "clearing", "probing"}})
    < MaxMirrors

Wanting(w, wanted) == [w EXCEPT !.ctl.wanted = wanted]

\* The start button, and show when the pane opens: a start is offered while
\* no mirror is running.  What the user asked of the notice changes only
\* with its answer.
Start(t, asks) ==
    /\ Call(t) /\ HasRoom /\ ~ctl.disposed
    /\ ~Running /\ ctl.connected
    /\ asks => ~Android
    /\ (\E u \in Task : task[u].at = "asking") => asks
    /\ Become(EnterStart(Wanting(World, TRUE), t, asks))

\* answerCaptureNotice.
AnswerNotice(proceed) ==
    /\ AtRest /\ ~ctl.disposed
    /\ \E t \in Task : task[t].at = "asking"
    /\ Become([World EXCEPT !.task = [t \in Task |->
                  IF task[t].at # "asking" THEN task[t]
                  ELSE IF proceed THEN [task[t] EXCEPT !.at = "answered"]
                  ELSE IdleTask],
               !.ctl.wanted = IF proceed THEN TRUE ELSE @])

\* start, past the notice.
Confirmed(t) ==
    /\ task[t].at = "answered"
    /\ Become(EnterStop(World, t, "clearing"))

Stop(t) ==
    /\ Call(t) /\ ~ctl.disposed /\ Running
    /\ Become(EnterStop(Wanting(World, FALSE), t, "stopping"))

\* setQuality: only Android's pane offers it.
SetQuality(t) ==
    /\ Android /\ AtRest /\ ~ctl.disposed
    /\ LET w == [World EXCEPT !.ctl.quality = ~ctl.quality]
       IN  IF Running
           THEN /\ Call(t) /\ HasRoom
                /\ Become(EnterStart(Wanting(w, TRUE), t, FALSE))
           ELSE Become(w)

\* onDeviceDisconnected.
Disconnect(t) ==
    /\ Call(t) /\ ~ctl.disposed /\ ctl.connected
    /\ LET w == [World EXCEPT !.ctl.connected = FALSE]
       IN  Become(EnterStop(Wanting(w, FALSE), t, "stopping"))

Connect ==
    /\ AtRest /\ ~ctl.disposed /\ ~ctl.connected
    /\ Become([World EXCEPT !.ctl.connected = TRUE])

\* dispose: a start that waits for the notice hears no, and the rest of stop
\* runs on a disposed controller.
Dispose(t) ==
    /\ Call(t) /\ ~ctl.disposed
    /\ LET w == [Wanting(World, FALSE) EXCEPT !.ctl.disposed = TRUE,
                   !.task = [u \in Task |-> IF task[u].at = "asking"
                                            THEN IdleTask ELSE task[u]]]
       IN  Become(EnterStop(w, t, "stopping"))

\* The mirror a call is stopping is down; the call goes on to the next.
StopReturns(t) ==
    /\ AtRest /\ task[t].stops # None
    /\ LET w == [World EXCEPT !.mirror[task[t].stops].life = "stopped"]
       IN  Become(AwaitStops(w, t, task[t].at, task[t].next, None))

\* probeIosMirror returns, and onCreated gets the new session: one that was
\* overtaken is stopped before it opens anything.
Probed(t) ==
    /\ AtRest /\ task[t].at = "probing"
    /\ LET m == Fresh(World)
       IN  IF ctl.disposed \/ ~task[t].current
           THEN Become(Return(World, t))
           ELSE Become([World EXCEPT
                    !.mirror[m].life = "connecting",
                    !.ctl.iosStarting = m,
                    !.task[t].at = "connecting", !.task[t].mirror = m])

\* A session stopped meanwhile always throws.
ConnectionReturns(t, succeeds) ==
    /\ AtRest /\ task[t].at = "connecting"
    /\ LET m == task[t].mirror
       IN  /\ succeeds => mirror[m].life = "connecting"
           /\ Become(IF succeeds THEN Connected(World, t, m)
                     ELSE ConnectionFailed(World, t, m))

\* streamEnded completes: never on a mirror that was told to stop.
StreamEnds(m, t, long) ==
    /\ Android /\ Call(t)
    /\ mirror[m].life \in {"live", "exited"} /\ mirror[m].watch = "on"
    /\ Become(StreamGone(World, t, m, long))

\* The 300 ms after a rotation are over: what is restarted was not asked for
\* any more than before.
Settles(m, t) ==
    /\ Call(t) /\ HasRoom /\ mirror[m].watch = "settling"
    /\ LET w == [World EXCEPT !.mirror[m].watch = "off"]
           v == [w EXCEPT !.task[t].overtaken = mirror[m].overtaken]
       IN  Become(IF Holds(m) THEN EnterStart(v, t, FALSE) ELSE w)

\* _watchExit: the server exits by itself; its mirror is forgotten, not
\* stopped.
ServerExits(m, clean) ==
    /\ Android /\ AtRest /\ mirror[m].life = "live"
    /\ LET w == [World EXCEPT !.mirror[m].life = "exited"]
       IN  Become(IF ~Holds(m) THEN w
                  ELSE [w EXCEPT !.ctl.session = None,
                                 !.ctl.state = IF clean THEN "stopped" ELSE "error"])

\* _watchIos: the phone was unplugged, or its capture failed.
MirrorEnds(m, t) ==
    /\ ~Android /\ Call(t)
    /\ mirror[m].life = "live" /\ mirror[m].watch = "on"
    /\ LET w == [World EXCEPT !.mirror[m].watch = "off"]
       IN  Become(IF Holds(m)
                  THEN AwaitStops([w EXCEPT !.ctl.session = None],
                                  t, "givingUp", m, None)
                  ELSE w)

CallActs(t) ==
    \/ Confirmed(t) \/ StopReturns(t) \/ Probed(t)
    \/ \E succeeds \in BOOLEAN : ConnectionReturns(t, succeeds)

UserActs(t) ==
    \/ \E asks \in BOOLEAN : Start(t, asks)
    \/ Stop(t) \/ SetQuality(t)

DeviceActs(t) ==
    \/ Disconnect(t)
    \/ \E m \in Mirror :
          \/ \E long \in BOOLEAN : StreamEnds(m, t, long)
          \/ Settles(m, t) \/ MirrorEnds(m, t)

Next ==
    \/ \E t \in Task : CallActs(t) \/ UserActs(t) \/ DeviceActs(t) \/ Dispose(t)
    \/ \E proceed \in BOOLEAN : AnswerNotice(proceed)
    \/ \E m \in Mirror, clean \in BOOLEAN : ServerExits(m, clean)
    \/ Connect

\* Every await of the code is of a future that completes: an adb call, a
\* platform channel, a connection attempt (bounded by its timeouts).
Fairness == \A t \in Task : WF_vars(CallActs(t))

Spec == Init /\ [][Next]_vars /\ Fairness

-----------------------------------------------------------------------------
(* Properties.                                                             *)

\* Nothing of what a mirror opened is taken back by itself: while it is up it
\* has its texture and its sockets or its capture, also when its server is gone.
Up == {m \in Mirror : mirror[m].life \in {"live", "exited"}}

\* What the controller leaves behind: _watchExit forgets a mirror whose server
\* exited and does not stop it, and of two starts that cross the one that
\* comes up last hides the other.
Lost == {m \in Mirror : mirror[m].life = "exited" \/ mirror[m].crossed}

\* Fields have their types; the restarts made without a pause never pass
\* their limit.
TypeOK ==
    /\ ctl \in Controller /\ mirror \in [Mirror -> Mirrors]
    /\ task \in [Task -> Tasks]

\* The controller owns its mirror (mirror_controller.dart:57-60): what is up
\* is the mirror it holds, or one a call is about to stop, or one of those it
\* is known to lose.
MirrorsAreOwned ==
    \A m \in Up \ Lost : ctl.session = m
                         \/ \E t \in Task : m \in {task[t].stops, task[t].next}

\* The pane tells the truth: a mirror that is held runs, and the state says so
\* ("null when not running", mirror_controller.dart:120) unless the start was
\* crossed by a call that reports after its last await; and a mirror that is
\* said to start or run is there or in the hands of a call.
StateIsTrue ==
    /\ ctl.session # None => mirror[ctl.session].life = "live"
    /\ ~ctl.disposed =>
        /\ ctl.session # None =>
               ctl.state = "running" \/ mirror[ctl.session].crossed
        /\ Running => ctl.session # None \/ \E t \in Task : Busy(t)

\* A quality that was picked takes effect (setQuality): the mirror that is
\* held was started with it, unless its start was crossed.
QualityTakesEffect ==
    \A m \in Mirror :
        ctl.session = m => mirror[m].quality = ctl.quality \/ mirror[m].crossed

\* A mirror comes up only while the last word was a start: not after a stop,
\* a disconnection or the end of the session, which an Android start does not
\* notice when it comes while the start takes the old mirror down or connects,
\* and an iPhone's only in the first of the two.
StopIsHeeded ==
    [][\A m \in Mirror :
          (ctl'.session = m /\ ctl.session # m)
              => ctl.wanted \/ mirror'[m].overtaken]_vars

\* The invariant of the mirrors.
MirrorInv ==
    /\ TypeOK /\ MirrorsAreOwned /\ StateIsTrue /\ QualityTakesEffect

\* When a session is over, its mirrors come down, those it had lost excepted:
\* also one that was starting.
DisposeEndsMirrors == ctl.disposed ~> Up \subseteq Lost

================================================================================
