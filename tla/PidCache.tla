------------------------------ MODULE PidCache ------------------------------
(***************************************************************************)
(* When a device's pid-to-package map is refreshed: the poll its Android   *)
(* log streams share, and the refreshes log tabs ask for between polls     *)
(* (DeviceSessionRepository, lib/services/device_session_repository.dart). *)
(*                                                                         *)
(* A refresh is one `ps -A`.  What it lists is in LogView; here it matters *)
(* only when it began.  A step of the program is one turn of the event     *)
(* loop up to its next await; Tick is half a second.                       *)
(***************************************************************************)
EXTENDS Integers, FiniteSets

CONSTANTS
    Streams,      \* log streams that may be open at a time
    MinInterval,  \* pidRefreshMinInterval, in ticks
    PollPeriod,   \* of _pidCacheRefreshTimer, in ticks
    Off           \* no timer

ASSUME PidCacheAssumption ==
    /\ IsFiniteSet(Streams)
    /\ MinInterval \in Nat \ {0} /\ PollPeriod \in Nat \ {0}
    /\ Off \notin Nat

VARIABLES
    stream,     \* startLogStream of each: where its generator stands
    cancelled,  \* streams whose subscription was cancelled
    consumers,  \* _pidCacheConsumers
    poll,       \* _pidCacheRefreshTimer: ticks until it fires
    inFlight,   \* _pidRefreshInFlight # null
    age,        \* ticks since _lastPidRefreshAt, at most MinInterval
    requested,  \* _pidRefreshRequested
    requester,  \* where _runRequestedPidRefresh stands
    delay,      \* ticks left of its delay
    closed,     \* the repository is disposed
    unlisted    \* history: no `ps` has begun since the last request

vars == <<stream, cancelled, consumers, poll, inFlight, age, requested,
          requester, delay, closed, unlisted>>

refresh == <<inFlight, unlisted>>
request == <<requested, requester, delay>>
polling == <<consumers, poll>>

Init ==
    /\ stream = [s \in Streams |-> "idle"] /\ cancelled = {}
    /\ consumers = 0 /\ poll = Off
    /\ inFlight = FALSE /\ age = MinInterval
    /\ requested = FALSE /\ requester = "none" /\ delay = 0
    /\ closed = FALSE
    /\ unlisted = FALSE

Open == {s \in Streams : stream[s] = "open"}

\* Continuations run before the next timer or event.
IsQuiet == requester # "resumed" /\ \A s \in Streams : stream[s] # "resumed"

-----------------------------------------------------------------------------
(* The refresh itself.                                                     *)

\* refreshPidToPackageMap: starts a `ps`, or shares the one in flight.
StartOrShare ==
    /\ inFlight' = TRUE
    /\ unlisted' = (unlisted /\ inFlight)

\* The `ps` ends, well or not: everyone who awaits it goes on.
PsEnds ==
    /\ inFlight /\ IsQuiet
    /\ inFlight' = FALSE
    /\ age' = 0
    /\ stream' = [s \in Streams |->
                     IF stream[s] = "starting" THEN "resumed" ELSE stream[s]]
    /\ requester' = IF requester = "joining" THEN "resumed" ELSE requester
    /\ UNCHANGED <<cancelled, polling, requested, delay, closed, unlisted>>

-----------------------------------------------------------------------------
(* The streams and their poll.                                             *)

\* _startAndroidLogcat up to its await.
StartStream(s) ==
    /\ IsQuiet /\ ~closed /\ stream[s] = "idle"
    /\ stream' = [stream EXCEPT ![s] = "starting"]
    /\ StartOrShare
    /\ UNCHANGED <<cancelled, polling, age, request, closed>>

\* _retainPidCacheRefresh.
Retain ==
    /\ consumers' = consumers + 1
    /\ poll' = IF poll = Off THEN PollPeriod ELSE poll

\* Deviation: any consumer takes the timer with it.
ReleaseStopping ==
    /\ consumers' = IF consumers > 0 THEN consumers - 1 ELSE 0
    /\ poll' = Off

\* _releasePidCacheRefresh.
Release ==
    /\ consumers' = IF consumers > 0 THEN consumers - 1 ELSE 0
    /\ poll' = IF consumers' = 0 THEN Off ELSE poll

\* Past the await the generator opens its logcat, cancelled or not: it looks
\* for a cancellation only at its next yield.
OpenStream(s) ==
    /\ stream[s] = "resumed"
    /\ stream' = [stream EXCEPT ![s] = "open"]
    /\ Retain
    /\ UNCHANGED <<cancelled, refresh, age, request, closed>>

CancelStream(s) ==
    /\ IsQuiet /\ stream[s] # "idle" /\ s \notin cancelled
    /\ cancelled' = cancelled \cup {s}
    /\ UNCHANGED <<stream, polling, refresh, age, request, closed>>

\* The tool ends, or a line meets a cancelled stream: the finally block.
EndStream(s) ==
    /\ IsQuiet /\ stream[s] = "open"
    /\ stream' = [stream EXCEPT ![s] = "idle"]
    /\ cancelled' = cancelled \ {s}
    /\ Release
    /\ UNCHANGED <<refresh, age, request, closed>>

PollFires ==
    /\ IsQuiet /\ poll = 0
    /\ poll' = PollPeriod
    /\ StartOrShare
    /\ UNCHANGED <<stream, cancelled, consumers, age, request, closed>>

-----------------------------------------------------------------------------
(* Refreshes a tab asks for.                                               *)

\* requestPidToPackageRefresh, and _runRequestedPidRefresh up to its first
\* await.
Request ==
    /\ IsQuiet /\ ~closed
    /\ unlisted' = TRUE
    /\ requested' = TRUE
    /\ requester' = IF requested THEN requester
                    ELSE IF inFlight THEN "joining" ELSE "resumed"
    /\ UNCHANGED <<stream, cancelled, polling, inFlight, age, delay, closed>>

\* Deviation: the flag stays up.
RunRequestLatched ==
    IF closed
    THEN UNCHANGED <<requested, refresh>>
    ELSE UNCHANGED requested /\ StartOrShare

\* The end of _runRequestedPidRefresh, after its delay.
RunRequest ==
    IF closed
    THEN UNCHANGED <<requested, refresh>>
    ELSE requested' = FALSE /\ StartOrShare

ResumeRequest ==
    /\ requester = "resumed"
    /\ IF age < MinInterval
       THEN /\ requester' = "delaying" /\ delay' = MinInterval - age
            /\ UNCHANGED <<requested, refresh>>
       ELSE /\ requester' = "none"
            /\ RunRequest
            /\ UNCHANGED delay
    /\ UNCHANGED <<stream, cancelled, polling, age, closed>>

DelayEnds ==
    /\ IsQuiet /\ requester = "delaying" /\ delay = 0
    /\ requester' = "none"
    /\ RunRequest
    /\ UNCHANGED <<stream, cancelled, polling, age, delay, closed>>

-----------------------------------------------------------------------------
\* The streams of S are cancelled, by whoever held them.
Cancel(S) == cancelled' = cancelled \cup {s \in S : stream[s] # "idle"}

\* DeviceSessionController.dispose: the log tabs cancel the streams they hold,
\* those of S, then the repository's own dispose.
Dispose(S) ==
    /\ IsQuiet /\ ~closed
    /\ Cancel(S)
    /\ poll' = Off /\ consumers' = 0
    /\ closed' = TRUE
    /\ UNCHANGED <<stream, refresh, age, request>>

\* Time passes when no timer is due.
Tick ==
    /\ IsQuiet /\ poll # 0
    /\ requester = "delaying" => delay # 0
    /\ poll' = IF poll = Off THEN Off ELSE poll - 1
    /\ age' = IF age < MinInterval THEN age + 1 ELSE age
    /\ delay' = IF delay > 0 THEN delay - 1 ELSE 0
    /\ UNCHANGED <<stream, cancelled, consumers, refresh, requested, requester,
                   closed>>

Next ==
    \/ PsEnds \/ PollFires
    \/ \E s \in Streams : StartStream(s) \/ OpenStream(s) \/ CancelStream(s) \/ EndStream(s)
    \/ Request \/ ResumeRequest \/ DelayEnds
    \/ \E S \in SUBSET Streams : Dispose(S)
    \/ Tick

\* The event loop: continuations run, a timer that is due fires however busy
\* the streams are, time passes, and every `ps` ends.  Nothing makes a tab ask,
\* or a stream start or end.
Fairness ==
    /\ SF_vars(PsEnds) /\ SF_vars(PollFires) /\ SF_vars(Tick) /\ SF_vars(DelayEnds)
    /\ WF_vars(ResumeRequest) /\ \A s \in Streams : WF_vars(OpenStream(s))

Spec == Init /\ [][Next]_vars /\ Fairness

-----------------------------------------------------------------------------
TypeOK ==
    /\ stream \in [Streams -> {"idle", "starting", "resumed", "open"}]
    /\ cancelled \subseteq Streams
    /\ consumers \in 0 .. Cardinality(Streams)
    /\ poll \in 0 .. PollPeriod \cup {Off}
    /\ {inFlight, requested, closed, unlisted} \subseteq BOOLEAN
    /\ age \in 0 .. MinInterval /\ delay \in 0 .. MinInterval
    /\ requester \in {"none", "joining", "resumed", "delaying"}

\* One poll is shared by all open streams: it runs exactly while one is open,
\* whichever order they open and end in.
PollIsShared ==
    ~closed => /\ consumers = Cardinality(Open)
               /\ poll = Off <=> Open = {}

\* No poll outlives its streams, on a disposed repository either.
NoPollWithoutStream == Open = {} => poll = Off

\* The invariant of the poll.
PollInv == TypeOK /\ PollIsShared /\ NoPollWithoutStream

\* The flag that merges requests holds them up for a time only: it goes down,
\* or no later request would ever be heard.
RequestsAreTaken == requested ~> (~requested \/ closed)

\* A tab asks once about a pid it does not know: while a stream is open, some
\* `ps` begins after the request.
UnknownPidIsListed == unlisted ~> (~unlisted \/ closed \/ consumers = 0)

\* Requests are merged and spaced, but each is served.
RequestsAreServed == RequestsAreTaken /\ UnknownPidIsListed

-----------------------------------------------------------------------------
(* What comments of the code say and the code does not keep: TLC refutes   *)
(* each of these three on the instance of SessionLogs.cfg.                    *)

\* "Minimum gap between a requested refresh and the end of the previous
\* `ps -A`, polled or requested."
SpacingIsKept ==
    [][ requester # "none" /\ requester' = "none" /\ ~inFlight /\ inFlight'
          => age = MinInterval ]_vars

\* "A refresh already under way may have listed processes before the PID
\* behind this request appeared, so it doesn't count": a request waits for a
\* refresh of its own until a later `ps` has begun.
RequestsArePending == unlisted => requested \/ closed

\* "By the time this runs only the shared PID-cache poll remains to clean up":
\* a disposed repository polls no more.
DisposedIsSilent == closed => poll = Off
=============================================================================
