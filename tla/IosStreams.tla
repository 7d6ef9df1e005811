----------------------------- MODULE IosStreams ------------------------------
(***************************************************************************)
(* The streams the Rust back end feeds to Dart: an iPhone's log            *)
(* (start_ios_syslog of src/rust/src/api/ios.rs) and its screenshots       *)
(* (start_ios_screenshot_stream of api/ios_mirror.rs).  Each runs until    *)
(* Dart stops it by the id it started it under, the phone goes, or Dart    *)
(* drops the stream.  Every bridge call is a task of its own, so a stop    *)
(* may overtake the start it follows.                                      *)
(*                                                                         *)
(* A step of a task goes from one await to the next.  The phone takes one  *)
(* screenshot at a time and sends one while it takes the next; it may also *)
(* leave a request unanswered.                                             *)
(***************************************************************************)
EXTENDS Integers, Sequences, FiniteSets

CONSTANTS
    Id,         \* session ids: Dart never uses one twice
    Mixes,      \* the streams Dart opens: the kind of each id, perhaps "unused"
    Capture,    \* SCREENSHOTS_IN_FLIGHT connections of a screenshot stream
    MaxRecords, \* bound: log records a phone sends to one stream
    MaxAsks     \* bound: screenshots asked for by one stream

ASSUME StreamsAssumption ==
    /\ Mixes \subseteq [Id -> {"unused", "syslog", "screens"}]
    /\ IsFiniteSet(Capture) /\ Capture # {}
    /\ MaxRecords \in Nat /\ MaxAsks \in Nat

VARIABLES
    kind,      \* the streams of this run
    dart,      \* Dart's end: idle, listening, closed by the user, or ended
    stop,      \* the stop call: none, posted or done
    task,      \* start_ios_* and the task it spawns
    registry,  \* SYSLOG_SESSIONS and SCREENSHOT_STREAMS: what is under an id,
               \* the token of its task or a cancelled one that no task holds
    cancelled, \* tasks whose token is cancelled
    records,   \* records the phone has sent to each stream
    capture,   \* the capture tasks of each stream: where they stand, and their shot
    arriving,  \* the channel from its captures
    delivered, \* when the shot last delivered was asked for; 0 is None
    asks       \* requests made so far

streamsVars == <<kind, dart, stop, task, registry, cancelled, records, capture,
                 arriving, delivered, asks>>

shots   == <<capture, arriving, delivered, asks>>
tokens  == <<registry, cancelled>>
bridge  == <<kind, dart, stop>>

Idle == [phase |-> "idle", asked |-> 0]

StreamsInit ==
    /\ kind \in Mixes
    /\ dart = [i \in Id |-> "idle"]
    /\ stop = [i \in Id |-> "none"]
    /\ task = [i \in Id |-> "none"]
    /\ registry = [i \in Id |-> "absent"]
    /\ cancelled = {}
    /\ records = [i \in Id |-> 0]
    /\ capture = [i \in Id |-> [c \in Capture |-> Idle]]
    /\ arriving = [i \in Id |-> <<>>]
    /\ delivered = [i \in Id |-> 0]
    /\ asks = [i \in Id |-> 0]

-----------------------------------------------------------------------------
(* Dart, and the registry.                                                 *)

\* The listener comes: the start call is on its way.
Listen(i) ==
    /\ dart[i] = "idle" /\ kind[i] # "unused"
    /\ dart' = [dart EXCEPT ![i] = "listening"]
    /\ task' = [task EXCEPT ![i] = "posted"]
    /\ UNCHANGED <<kind, stop, tokens, records, shots>>

\* The user closes a stream that has not ended, as far as Dart has heard.
Close(i) ==
    /\ dart[i] = "listening"
    /\ dart' = [dart EXCEPT ![i] = "closed"]
    /\ stop' = [stop EXCEPT ![i] = "posted"]
    /\ UNCHANGED <<kind, task, tokens, records, shots>>

\* onDone: the sink is dropped with the task.
HearEnd(i) ==
    /\ dart[i] = "listening" /\ task[i] = "done"
    /\ dart' = [dart EXCEPT ![i] = "ended"]
    /\ UNCHANGED <<kind, stop, task, tokens, records, shots>>

\* Deviation: the registry is keyed by device, not by stream.
CancelDevice(i) ==
    /\ cancelled' = cancelled \cup {j \in Id : registry[j] = "task"}
    /\ registry' = [registry EXCEPT ![i] = IF @ = "absent" THEN "left" ELSE @]

\* stop_ios_syslog, stop_ios_screenshot_stream: the token registered, if any, is
\* cancelled; else a cancelled one is left for the start to claim.
CancelEntry(i) ==
    /\ cancelled' = IF registry[i] = "task" THEN cancelled \cup {i} ELSE cancelled
    /\ registry' = [registry EXCEPT ![i] = IF @ = "absent" THEN "left" ELSE @]

StopArrives(i) ==
    /\ stop[i] = "posted"
    /\ stop' = [stop EXCEPT ![i] = "done"]
    /\ CancelEntry(i)
    /\ UNCHANGED <<kind, dart, task, records, shots>>

\* claim_*: a fresh token, or the cancelled one a stop that came first left.
Claim(i) ==
    /\ registry' = [registry EXCEPT ![i] = "task"]
    /\ cancelled' = IF registry[i] = "left" THEN cancelled \cup {i} ELSE cancelled

Forget(i) == registry' = [registry EXCEPT ![i] = "absent"] /\ UNCHANGED cancelled

-----------------------------------------------------------------------------
(* Starting and ending.                                                    *)

\* The start call runs: claimed before connecting.
StartArrives(i) ==
    /\ task[i] = "posted"
    /\ task' = [task EXCEPT ![i] = "connecting"]
    /\ Claim(i)
    /\ UNCHANGED <<bridge, records, shots>>

ConnectFails(i) ==
    /\ task[i] = "connecting"
    /\ task' = [task EXCEPT ![i] = "done"]
    /\ Forget(i)
    /\ UNCHANGED <<bridge, records, shots>>

\* A log stream that was stopped meanwhile gives up; else its task is spawned.
SyslogConnects(i) ==
    /\ kind[i] = "syslog" /\ task[i] = "connecting"
    /\ IF i \in cancelled
       THEN task' = [task EXCEPT ![i] = "done"] /\ Forget(i)
       ELSE task' = [task EXCEPT ![i] = "running"] /\ UNCHANGED tokens
    /\ UNCHANGED <<bridge, records, shots>>

\* Likewise for screenshots, but for the tunnel, which is closed first; every
\* capture asks at once.
ScreensConnect(i) ==
    /\ kind[i] = "screens" /\ task[i] = "connecting"
    /\ IF i \in cancelled
       THEN task' = [task EXCEPT ![i] = "closing"] /\ UNCHANGED capture
       ELSE /\ task' = [task EXCEPT ![i] = "running"]
            /\ capture' = [capture EXCEPT ![i] =
                              [c \in Capture |-> [Idle EXCEPT !.phase = "ready"]]]
    /\ UNCHANGED <<bridge, tokens, records, arriving, delivered, asks>>

\* The tunnel is closed, the entry goes, and with the task the sink.
TunnelCloses(i) ==
    /\ task[i] = "closing"
    /\ task' = [task EXCEPT ![i] = "done"]
    /\ Forget(i)
    /\ UNCHANGED <<bridge, records, shots>>

-----------------------------------------------------------------------------
(* The loop of a log stream.                                               *)

SyslogEnds(i) ==
    /\ task' = [task EXCEPT ![i] = "done"]
    /\ Forget(i)

\* The select is biased: a stop goes before a record.
SyslogHeedsStop(i) ==
    /\ kind[i] = "syslog" /\ task[i] = "running" /\ i \in cancelled
    /\ SyslogEnds(i)
    /\ UNCHANGED <<bridge, records, shots>>

\* A record is added to the sink, which fails once Dart has dropped the stream.
\* One that cannot be decoded is skipped.
Record(i, decodes) ==
    /\ kind[i] = "syslog" /\ task[i] = "running" /\ i \notin cancelled
    /\ records[i] < MaxRecords
    /\ records' = [records EXCEPT ![i] = @ + 1]
    /\ IF decodes /\ dart[i] # "listening"
       THEN SyslogEnds(i)
       ELSE UNCHANGED <<task, tokens>>
    /\ UNCHANGED <<bridge, shots>>

\* The connection breaks, or loses its framing.
SyslogBreaks(i) ==
    /\ kind[i] = "syslog" /\ task[i] = "running" /\ i \notin cancelled
    /\ SyslogEnds(i)
    /\ UNCHANGED <<bridge, records, shots>>

-----------------------------------------------------------------------------
(* The captures of a screenshot stream.  They hold clones of the token,    *)
(* which outlive the entry.                                                *)

SetCapture(i, c, phase) == capture' = [capture EXCEPT ![i][c].phase = phase]

\* The time of asking is noted; from then on a stop drops the request.
Ask(i, c) ==
    /\ capture[i][c].phase = "ready" /\ i \notin cancelled /\ asks[i] < MaxAsks
    /\ asks' = [asks EXCEPT ![i] = @ + 1]
    /\ capture' = [capture EXCEPT ![i][c] =
                      [phase |-> "asking", asked |-> asks[i] + 1]]
    /\ UNCHANGED <<bridge, task, tokens, records, arriving, delivered>>

\* The phone takes the request when it is not taking another; until then it
\* answers "busy" and is asked again, under the time first noted.
PhoneTakes(i, c) ==
    /\ capture[i][c].phase = "asking"
    /\ \A d \in Capture : capture[i][d].phase # "taking"
    /\ SetCapture(i, c, "taking")
    /\ UNCHANGED <<bridge, task, tokens, records, arriving, delivered, asks>>

PhoneSends(i, c) ==
    /\ capture[i][c].phase = "taking"
    /\ SetCapture(i, c, "sending")
    /\ UNCHANGED <<bridge, task, tokens, records, arriving, delivered, asks>>

\* The select is biased here too.
ShotArrives(i, c) ==
    /\ capture[i][c].phase = "sending" /\ i \notin cancelled
    /\ SetCapture(i, c, "holding")
    /\ UNCHANGED <<bridge, task, tokens, records, arriving, delivered, asks>>

\* The channel takes the shot while it has room; the capture then asks again.
HandOver(i, c) ==
    /\ capture[i][c].phase = "holding" /\ task[i] = "running"
    /\ Len(arriving[i]) < Cardinality(Capture)
    /\ arriving' = [arriving EXCEPT ![i] = Append(@, capture[i][c])]
    /\ capture' = [capture EXCEPT ![i][c] = [Idle EXCEPT !.phase = "ready"]]
    /\ UNCHANGED <<bridge, task, tokens, records, delivered, asks>>

\* A capture ends: stopped while asking, with nobody left to take its shot, or
\* by an error of the phone.
CaptureIsStopped(i, c) ==
    /\ capture[i][c].phase \in {"ready", "asking", "taking", "sending"} /\ i \in cancelled
    /\ SetCapture(i, c, "ended")
    /\ UNCHANGED <<bridge, task, tokens, records, arriving, delivered, asks>>

CaptureHasNoTaker(i, c) ==
    /\ capture[i][c].phase = "holding" /\ task[i] \in {"closing", "done"}
    /\ SetCapture(i, c, "ended")
    /\ UNCHANGED <<bridge, task, tokens, records, arriving, delivered, asks>>

CaptureFails(i, c) ==
    /\ capture[i][c].phase \in {"asking", "taking", "sending"} /\ i \notin cancelled
    /\ SetCapture(i, c, "ended")
    /\ UNCHANGED <<bridge, task, tokens, records, arriving, delivered, asks>>

-----------------------------------------------------------------------------
(* The delivering loop of a screenshot stream.                             *)

\* Deviation: the loop goes without a word to its captures.
LeaveQuietly(i) == task' = [task EXCEPT ![i] = "closing"] /\ UNCHANGED tokens

\* However the loop ends, the token is cancelled and the channel closed.
Leave(i) ==
    /\ task' = [task EXCEPT ![i] = "closing"]
    /\ cancelled' = cancelled \cup {i}
    /\ UNCHANGED registry

DeliveryHeedsStop(i) ==
    /\ kind[i] = "screens" /\ task[i] = "running" /\ i \in cancelled
    /\ Leave(i)
    /\ UNCHANGED <<bridge, records, shots>>

\* Every capture has failed.
PhoneIsGone(i) ==
    /\ kind[i] = "screens" /\ task[i] = "running" /\ i \notin cancelled
    /\ arriving[i] = <<>> /\ \A c \in Capture : capture[i][c].phase = "ended"
    /\ Leave(i)
    /\ UNCHANGED <<bridge, records, shots>>

\* A shot asked for before the one last delivered is dropped.
Outdated(i) == Head(arriving[i]).asked < delivered[i]

Deliver(i) ==
    /\ kind[i] = "screens" /\ task[i] = "running" /\ i \notin cancelled
    /\ arriving[i] # <<>>
    /\ arriving' = [arriving EXCEPT ![i] = Tail(@)]
    /\ IF Outdated(i)
       THEN UNCHANGED <<task, tokens, delivered>>
       ELSE /\ delivered' = [delivered EXCEPT ![i] = Head(arriving[i]).asked]
            /\ IF dart[i] = "listening" THEN UNCHANGED <<task, tokens>> ELSE Leave(i)
    /\ UNCHANGED <<bridge, records, capture, asks>>

-----------------------------------------------------------------------------
CaptureStep(i, c) ==
    \/ Ask(i, c) \/ PhoneTakes(i, c) \/ PhoneSends(i, c) \/ ShotArrives(i, c)
    \/ HandOver(i, c) \/ CaptureIsStopped(i, c) \/ CaptureHasNoTaker(i, c)
    \/ CaptureFails(i, c)

StreamsNext ==
    \/ \E i \in Id :
          \/ Listen(i) \/ Close(i) \/ HearEnd(i)
          \/ StopArrives(i) \/ StartArrives(i)
          \/ ConnectFails(i) \/ SyslogConnects(i) \/ ScreensConnect(i)
          \/ TunnelCloses(i)
          \/ SyslogHeedsStop(i) \/ SyslogBreaks(i)
          \/ DeliveryHeedsStop(i) \/ PhoneIsGone(i) \/ Deliver(i)
    \/ \E i \in Id, decodes \in BOOLEAN : Record(i, decodes)
    \/ \E i \in Id, c \in Capture : CaptureStep(i, c)

\* The bridge runs every call posted, a connection is made or fails, a tunnel
\* gets closed, and tasks that can go on do.  The phone answers when it likes.
StreamsFairness ==
    \A i \in Id :
       /\ WF_streamsVars(StopArrives(i)) /\ WF_streamsVars(StartArrives(i))
       /\ WF_streamsVars(ConnectFails(i) \/ SyslogConnects(i) \/ ScreensConnect(i))
       /\ WF_streamsVars(TunnelCloses(i)) /\ WF_streamsVars(HearEnd(i))
       /\ WF_streamsVars(SyslogHeedsStop(i)) /\ WF_streamsVars(DeliveryHeedsStop(i))
       /\ WF_streamsVars(PhoneIsGone(i)) /\ WF_streamsVars(Deliver(i))
       /\ \A c \in Capture :
             /\ WF_streamsVars(HandOver(i, c))
             /\ WF_streamsVars(CaptureIsStopped(i, c))
             /\ WF_streamsVars(CaptureHasNoTaker(i, c))

StreamsSpec == StreamsInit /\ [][StreamsNext]_streamsVars /\ StreamsFairness

-----------------------------------------------------------------------------
(* Properties.                                                             *)

CaptureState == [phase : {"idle", "ready", "asking", "taking", "sending", "holding", "ended"},
                 asked : Nat]

\* The state has the types of its fields.
StreamsTypeOK ==
    /\ kind \in [Id -> {"unused", "syslog", "screens"}]
    /\ dart \in [Id -> {"idle", "listening", "closed", "ended"}]
    /\ stop \in [Id -> {"none", "posted", "done"}]
    /\ task \in [Id -> {"none", "posted", "connecting", "running", "closing", "done"}]
    /\ registry \in [Id -> {"absent", "task", "left"}]
    /\ cancelled \subseteq Id
    /\ {records, delivered, asks} \subseteq [Id -> Nat]
    /\ capture \in [Id -> [Capture -> CaptureState]]
    /\ arriving \in [Id -> Seq(CaptureState)]

\* A stream can be stopped for as long as it runs, by its own id and nothing
\* else: its token stays registered, and is cancelled only by the stop Dart
\* sent for this stream, though both tabs of a device stream at once and every
\* call may overtake another.  A token nobody holds is a stop's that came
\* before the start, or after the end.
StreamIsStoppable ==
    StreamsTypeOK /\ \A i \in Id :
       /\ task[i] \in {"connecting", "running"} =>
             registry[i] = "task" /\ (i \in cancelled => stop[i] = "done")
       /\ registry[i] = "left" => stop[i] = "done" /\ task[i] \in {"posted", "done"}

\* "Cancelling the Dart subscription alone does not stop the Rust task": a
\* stream the user closes ends, also when its stop overtook its start.  No capture
\* outlives its stream, not one whose request the phone leaves unanswered or whose
\* shot nobody takes any more.
StopEndsStream ==
    \A i \in Id :
       /\ dart[i] = "closed" ~> task[i] = "done"
       /\ task[i] = "done" ~>
             \A c \in Capture : capture[i][c].phase \in {"idle", "ended"}
=============================================================================
