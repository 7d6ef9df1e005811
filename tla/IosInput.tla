------------------------------ MODULE IosInput -------------------------------
(***************************************************************************)
(* The input session of the screen mirror (src/rust/src/api/               *)
(* ios_mirror.rs): Dart's touches, keys and requests go through one queue  *)
(* to one worker, which keeps the connections to the phone, presses        *)
(* resting fingers again, reconnects when a send fails, and lifts what is  *)
(* still down when the session ends.                                       *)
(*                                                                         *)
(* Coordinates are left out: a touch frame is the fingers it presses and   *)
(* those it lifts.  The phone is external: while its link is up it does    *)
(* what a report says, and with the link go the fingers on it.             *)
(***************************************************************************)
EXTENDS Integers, Sequences

CONSTANTS
    Finger,    \* fingers of a multi-finger touch
    One,       \* the finger of a one-finger touch
    Request,   \* pasteboard and rotation calls
    MaxFrames, \* bound: touch frames and keys Dart sends
    MaxBreaks  \* bound: times the link breaks

ASSUME InputAssumption == One \notin Finger /\ MaxFrames \in Nat /\ MaxBreaks \in Nat

VARIABLES
    glass,   \* the fingers Dart has on the picture
    session, \* Dart's view: closed, starting, open, stopping (the call posted), stopped
    entry,   \* whether INPUT_SESSIONS holds the queue's sender
    queue,   \* commands
    worker,  \* none, waiting, sending, reconnecting, ending, draining or ended
    held,    \* the worker's `held`; {} is None
    reports, \* touch reports the command being applied still sends
    link,    \* whether the worker's connections work
    down,    \* fingers down on the phone
    answer,  \* requests: none, asked, done or failed
    frames, breaks

inputVars == <<glass, session, entry, queue, worker, held, reports, link, down,
               answer, frames, breaks>>

dartSide == <<glass, session, answer, frames>>
device   == <<link, down, breaks>>

InputInit ==
    /\ glass = {} /\ session = "closed" /\ entry = FALSE
    /\ queue = <<>> /\ worker = "none" /\ held = {} /\ reports = <<>>
    /\ link = FALSE /\ down = {} /\ breaks = 0
    /\ answer = [r \in Request |-> "none"] /\ frames = 0

\* One report: fingers pressed where they are, and fingers lifted.
TouchReport(on, off) == [on |-> on, off |-> off]
Touch(on, off) == [type |-> "touch", on |-> on, off |-> off]
Key == [type |-> "key"]
Question(r) == [type |-> "ask", request |-> r]

-----------------------------------------------------------------------------
(* Dart and the registry.                                                  *)

InputOpens ==
    /\ session = "closed" /\ worker = "none"
    /\ session' = "starting"
    /\ UNCHANGED <<glass, entry, queue, worker, held, reports, device, answer, frames>>

\* start_ios_input connects; the entry goes in and the worker is spawned.
InputConnects(works) ==
    /\ session = "starting"
    /\ IF works
       THEN /\ session' = "open" /\ entry' = TRUE
            /\ worker' = "waiting" /\ link' = TRUE
       ELSE session' = "closed" /\ worker' = "ended" /\ UNCHANGED <<entry, link>>
    /\ UNCHANGED <<glass, queue, held, reports, down, breaks, answer, frames>>

\* send: false once the entry has gone, else the command joins the queue.
Send(command) == queue' = IF entry THEN Append(queue, command) ELSE queue

SendFrame(command, fingers) ==
    /\ session = "open" /\ frames < MaxFrames
    /\ frames' = frames + 1
    /\ glass' = fingers
    /\ Send(command)
    /\ UNCHANGED <<session, entry, worker, held, reports, device, answer>>

\* A one-finger touch: down, moving or up.  Should a gesture of several fingers
\* be on the glass, it is forgotten.
SendTouch == SendFrame(Touch({One}, {}), {One})
SendUp    == One \in glass /\ SendFrame(Touch({}, {One}), {})

\* A frame of several fingers: those on the glass, and once more those that lift.
SendTouches(on) ==
    LET off == (glass \ {One}) \ on
    IN on \cup off # {} /\ SendFrame(Touch(on, off), on)

SendKey == SendFrame(Key, glass)

\* A request waits for the worker's answer; one that cannot be sent has failed.
SendRequest(r) ==
    /\ session = "open" /\ answer[r] = "none"
    /\ Send(Question(r))
    /\ answer' = [answer EXCEPT ![r] = IF entry THEN "asked" ELSE "failed"]
    /\ UNCHANGED <<glass, session, entry, worker, held, reports, device, frames>>

\* The mirror stops, perhaps with fingers on the glass.
InputCloses ==
    /\ session = "open"
    /\ session' = "stopping"
    /\ UNCHANGED <<glass, entry, queue, worker, held, reports, device, answer, frames>>

\* stop_ios_input: dropping the sender closes the queue.
StopInput ==
    /\ session = "stopping"
    /\ session' = "stopped"
    /\ entry' = FALSE
    /\ UNCHANGED <<glass, queue, worker, held, reports, device, answer, frames>>

-----------------------------------------------------------------------------
(* The worker.                                                             *)

\* Deviation: a release leaves what is held.
HoldsStill(command) == IF command.on = {} THEN held ELSE command.on

\* What a touch leaves on the glass, set before anything is sent.
HoldsAfter(command) == command.on

\* Deviation: fingers of the other kind are forgotten, not lifted.
ReportAlone(command) == <<TouchReport(command.on, command.off)>>

\* Switching between a one-finger touch and several lifts the fingers before; a
\* lone finger's release lifts only itself.
ReportsFor(command) ==
    LET before == {f \in held : (f = One) # (One \in command.on \cup command.off)}
    IN (IF before = {} \/ command.off = {One} THEN <<>> ELSE <<TouchReport({}, before)>>)
       \o <<TouchReport(command.on, command.off)>>

\* recv, which the biased select tries first.
ApplyTouch ==
    /\ worker = "waiting" /\ queue # <<>> /\ Head(queue).type = "touch"
    /\ queue' = Tail(queue)
    /\ held' = HoldsAfter(Head(queue))
    /\ reports' = ReportsFor(Head(queue))
    /\ worker' = "sending"
    /\ UNCHANGED <<dartSide, entry, device>>

ReportSent ==
    /\ worker = "sending" /\ link
    /\ down' = (down \ Head(reports).off) \cup Head(reports).on
    /\ reports' = Tail(reports)
    /\ worker' = IF Len(reports) = 1 THEN "waiting" ELSE "sending"
    /\ UNCHANGED <<dartSide, entry, queue, held, link, breaks>>

\* The command that failed is dropped.
ReportFails ==
    /\ worker = "sending" /\ ~link
    /\ reports' = <<>> /\ worker' = "reconnecting"
    /\ UNCHANGED <<dartSide, entry, queue, held, device>>

ApplyKey ==
    /\ worker = "waiting" /\ queue # <<>> /\ Head(queue).type = "key"
    /\ queue' = Tail(queue)
    /\ worker' = IF link THEN "waiting" ELSE "reconnecting"
    /\ UNCHANGED <<dartSide, entry, held, reports, device>>

\* A request answers for itself: its failure says nothing about the link.
ApplyRequest(granted) ==
    /\ worker = "waiting" /\ queue # <<>> /\ Head(queue).type = "ask"
    /\ queue' = Tail(queue)
    /\ answer' = [answer EXCEPT ![Head(queue).request] =
                     IF granted /\ link THEN "done" ELSE "failed"]
    /\ UNCHANGED <<glass, session, frames, entry, worker, held, reports, device>>

\* InputClients::connect; without it the session ends.
Reconnect(works) ==
    /\ worker = "reconnecting"
    /\ worker' = IF works THEN "waiting" ELSE "ending"
    /\ link' = works
    /\ UNCHANGED <<dartSide, entry, queue, held, reports, down, breaks>>

\* Fingers that rest are pressed again, wobbling; on a failure they are let go.
StillTick ==
    /\ worker = "waiting" /\ queue = <<>> /\ entry /\ held # {}
    /\ IF link
       THEN down' = down \cup held /\ UNCHANGED held
       ELSE held' = {} /\ UNCHANGED down
    /\ UNCHANGED <<dartSide, entry, queue, worker, reports, link, breaks>>

QueueCloses ==
    /\ worker = "waiting" /\ queue = <<>> /\ ~entry
    /\ worker' = "ending"
    /\ UNCHANGED <<dartSide, entry, queue, held, reports, device>>

\* What is still down is lifted.
Lifted == IF link THEN held ELSE {}

LiftAtEnd ==
    /\ worker = "ending"
    /\ down' = down \ Lifted
    /\ worker' = "draining"
    /\ UNCHANGED <<dartSide, entry, queue, held, reports, link, breaks>>

\* Deviation: the queue is let go with its requests unanswered.
NoneAreDropped == answer

\* With the queue go its requests, each of which hears that the session ended.
DroppedWithQueue ==
    [r \in Request |-> IF answer[r] = "asked" THEN "failed" ELSE answer[r]]

\* The connections are closed, the entry and the queue go.
WorkerEnds ==
    /\ worker = "draining"
    /\ worker' = "ended" /\ entry' = FALSE /\ link' = FALSE
    /\ queue' = <<>> /\ answer' = DroppedWithQueue
    /\ UNCHANGED <<glass, session, frames, held, reports, down, breaks>>

\* The phone enumerates again, or is unplugged.
LinkBreaks ==
    /\ link /\ breaks < MaxBreaks
    /\ link' = FALSE /\ down' = {} /\ breaks' = breaks + 1
    /\ UNCHANGED <<dartSide, entry, queue, worker, held, reports>>

WorkerStep ==
    \/ ApplyTouch \/ ReportSent \/ ReportFails \/ ApplyKey \/ QueueCloses
    \/ LiftAtEnd \/ WorkerEnds
    \/ \E granted \in BOOLEAN : ApplyRequest(granted)
    \/ \E works \in BOOLEAN : Reconnect(works)

InputNext ==
    \/ InputOpens \/ SendTouch \/ SendUp \/ SendKey \/ InputCloses \/ StopInput
    \/ \E works \in BOOLEAN : InputConnects(works)
    \/ \E on \in SUBSET Finger : SendTouches(on)
    \/ \E r \in Request : SendRequest(r)
    \/ WorkerStep \/ StillTick \/ LinkBreaks

\* Calls posted run, and the worker's awaits end: the phone answers or the
\* connection breaks.
InputFairness ==
    /\ WF_inputVars(StopInput)
    /\ WF_inputVars(\E works \in BOOLEAN : InputConnects(works))
    /\ WF_inputVars(WorkerStep)

InputSpec == InputInit /\ [][InputNext]_inputVars /\ InputFairness

-----------------------------------------------------------------------------
(* Properties.                                                             *)

Fingers == Finger \cup {One}
ReportSet == [on : SUBSET Fingers, off : SUBSET Fingers]
Commands == [type : {"touch"}, on : SUBSET Fingers, off : SUBSET Fingers]
              \cup [type : {"key"}] \cup [type : {"ask"}, request : Request]

\* The state has the types of its fields.
InputTypeOK ==
    /\ glass \subseteq Fingers /\ held \subseteq Fingers /\ down \subseteq Fingers
    /\ session \in {"closed", "starting", "open", "stopping", "stopped"}
    /\ entry \in BOOLEAN /\ link \in BOOLEAN
    /\ worker \in {"none", "waiting", "sending", "reconnecting", "ending",
                   "draining", "ended"}
    /\ queue \in Seq(Commands) /\ reports \in Seq(ReportSet)
    /\ answer \in [Request -> {"none", "asked", "done", "failed"}]
    /\ frames \in Nat /\ breaks \in Nat

\* "A finger nothing lifts would stay down on the phone": whatever the touches,
\* the breaks and the moment of the stop, no finger is down once the session has
\* ended, and while the worker waits it knows of every one that is.
NoFingerIsLeft ==
    /\ InputTypeOK
    /\ worker \in {"none", "draining", "ended"} => down = {}
    /\ worker = "waiting" => down \subseteq held

\* A finger Dart has lifted is not pressed again: the worker, having applied what
\* was sent, holds only fingers on the glass, also when the command that lifted
\* one was dropped by a failing link.
NoGhostFinger ==
    worker = "waiting" /\ queue = <<>> => held \subseteq glass

\* A session settles: a pasteboard or rotation call returns, also one still queued
\* as the session ends, and once stopped the worker applies what is queued and goes.
SessionSettles ==
    /\ \A r \in Request : answer[r] = "asked" ~> answer[r] \in {"done", "failed"}
    /\ session = "stopping" ~> worker = "ended" /\ ~entry
=============================================================================
