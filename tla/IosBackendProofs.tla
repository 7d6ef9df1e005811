-------------------------- MODULE IosBackendProofs ---------------------------
(***************************************************************************)
(* That the iOS back end keeps its promises, for any number of streams,    *)
(* fingers, forwards, processes, files and changes of the phone. Each part *)
(* has an inductive invariant of its own; at the end they are put          *)
(* together, for the back end that runs them side by side.                 *)
(***************************************************************************)
EXTENDS IosBackend, TLAPS

-----------------------------------------------------------------------------
(* Streams. What makes StreamIsStoppable inductive is where an entry of a  *)
(* registry comes from: a task's token is there from the claim until the   *)
(* task is done, a token without a task was left by a stop, and a stop is  *)
(* sent only once the start call has been.                                 *)

USE StreamsAssumption

Control ==
    /\ kind \in [Id -> {"unused", "syslog", "screens"}]
    /\ dart \in [Id -> {"idle", "listening", "closed", "ended"}]
    /\ stop \in [Id -> {"none", "posted", "done"}]
    /\ task \in [Id -> {"none", "posted", "connecting", "running", "closing", "done"}]
    /\ registry \in [Id -> {"absent", "task", "left"}]
    /\ cancelled \subseteq Id

Shots ==
    /\ records \in [Id -> Nat] /\ delivered \in [Id -> Nat] /\ asks \in [Id -> Nat]
    /\ capture \in [Id -> [Capture -> CaptureState]]
    /\ arriving \in [Id -> Seq(CaptureState)]

Tokens == \A i \in Id :
    /\ dart[i] = "idle" <=> task[i] = "none"
    /\ stop[i] # "none" => dart[i] = "closed"
    /\ task[i] = "none" => stop[i] = "none" /\ i \notin cancelled
    /\ registry[i] = "task" <=> task[i] \in {"connecting", "running", "closing"}
    /\ registry[i] = "left" => stop[i] = "done" /\ task[i] # "none"
    /\ i \in cancelled => stop[i] = "done" \/ task[i] \in {"closing", "done"}

StreamsInv == Control /\ Shots /\ Tokens

-----------------------------------------------------------------------------
LEMMA StreamsInitInv == StreamsInit => StreamsInv
<1>. SUFFICES ASSUME StreamsInit PROVE StreamsInv
  OBVIOUS
<1>1. Control /\ Tokens
  BY DEF StreamsInit, Control, Tokens
<1>2. records \in [Id -> Nat] /\ delivered \in [Id -> Nat] /\ asks \in [Id -> Nat]
  BY DEF StreamsInit
<1>3. capture \in [Id -> [Capture -> CaptureState]] /\ arriving \in [Id -> Seq(CaptureState)]
  BY DEF StreamsInit, Idle, CaptureState
<1>. QED  BY <1>1, <1>2, <1>3 DEF StreamsInv, Shots

-----------------------------------------------------------------------------
(* The tokens.                                                             *)

LEMMA CallsKeepTokens ==
    ASSUME StreamsInv, NEW i \in Id,
           Listen(i) \/ Close(i) \/ HearEnd(i) \/ StopArrives(i) \/ StartArrives(i)
    PROVE  Control' /\ Tokens'
<1>1. CASE Listen(i)
  BY <1>1 DEF StreamsInv, Control, Tokens, Listen, tokens
<1>2. CASE Close(i)
  BY <1>2 DEF StreamsInv, Control, Tokens, Close, tokens
<1>3. CASE HearEnd(i)
  BY <1>3 DEF StreamsInv, Control, Tokens, HearEnd, tokens
<1>4. CASE StopArrives(i)
  BY <1>4 DEF StreamsInv, Control, Tokens, StopArrives, CancelEntry
<1>5. CASE StartArrives(i)
  BY <1>5 DEF StreamsInv, Control, Tokens, StartArrives, Claim, bridge
<1>. QED  BY <1>1, <1>2, <1>3, <1>4, <1>5

LEMMA ConnectsKeepTokens ==
    ASSUME StreamsInv, NEW i \in Id,
           ConnectFails(i) \/ SyslogConnects(i) \/ ScreensConnect(i) \/ TunnelCloses(i)
    PROVE  Control' /\ Tokens'
<1>1. CASE ConnectFails(i)
  BY <1>1 DEF StreamsInv, Control, Tokens, ConnectFails, Forget, bridge
<1>2. CASE SyslogConnects(i)
  BY <1>2 DEF StreamsInv, Control, Tokens, SyslogConnects, Forget, bridge, tokens
<1>3. CASE ScreensConnect(i)
  BY <1>3 DEF StreamsInv, Control, Tokens, ScreensConnect, bridge, tokens
<1>4. CASE TunnelCloses(i)
  BY <1>4 DEF StreamsInv, Control, Tokens, TunnelCloses, Forget, bridge
<1>. QED  BY <1>1, <1>2, <1>3, <1>4

LEMMA LoopsKeepTokens ==
    ASSUME StreamsInv, NEW i \in Id,
           \/ SyslogHeedsStop(i) \/ SyslogBreaks(i) \/ DeliveryHeedsStop(i)
           \/ PhoneIsGone(i) \/ Deliver(i)
           \/ \E decodes \in BOOLEAN : Record(i, decodes)
    PROVE  Control' /\ Tokens'
<1>1. CASE SyslogHeedsStop(i) \/ SyslogBreaks(i)
  BY <1>1 DEF StreamsInv, Control, Tokens, SyslogHeedsStop, SyslogBreaks, SyslogEnds, Forget, bridge
<1>2. CASE DeliveryHeedsStop(i)
  BY <1>2 DEF StreamsInv, Control, Tokens, DeliveryHeedsStop, Leave, bridge
<1>3. CASE PhoneIsGone(i)
  BY <1>3 DEF StreamsInv, Control, Tokens, PhoneIsGone, Leave, bridge
<1>4. CASE Deliver(i)
  <2>1. UNCHANGED <<task, tokens>> \/ (task[i] = "running" /\ Leave(i))
    BY <1>4 DEF Deliver
  <2>2. UNCHANGED bridge
    BY <1>4 DEF Deliver
  <2>. QED  BY <2>1, <2>2 DEF StreamsInv, Control, Tokens, Leave, bridge, tokens
<1>5. ASSUME NEW decodes \in BOOLEAN, Record(i, decodes) PROVE Control' /\ Tokens'
  <2>1. UNCHANGED <<task, tokens>> \/ (task[i] = "running" /\ SyslogEnds(i))
    BY <1>5 DEF Record
  <2>2. UNCHANGED bridge
    BY <1>5 DEF Record
  <2>. QED  BY <2>1, <2>2 DEF StreamsInv, Control, Tokens, SyslogEnds, Forget, bridge, tokens
<1>. QED  BY <1>1, <1>2, <1>3, <1>4, <1>5

\* A capture holds a clone of the token and touches neither it nor its entry.
LEMMA CapturesKeepTokens ==
    ASSUME StreamsInv, NEW i \in Id, NEW c \in Capture, CaptureStep(i, c)
    PROVE  Control' /\ Tokens'
<1>1. UNCHANGED <<bridge, task, tokens>>
  BY DEF CaptureStep, Ask, PhoneTakes, PhoneSends, ShotArrives, HandOver,
         CaptureIsStopped, CaptureHasNoTaker, CaptureFails
<1>. QED  BY <1>1 DEF StreamsInv, Control, Tokens, bridge, tokens

-----------------------------------------------------------------------------
(* The types of what the streams carry.                                    *)

LEMMA CallsKeepShots ==
    ASSUME StreamsInv, NEW i \in Id,
           \/ Listen(i) \/ Close(i) \/ HearEnd(i) \/ StopArrives(i) \/ StartArrives(i)
           \/ ConnectFails(i) \/ SyslogConnects(i) \/ TunnelCloses(i)
           \/ SyslogHeedsStop(i) \/ SyslogBreaks(i) \/ DeliveryHeedsStop(i)
           \/ PhoneIsGone(i)
    PROVE  Shots'
<1>1. UNCHANGED <<records, shots>>
  BY DEF Listen, Close, HearEnd, StopArrives, StartArrives, ConnectFails, SyslogConnects,
         TunnelCloses, SyslogHeedsStop, SyslogBreaks, DeliveryHeedsStop, PhoneIsGone
<1>. QED  BY <1>1 DEF StreamsInv, Shots, shots

LEMMA LoopsKeepShots ==
    ASSUME StreamsInv, NEW i \in Id,
           ScreensConnect(i) \/ Deliver(i) \/ \E decodes \in BOOLEAN : Record(i, decodes)
    PROVE  Shots'
<1>0. /\ records \in [Id -> Nat] /\ delivered \in [Id -> Nat] /\ asks \in [Id -> Nat]
      /\ capture \in [Id -> [Capture -> CaptureState]]
      /\ arriving \in [Id -> Seq(CaptureState)]
  BY DEF StreamsInv, Shots
<1>1. CASE ScreensConnect(i)
  <2>1. [Idle EXCEPT !.phase = "ready"] \in CaptureState
    BY DEF Idle, CaptureState
  <2>2. capture' = capture \/ capture' = [capture EXCEPT ![i] =
                              [c \in Capture |-> [Idle EXCEPT !.phase = "ready"]]]
    BY <1>1 DEF ScreensConnect
  <2>3. capture' \in [Id -> [Capture -> CaptureState]]
    BY <1>0, <2>1, <2>2
  <2>4. UNCHANGED <<records, arriving, delivered, asks>>
    BY <1>1 DEF ScreensConnect
  <2>. QED  BY <1>0, <2>3, <2>4 DEF Shots
<1>2. CASE Deliver(i)
  <2>1. Head(arriving[i]) \in CaptureState /\ Tail(arriving[i]) \in Seq(CaptureState)
    BY <1>0, <1>2 DEF Deliver
  <2>2. arriving' \in [Id -> Seq(CaptureState)]
    BY <1>0, <1>2, <2>1 DEF Deliver
  <2>3. Head(arriving[i]).asked \in Nat
    BY <2>1 DEF CaptureState
  <2>4. delivered' = delivered \/ delivered' = [delivered EXCEPT ![i] = Head(arriving[i]).asked]
    BY <1>2 DEF Deliver
  <2>5. delivered' \in [Id -> Nat]
    BY <1>0, <2>3, <2>4
  <2>6. UNCHANGED <<records, capture, asks>>
    BY <1>2 DEF Deliver
  <2>. QED  BY <1>0, <2>2, <2>5, <2>6 DEF Shots
<1>3. ASSUME NEW decodes \in BOOLEAN, Record(i, decodes) PROVE Shots'
  <2>1. records' \in [Id -> Nat]
    BY <1>0, <1>3 DEF Record
  <2>2. UNCHANGED shots
    BY <1>3 DEF Record
  <2>. QED  BY <1>0, <2>1, <2>2 DEF Shots, shots
<1>. QED  BY <1>1, <1>2, <1>3

LEMMA CapturesKeepShots ==
    ASSUME StreamsInv, NEW i \in Id, NEW c \in Capture, CaptureStep(i, c)
    PROVE  Shots'
<1>0. /\ records \in [Id -> Nat] /\ delivered \in [Id -> Nat] /\ asks \in [Id -> Nat]
      /\ capture \in [Id -> [Capture -> CaptureState]]
      /\ arriving \in [Id -> Seq(CaptureState)]
  BY DEF StreamsInv, Shots
<1>. DEFINE Phases == {"idle", "ready", "asking", "taking", "sending", "holding", "ended"}
<1>1. ASSUME NEW phase \in Phases, SetCapture(i, c, phase),
             UNCHANGED <<records, arriving, delivered, asks>>
      PROVE  Shots'
  <2>1. [capture[i][c] EXCEPT !.phase = phase] \in CaptureState
    <3>1. capture[i][c] \in [phase : Phases, asked : Nat]
      BY <1>0 DEF CaptureState
    <3>2. [capture[i][c] EXCEPT !.phase = phase] \in [phase : Phases, asked : Nat]
      BY <1>1, <3>1
    <3>. QED  BY <3>2 DEF CaptureState
  <2>2. capture' = [capture EXCEPT ![i] =
                       [capture[i] EXCEPT ![c] = [capture[i][c] EXCEPT !.phase = phase]]]
    BY <1>0, <1>1 DEF SetCapture
  <2>3. capture' \in [Id -> [Capture -> CaptureState]]
    BY <1>0, <2>1, <2>2
  <2>. QED  BY <1>0, <1>1, <2>3 DEF Shots
<1>2. CASE PhoneTakes(i, c) \/ PhoneSends(i, c) \/ ShotArrives(i, c)
           \/ CaptureIsStopped(i, c) \/ CaptureHasNoTaker(i, c) \/ CaptureFails(i, c)
  <2>1. UNCHANGED <<records, arriving, delivered, asks>>
    BY <1>2 DEF PhoneTakes, PhoneSends, ShotArrives, CaptureIsStopped, CaptureHasNoTaker,
                CaptureFails
  <2>2. \E phase \in Phases : SetCapture(i, c, phase)
    BY <1>2 DEF PhoneTakes, PhoneSends, ShotArrives, CaptureIsStopped, CaptureHasNoTaker,
                CaptureFails
  <2>. QED  BY <1>1, <2>1, <2>2
<1>3. CASE Ask(i, c)
  <2>1. [phase |-> "asking", asked |-> asks[i] + 1] \in CaptureState
    BY <1>0 DEF CaptureState
  <2>2. asks' \in [Id -> Nat] /\ UNCHANGED <<records, arriving, delivered>>
    BY <1>0, <1>3 DEF Ask
  <2>3. capture' \in [Id -> [Capture -> CaptureState]]
    BY <1>0, <1>3, <2>1 DEF Ask
  <2>. QED  BY <1>0, <2>2, <2>3 DEF Shots
<1>4. CASE HandOver(i, c)
  <2>1. [Idle EXCEPT !.phase = "ready"] \in CaptureState
    BY DEF Idle, CaptureState
  <2>2. capture' \in [Id -> [Capture -> CaptureState]]
    BY <1>0, <1>4, <2>1 DEF HandOver
  <2>3. arriving' \in [Id -> Seq(CaptureState)]
    BY <1>0, <1>4 DEF HandOver
  <2>4. UNCHANGED <<records, delivered, asks>>
    BY <1>4 DEF HandOver
  <2>. QED  BY <1>0, <2>2, <2>3, <2>4 DEF Shots
<1>. QED  BY <1>2, <1>3, <1>4 DEF CaptureStep

-----------------------------------------------------------------------------
LEMMA StreamsNextInv == StreamsInv /\ [StreamsNext]_streamsVars => StreamsInv'
<1>. SUFFICES ASSUME StreamsInv, [StreamsNext]_streamsVars PROVE StreamsInv'
  OBVIOUS
<1>1. CASE UNCHANGED streamsVars
  BY <1>1 DEF StreamsInv, Control, Shots, Tokens, streamsVars
<1>2. ASSUME NEW i \in Id,
             Listen(i) \/ Close(i) \/ HearEnd(i) \/ StopArrives(i) \/ StartArrives(i)
      PROVE  StreamsInv'
  BY <1>2, CallsKeepTokens, CallsKeepShots DEF StreamsInv
<1>3. ASSUME NEW i \in Id, ConnectFails(i) \/ SyslogConnects(i) \/ TunnelCloses(i)
      PROVE  StreamsInv'
  BY <1>3, ConnectsKeepTokens, CallsKeepShots DEF StreamsInv
<1>4. ASSUME NEW i \in Id, ScreensConnect(i) PROVE StreamsInv'
  BY <1>4, ConnectsKeepTokens, LoopsKeepShots DEF StreamsInv
<1>5. ASSUME NEW i \in Id,
             SyslogHeedsStop(i) \/ SyslogBreaks(i) \/ DeliveryHeedsStop(i) \/ PhoneIsGone(i)
      PROVE  StreamsInv'
  BY <1>5, LoopsKeepTokens, CallsKeepShots DEF StreamsInv
<1>6. ASSUME NEW i \in Id, Deliver(i) \/ \E decodes \in BOOLEAN : Record(i, decodes)
      PROVE  StreamsInv'
  BY <1>6, LoopsKeepTokens, LoopsKeepShots DEF StreamsInv
<1>7. ASSUME NEW i \in Id, NEW c \in Capture, CaptureStep(i, c) PROVE StreamsInv'
  BY <1>7, CapturesKeepTokens, CapturesKeepShots DEF StreamsInv
<1>. QED  BY <1>1, <1>2, <1>3, <1>4, <1>5, <1>6, <1>7 DEF StreamsNext

LEMMA StreamsKeep == StreamsInv => StreamIsStoppable
<1>1. StreamsInv => StreamsTypeOK
  BY DEF StreamsInv, Control, Shots, StreamsTypeOK
<1>. QED  BY <1>1 DEF StreamsInv, Control, Tokens, StreamIsStoppable

\* A running stream can be stopped by its own id and by nothing else, for any
\* number of streams of either kind, in whatever order their calls arrive.
THEOREM RunningCanBeStopped == StreamsSpec => []StreamIsStoppable
<1>1. StreamsInit => StreamsInv
  BY StreamsInitInv
<1>2. StreamsInv /\ [StreamsNext]_streamsVars => StreamsInv'
  BY StreamsNextInv
<1>. QED  BY <1>1, <1>2, StreamsKeep, PTL DEF StreamsSpec

-----------------------------------------------------------------------------
(* Input. What is down on the phone is kept below `held` by two chains.    *)
(* While reports are being sent, what is down once they have all been sent *)
(* is within `held`. And every touch in the queue follows the touch before *)
(* it, or what is held if it is the first: applied to just those fingers   *)
(* it leaves down only its own; the last touch leaves what is on the       *)
(* glass, so the next one Dart sends follows it too.                       *)

HIDE StreamsAssumption
USE InputAssumption

\* A command finds the fingers A held: those it neither lifts itself nor has
\* lifted for it, it presses.
Switched(A, command) == {f \in A : (f = One) # (One \in command.on \cup command.off)}
Kept(A, command) == IF command.off = {One} THEN A ELSE A \ Switched(A, command)
Follows(A, command) == Kept(A, command) \ command.off \subseteq command.on

\* The touches of a queue q, after the fingers h held before it, which count as
\* position 0.
IsTouch(q, k) == k = 0 \/ q[k].type = "touch"
On(q, h, k) == IF k = 0 THEN h ELSE q[k].on

\* No touch between positions j and k.
Adjacent(q, j, k) ==
    /\ j < k
    /\ \A m \in 0 .. Len(q) : j < m /\ m < k => ~IsTouch(q, m)

\* Every touch follows the one before it, and the last leaves what is on the
\* glass g.
Chain(q, h, g) ==
    /\ \A k \in 1 .. Len(q), j \in 0 .. Len(q) :
          IsTouch(q, j) /\ IsTouch(q, k) /\ Adjacent(q, j, k) => Follows(On(q, h, j), q[k])
    /\ \A j \in 0 .. Len(q) :
          IsTouch(q, j) /\ (\A m \in 0 .. Len(q) : j < m => ~IsTouch(q, m))
             => On(q, h, j) \subseteq g

\* A worker that will go on.
Living == worker \in {"waiting", "sending", "reconnecting"}

\* What is down once the reports have been sent.
After(fingers, report) == (fingers \ report.off) \cup report.on
Settled ==
    \/ Len(reports) = 1 /\ After(down, reports[1]) \subseteq held
    \/ Len(reports) = 2 /\ After(After(down, reports[1]), reports[2]) \subseteq held

Phone ==
    /\ ~link => down = {}
    /\ worker = "none" => ~link /\ held = {} /\ queue = <<>> /\ glass = {} /\ ~entry
    /\ worker \in {"draining", "ended"} => down = {}
    /\ worker \in {"waiting", "ending"} => down \subseteq held
    /\ worker = "sending" => Settled
    /\ worker = "reconnecting" => ~link

Dart ==
    /\ One \in glass => glass = {One}
    /\ session \in {"closed", "starting"} => worker \in {"none", "ended"}
    /\ session = "starting" => worker = "none"
    /\ session \in {"open", "stopping", "stopped"} => worker # "none"
    /\ Living /\ session = "open" => entry

InputInv == InputTypeOK /\ Phone /\ Dart /\ (Living => Chain(queue, held, glass))

-----------------------------------------------------------------------------
\* What follows many fingers follows some of them.
LEMMA FollowsFewer ==
    ASSUME NEW A \in SUBSET Fingers, NEW B \in SUBSET Fingers, A \subseteq B,
           NEW command \in Commands, command.type = "touch", Follows(B, command)
    PROVE  Follows(A, command)
BY DEF Follows, Kept, Switched

LEMMA InputInitInv == InputInit => InputInv
<1>. SUFFICES ASSUME InputInit PROVE InputInv
  OBVIOUS
<1>1. InputTypeOK
  <2>1. queue \in Seq(Commands) /\ reports \in Seq(ReportSet)
    BY DEF InputInit
  <2>2. entry \in BOOLEAN /\ link \in BOOLEAN
    BY DEF InputInit
  <2>3. answer \in [Request -> {"none", "asked", "done", "failed"}]
    BY DEF InputInit
  <2>4. glass \subseteq Fingers /\ held \subseteq Fingers /\ down \subseteq Fingers
    BY DEF InputInit
  <2>. QED  BY <2>1, <2>2, <2>3, <2>4 DEF InputInit, InputTypeOK
<1>2. Phone /\ Dart /\ ~Living
  BY DEF InputInit, Phone, Dart, Living
<1>. QED  BY <1>1, <1>2 DEF InputInv

-----------------------------------------------------------------------------
(* The queue.                                                              *)

\* What a queue holds besides, at its new end.
LEMMA Appended ==
    ASSUME NEW q \in Seq(Commands), NEW command \in Commands, NEW h
    PROVE  LET n == Len(q)
               r == Append(q, command)
           IN  /\ n \in Nat /\ Len(r) = n + 1 /\ r[n + 1] = command
               /\ \A k \in 1 .. n : r[k] = q[k]
               /\ \A k \in 0 .. n : (IsTouch(r, k) <=> IsTouch(q, k)) /\ On(r, h, k) = On(q, h, k)
               /\ (IsTouch(r, n + 1) <=> command.type = "touch") /\ On(r, h, n + 1) = command.on
BY DEF IsTouch, On

\* A touch that follows what is on the glass, and becomes it, joins the chain.
LEMMA TouchJoins ==
    ASSUME NEW q \in Seq(Commands), NEW h \in SUBSET Fingers, NEW g \in SUBSET Fingers,
           Chain(q, h, g), NEW command \in Commands, command.type = "touch",
           Follows(g, command)
    PROVE  Chain(Append(q, command), h, command.on)
<1>. DEFINE n == Len(q)
            r == Append(q, command)
<1>1. /\ n \in Nat /\ Len(r) = n + 1 /\ r[n + 1] = command
      /\ \A k \in 1 .. n : r[k] = q[k]
      /\ \A k \in 0 .. n : (IsTouch(r, k) <=> IsTouch(q, k)) /\ On(r, h, k) = On(q, h, k)
      /\ IsTouch(r, n + 1) /\ On(r, h, n + 1) = command.on
  <2>1. (IsTouch(r, n + 1) <=> command.type = "touch") /\ On(r, h, n + 1) = command.on
    BY Appended
  <2>2. n \in Nat /\ Len(r) = n + 1 /\ r[n + 1] = command /\ \A k \in 1 .. n : r[k] = q[k]
    OBVIOUS
  <2>3. \A k \in 0 .. n : (IsTouch(r, k) <=> IsTouch(q, k)) /\ On(r, h, k) = On(q, h, k)
    BY <2>2 DEF IsTouch, On
  <2>. QED  BY <2>1, <2>2, <2>3
<1>. HIDE DEF n, r
<1>2. n = Len(q)
  BY DEF n
<1>3. ASSUME NEW k \in 1 .. n + 1, NEW j \in 0 .. n + 1,
             IsTouch(r, j), IsTouch(r, k), Adjacent(r, j, k)
      PROVE  Follows(On(r, h, j), r[k])
  <2>1. j \in 0 .. n /\ j < k
    BY <1>1, <1>3 DEF Adjacent
  <2>2. CASE k \in 1 .. n
    <3>1. IsTouch(q, j) /\ IsTouch(q, k)
      BY <1>1, <1>3, <2>1, <2>2
    <3>2. Adjacent(q, j, k)
      BY <1>1, <1>2, <1>3, <2>1, <2>2 DEF Adjacent
    <3>. QED  BY <1>1, <1>2, <2>1, <2>2, <3>1, <3>2 DEF Chain
  <2>3. CASE k = n + 1
    <3>1. IsTouch(q, j) /\ \A m \in 0 .. n : j < m => ~IsTouch(q, m)
      BY <1>1, <1>3, <2>1, <2>3 DEF Adjacent
    <3>2. On(q, h, j) \subseteq g
      BY <1>2, <2>1, <3>1 DEF Chain
    <3>3. On(q, h, j) \in SUBSET Fingers
      BY <3>2
    <3>. QED  BY <1>1, <2>1, <2>3, <3>2, <3>3, FollowsFewer
  <2>. QED  BY <1>1, <1>3, <2>2, <2>3
<1>4. ASSUME NEW j \in 0 .. n + 1, \A m \in 0 .. n + 1 : j < m => ~IsTouch(r, m)
      PROVE  On(r, h, j) \subseteq command.on
  <2>1. j = n + 1
    BY <1>1, <1>4
  <2>. QED  BY <1>1, <2>1
<1>. QED  BY <1>1, <1>3, <1>4 DEF Chain, r

\* A key or a request changes nothing of it.
LEMMA OtherJoins ==
    ASSUME NEW q \in Seq(Commands), NEW h \in SUBSET Fingers, NEW g \in SUBSET Fingers,
           Chain(q, h, g), NEW command \in Commands, command.type # "touch"
    PROVE  Chain(Append(q, command), h, g)
<1>. DEFINE n == Len(q)
            r == Append(q, command)
<1>1. /\ n \in Nat /\ Len(r) = n + 1 /\ ~IsTouch(r, n + 1)
      /\ \A k \in 1 .. n : r[k] = q[k]
      /\ \A k \in 0 .. n : (IsTouch(r, k) <=> IsTouch(q, k)) /\ On(r, h, k) = On(q, h, k)
  BY Appended
<1>. HIDE DEF n, r
<1>2. n = Len(q)
  BY DEF n
<1>3. ASSUME NEW k \in 1 .. n + 1, NEW j \in 0 .. n + 1,
             IsTouch(r, j), IsTouch(r, k), Adjacent(r, j, k)
      PROVE  Follows(On(r, h, j), r[k])
  <2>1. j \in 0 .. n /\ k \in 1 .. n /\ j < k
    BY <1>1, <1>3 DEF Adjacent
  <2>2. IsTouch(q, j) /\ IsTouch(q, k)
    BY <1>1, <1>3, <2>1
  <2>3. Adjacent(q, j, k)
    BY <1>1, <1>2, <1>3, <2>1 DEF Adjacent
  <2>. QED  BY <1>1, <1>2, <2>1, <2>2, <2>3 DEF Chain
<1>4. ASSUME NEW j \in 0 .. n + 1, IsTouch(r, j), \A m \in 0 .. n + 1 : j < m => ~IsTouch(r, m)
      PROVE  On(r, h, j) \subseteq g
  <2>1. j \in 0 .. n /\ IsTouch(q, j)
    BY <1>1, <1>4
  <2>2. \A m \in 0 .. n : j < m => ~IsTouch(q, m)
    BY <1>1, <1>4
  <2>. QED  BY <1>1, <1>2, <2>1, <2>2 DEF Chain
<1>. QED  BY <1>1, <1>3, <1>4 DEF Chain, r

\* The worker takes the first command: a touch becomes what is held.
LEMMA FirstLeaves ==
    ASSUME NEW q \in Seq(Commands), NEW h \in SUBSET Fingers, NEW g \in SUBSET Fingers,
           Chain(q, h, g), q # <<>>
    PROVE  Chain(Tail(q), IF q[1].type = "touch" THEN q[1].on ELSE h, g)
<1>. DEFINE n == Len(q)
            r == Tail(q)
            i == IF q[1].type = "touch" THEN q[1].on ELSE h
            old(k) == IF k = 0 /\ q[1].type # "touch" THEN 0 ELSE k + 1
<1>1. n \in Nat \ {0} /\ Len(r) = n - 1 /\ \A k \in 1 .. n - 1 : r[k] = q[k + 1]
  OBVIOUS
<1>2. \A k \in 0 .. n - 1 :
         /\ (IsTouch(r, k) <=> IsTouch(q, old(k))) /\ On(r, i, k) = On(q, h, old(k))
         /\ old(k) \in 0 .. n
  BY <1>1 DEF IsTouch, On
<1>. HIDE DEF n, r, i
<1>3. n = Len(q)
  BY DEF n
<1>4. ASSUME NEW k \in 1 .. n - 1, NEW j \in 0 .. n - 1,
             IsTouch(r, j), IsTouch(r, k), Adjacent(r, j, k)
      PROVE  Follows(On(r, i, j), r[k])
  <2>1. old(k) = k + 1 /\ old(j) \in 0 .. n /\ k + 1 \in 1 .. n /\ k \in 0 .. n - 1
    BY <1>1
  <2>2. IsTouch(q, old(j)) /\ IsTouch(q, k + 1)
    BY <1>2, <1>4, <2>1
  <2>3. j < k /\ \A m \in 0 .. n - 1 : j < m /\ m < k => ~IsTouch(r, m)
    BY <1>1, <1>4 DEF Adjacent
  <2>4. ASSUME NEW m \in 0 .. n, old(j) < m, m < k + 1 PROVE ~IsTouch(q, m)
    <3>1. CASE m = 1
      BY <1>1, <2>4, <3>1 DEF IsTouch
    <3>2. CASE m # 1
      <4>1. m - 1 \in 0 .. n - 1 /\ j < m - 1 /\ m - 1 < k /\ old(m - 1) = m
        BY <1>1, <2>4, <3>2
      <4>. QED  BY <1>2, <2>3, <4>1
    <3>. QED  BY <3>1, <3>2
  <2>5. Adjacent(q, old(j), k + 1)
    BY <1>1, <1>3, <2>1, <2>3, <2>4 DEF Adjacent
  <2>. QED  BY <1>1, <1>2, <1>3, <2>1, <2>2, <2>5 DEF Chain
<1>5. ASSUME NEW j \in 0 .. n - 1, IsTouch(r, j), \A m \in 0 .. n - 1 : j < m => ~IsTouch(r, m)
      PROVE  On(r, i, j) \subseteq g
  <2>1. old(j) \in 0 .. n /\ IsTouch(q, old(j))
    BY <1>2, <1>5
  <2>2. ASSUME NEW m \in 0 .. n, old(j) < m PROVE ~IsTouch(q, m)
    <3>1. CASE m = 1
      BY <1>1, <2>2, <3>1 DEF IsTouch
    <3>2. CASE m # 1
      <4>1. m - 1 \in 0 .. n - 1 /\ j < m - 1 /\ old(m - 1) = m
        BY <1>1, <2>2, <3>2
      <4>. QED  BY <1>2, <1>5, <4>1
    <3>. QED  BY <3>1, <3>2
  <2>. QED  BY <1>2, <1>3, <2>1, <2>2 DEF Chain
<1>. QED  BY <1>1, <1>4, <1>5 DEF Chain, r, i

\* What is held may also be let go.
LEMMA LetGo ==
    ASSUME NEW q \in Seq(Commands), NEW h \in SUBSET Fingers, NEW g \in SUBSET Fingers,
           Chain(q, h, g)
    PROVE  Chain(q, {}, g)
<1>1. ASSUME NEW k \in 1 .. Len(q), NEW j \in 0 .. Len(q),
             IsTouch(q, j), IsTouch(q, k), Adjacent(q, j, k)
      PROVE  Follows(On(q, {}, j), q[k])
  <2>1. Follows(On(q, h, j), q[k]) /\ q[k] \in Commands /\ q[k].type = "touch"
    BY <1>1 DEF Chain, IsTouch
  <2>2. CASE j = 0
    BY <2>1, <2>2, FollowsFewer DEF On
  <2>3. CASE j # 0
    BY <2>1, <2>3 DEF On
  <2>. QED  BY <2>2, <2>3
<1>2. ASSUME NEW j \in 0 .. Len(q), IsTouch(q, j), \A m \in 0 .. Len(q) : j < m => ~IsTouch(q, m)
      PROVE  On(q, {}, j) \subseteq g
  BY <1>2 DEF Chain, On
<1>. QED  BY <1>1, <1>2 DEF Chain

\* Without a command on its way, what is held is on the glass.
LEMMA NothingOnItsWay ==
    ASSUME NEW h, NEW g, Chain(<<>>, h, g)
    PROVE  h \subseteq g
<1>1. IsTouch(<<>>, 0) /\ Len(<<>>) = 0 /\ On(<<>>, h, 0) = h
  BY DEF IsTouch, On
<1>2. \A m \in 0 .. Len(<<>>) : 0 < m => ~IsTouch(<<>>, m)
  BY <1>1
<1>. QED  BY <1>1, <1>2 DEF Chain

-----------------------------------------------------------------------------
(* The steps of Dart.                                                      *)

LEMMA OpensStep ==
    ASSUME InputInv, InputOpens \/ (\E works \in BOOLEAN : InputConnects(works))
                           \/ InputCloses \/ StopInput
    PROVE  InputInv'
<1>1. CASE InputOpens \/ InputCloses \/ StopInput
  <2>1. /\ UNCHANGED <<glass, queue, worker, held, reports, link, down, breaks, answer, frames>>
        /\ session' \in {"starting", "stopping", "stopped"}
        /\ entry' \in BOOLEAN /\ (session' # "stopped" => entry' = entry)
        /\ (entry' => entry)
    <3>1. CASE InputOpens
      BY <3>1 DEF InputInv, InputTypeOK, InputOpens, device
    <3>2. CASE InputCloses
      BY <3>2 DEF InputInv, InputTypeOK, InputCloses, device
    <3>3. CASE StopInput
      BY <3>3 DEF InputInv, InputTypeOK, StopInput, device
    <3>. QED  BY <1>1, <3>1, <3>2, <3>3
  <2>2. InputTypeOK'
    BY <2>1 DEF InputInv, InputTypeOK
  <2>3. Phone'
    BY <2>1 DEF InputInv, Phone, Settled
  <2>4. Dart'
    BY <1>1, <2>1 DEF InputInv, Dart, Living, InputOpens, InputCloses, StopInput
  <2>. QED  BY <2>1, <2>2, <2>3, <2>4 DEF InputInv, Living
<1>2. ASSUME NEW works \in BOOLEAN, InputConnects(works) PROVE InputInv'
  <2>1. InputTypeOK' /\ Phone' /\ Dart'
    BY <1>2 DEF InputInv, InputTypeOK, Phone, Dart, Living, InputConnects
  <2>2. queue' = <<>> /\ held' = {} /\ glass' = {}
    BY <1>2 DEF InputInv, Phone, Dart, InputConnects
  <2>3. Chain(<<>>, {}, {})
    BY DEF Chain, On
  <2>. QED  BY <2>1, <2>2, <2>3 DEF InputInv
<1>. QED  BY <1>1, <1>2

\* A command that follows what is on the glass.
LEMMA FrameStep ==
    ASSUME InputInv, NEW command \in Commands, NEW fingers \in SUBSET Fingers,
           SendFrame(command, fingers),
           One \in fingers => fingers = {One},
           \/ command.type = "touch" /\ command.on = fingers /\ Follows(glass, command)
           \/ command.type # "touch" /\ fingers = glass
    PROVE  InputInv'
<1>1. InputTypeOK'
  <2>1. queue' \in Seq(Commands) /\ frames' \in Nat /\ glass' \subseteq Fingers
    BY DEF InputInv, InputTypeOK, SendFrame, Send
  <2>. QED  BY <2>1 DEF InputInv, InputTypeOK, SendFrame, device
<1>2. Phone' /\ Dart'
  BY DEF InputInv, Phone, Dart, Living, Settled, SendFrame, device
<1>3. ASSUME Living' PROVE Chain(queue', held', glass')
  <2>1. Chain(queue, held, glass) /\ queue' = Append(queue, command)
        /\ held' = held /\ glass' = fingers
        /\ queue \in Seq(Commands) /\ held \in SUBSET Fingers /\ glass \in SUBSET Fingers
    BY <1>3 DEF InputInv, InputTypeOK, Dart, Living, SendFrame, Send
  <2>2. CASE command.type = "touch" /\ command.on = fingers /\ Follows(glass, command)
    BY <2>1, <2>2, TouchJoins
  <2>3. CASE command.type # "touch" /\ fingers = glass
    BY <2>1, <2>3, OtherJoins
  <2>. QED  BY <2>2, <2>3
<1>. QED  BY <1>1, <1>2, <1>3 DEF InputInv

LEMMA SendStep ==
    ASSUME InputInv, SendTouch \/ SendUp \/ SendKey \/ (\E on \in SUBSET Finger : SendTouches(on))
    PROVE  InputInv'
<1>0. glass \in SUBSET Fingers /\ (One \in glass => glass = {One})
  BY DEF InputInv, InputTypeOK, Dart
<1>1. CASE SendTouch
  <2>. DEFINE command == Touch({One}, {})
  <2>1. command \in Commands /\ command.type = "touch" /\ command.on = {One} /\ command.off = {}
    BY DEF Touch, Commands, Fingers
  <2>2. Follows(glass, command)
    BY <1>0, <2>1 DEF Follows, Kept, Switched
  <2>. HIDE DEF command
  <2>3. SendFrame(command, {One}) /\ {One} \in SUBSET Fingers
    BY <1>1 DEF SendTouch, command, Fingers
  <2>. QED  BY <2>1, <2>2, <2>3, FrameStep
<1>2. CASE SendUp
  <2>. DEFINE command == Touch({}, {One})
  <2>1. command \in Commands /\ command.type = "touch" /\ command.on = {} /\ command.off = {One}
    BY DEF Touch, Commands, Fingers
  <2>2. glass = {One}
    BY <1>0, <1>2 DEF SendUp
  <2>3. Follows(glass, command)
    BY <2>1, <2>2 DEF Follows, Kept
  <2>. HIDE DEF command
  <2>4. SendFrame(command, {}) /\ {} \in SUBSET Fingers
    BY <1>2 DEF SendUp, command
  <2>. QED  BY <2>1, <2>3, <2>4, FrameStep
<1>3. CASE SendKey
  <2>1. Key \in Commands /\ Key.type # "touch"
    BY DEF Key, Commands
  <2>2. SendFrame(Key, glass)
    BY <1>3 DEF SendKey
  <2>. QED  BY <1>0, <2>1, <2>2, FrameStep
<1>4. ASSUME NEW on \in SUBSET Finger, SendTouches(on) PROVE InputInv'
  <2>. DEFINE off == (glass \ {One}) \ on
              command == Touch(on, off)
  <2>1. /\ command \in Commands /\ command.type = "touch"
        /\ command.on = on /\ command.off = off
        /\ on \in SUBSET Fingers /\ One \notin on
    BY <1>0, <1>4 DEF Touch, Commands, Fingers
  <2>2. SendFrame(command, on) /\ on \cup off # {}
    BY <1>4 DEF SendTouches
  <2>3. Follows(glass, command)
    BY <1>0, <2>1 DEF Follows, Kept, Switched
  <2>. HIDE DEF command
  <2>. QED  BY <2>1, <2>2, <2>3, FrameStep
<1>. QED  BY <1>1, <1>2, <1>3, <1>4

LEMMA RequestStep ==
    ASSUME InputInv, NEW r \in Request, SendRequest(r)
    PROVE  InputInv'
<1>0. Question(r) \in Commands /\ Question(r).type # "touch"
  BY DEF Question, Commands
<1>1. InputTypeOK'
  <2>1. queue' \in Seq(Commands)
    BY <1>0 DEF InputInv, InputTypeOK, SendRequest, Send
  <2>2. answer' \in [Request -> {"none", "asked", "done", "failed"}]
    BY DEF InputInv, InputTypeOK, SendRequest
  <2>. QED  BY <2>1, <2>2 DEF InputInv, InputTypeOK, SendRequest, device
<1>2. Phone' /\ Dart'
  BY DEF InputInv, Phone, Dart, Living, Settled, SendRequest, device
<1>3. ASSUME Living' PROVE Chain(queue', held', glass')
  <2>1. Chain(queue, held, glass) /\ queue' = Append(queue, Question(r))
        /\ held' = held /\ glass' = glass
        /\ queue \in Seq(Commands) /\ held \in SUBSET Fingers /\ glass \in SUBSET Fingers
    BY <1>3 DEF InputInv, InputTypeOK, Dart, Living, SendRequest, Send
  <2>. QED  BY <1>0, <2>1, OtherJoins
<1>. QED  BY <1>1, <1>2, <1>3 DEF InputInv

-----------------------------------------------------------------------------
(* The steps of the worker and of the phone.                               *)

\* The first command, taken by a waiting worker.
LEMMA Taken ==
    ASSUME InputInv, worker = "waiting", queue # <<>>
    PROVE  /\ Head(queue) = queue[1] /\ Head(queue) \in Commands
           /\ Tail(queue) \in Seq(Commands)
           /\ Chain(queue, held, glass)
           /\ Chain(Tail(queue),
                    IF Head(queue).type = "touch" THEN Head(queue).on ELSE held, glass)
           /\ Head(queue).type = "touch" => Follows(held, Head(queue))
<1>1. /\ Chain(queue, held, glass) /\ queue \in Seq(Commands)
      /\ held \in SUBSET Fingers /\ glass \in SUBSET Fingers
  BY DEF InputInv, InputTypeOK, Living
<1>2. Head(queue) = queue[1] /\ queue[1] \in Commands /\ Tail(queue) \in Seq(Commands)
      /\ 1 \in 1 .. Len(queue)
  BY <1>1
<1>3. Chain(Tail(queue), IF queue[1].type = "touch" THEN queue[1].on ELSE held, glass)
  BY <1>1, FirstLeaves
<1>4. ASSUME queue[1].type = "touch" PROVE Follows(held, queue[1])
  <2>1. 0 \in 0 .. Len(queue) /\ IsTouch(queue, 0) /\ IsTouch(queue, 1)
        /\ Adjacent(queue, 0, 1) /\ On(queue, held, 0) = held
    BY <1>1, <1>4 DEF IsTouch, On, Adjacent
  <2>. QED  BY <1>1, <1>2, <2>1 DEF Chain
<1>. QED  BY <1>1, <1>2, <1>3, <1>4

LEMMA TouchStep == ASSUME InputInv, ApplyTouch PROVE InputInv'
<1>. DEFINE command == Head(queue)
            before == {f \in held : (f = One) # (One \in command.on \cup command.off)}
<1>1. /\ command \in Commands /\ command.type = "touch"
      /\ Tail(queue) \in Seq(Commands)
      /\ Chain(Tail(queue), command.on, glass) /\ Follows(held, command)
  BY Taken DEF ApplyTouch
<1>2. /\ worker = "waiting" /\ worker' = "sending" /\ queue' = Tail(queue)
      /\ held' = command.on /\ reports' = ReportsFor(command)
      /\ UNCHANGED <<glass, session, answer, frames, entry, link, down, breaks>>
  BY DEF ApplyTouch, HoldsAfter, dartSide, device
<1>3. /\ held \subseteq Fingers /\ down \subseteq held
      /\ command.on \subseteq Fingers /\ command.off \subseteq Fingers
  BY <1>1, <1>2 DEF InputInv, InputTypeOK, Phone, Commands
<1>4. before = Switched(held, command)
  BY DEF Switched
<1>. DEFINE first == IF before = {} \/ command.off = {One} THEN <<>>
                     ELSE <<TouchReport({}, before)>>
            last == TouchReport(command.on, command.off)
<1>5. reports' = first \o <<last>>
  BY <1>2 DEF ReportsFor
<1>6. /\ before = {} \/ command.off = {One} => first = <<>>
      /\ ~(before = {} \/ command.off = {One}) => first = <<TouchReport({}, before)>>
  OBVIOUS
<1>. HIDE DEF command, before, first, last
<1>7. /\ last \in ReportSet /\ last.on = command.on /\ last.off = command.off
      /\ TouchReport({}, before) \in ReportSet
      /\ TouchReport({}, before).on = {} /\ TouchReport({}, before).off = before
  BY <1>3, <1>4 DEF TouchReport, ReportSet, Switched, last
<1>8. reports' \in Seq(ReportSet) /\ Settled'
  <2>1. CASE before = {} \/ command.off = {One}
    <3>1. first = <<>>
      BY <1>6, <2>1
    <3>2. reports' \in Seq(ReportSet) /\ Len(reports') = 1 /\ reports'[1] = last
      BY <1>5, <1>7, <3>1
    <3>3. (down \ command.off) \cup command.on \subseteq command.on
      BY <1>1, <1>3, <1>4, <2>1 DEF Follows, Kept
    <3>. QED  BY <1>2, <1>7, <3>2, <3>3 DEF Settled, After
  <2>2. CASE ~(before = {} \/ command.off = {One})
    <3>1. first = <<TouchReport({}, before)>>
      BY <1>6, <2>2
    <3>2. /\ reports' \in Seq(ReportSet) /\ Len(reports') = 2
          /\ reports'[1] = TouchReport({}, before) /\ reports'[2] = last
      BY <1>5, <1>7, <3>1
    <3>3. (((down \ before) \cup {}) \ command.off) \cup command.on \subseteq command.on
      BY <1>1, <1>3, <1>4, <2>2 DEF Follows, Kept
    <3>. QED  BY <1>2, <1>7, <3>2, <3>3 DEF Settled, After
  <2>. QED  BY <2>1, <2>2
<1>9. InputTypeOK'
  BY <1>1, <1>2, <1>3, <1>8 DEF InputInv, InputTypeOK
<1>10. Phone' /\ Dart'
  BY <1>2, <1>8 DEF InputInv, Phone, Dart, Living
<1>11. Chain(queue', held', glass')
  BY <1>1, <1>2
<1>. QED  BY <1>9, <1>10, <1>11 DEF InputInv

LEMMA SentStep == ASSUME InputInv, ReportSent PROVE InputInv'
<1>1. /\ worker = "sending" /\ link /\ Settled /\ reports \in Seq(ReportSet)
      /\ reports' = Tail(reports)
      /\ worker' = IF Len(reports) = 1 THEN "waiting" ELSE "sending"
      /\ UNCHANGED <<glass, session, answer, frames, entry, queue, held, link, breaks>>
  BY DEF InputInv, InputTypeOK, Phone, ReportSent, dartSide
<1>2. Len(reports) \in {1, 2} /\ Head(reports) = reports[1] /\ reports[1] \in ReportSet
  BY <1>1 DEF Settled
<1>3. down' = After(down, reports[1])
  BY <1>2 DEF ReportSent, After
<1>4. InputTypeOK'
  <2>1. down' \subseteq Fingers
    BY <1>2, <1>3 DEF InputInv, InputTypeOK, After, ReportSet
  <2>2. reports' \in Seq(ReportSet)
    BY <1>1, <1>2
  <2>. QED  BY <1>1, <2>1, <2>2 DEF InputInv, InputTypeOK
<1>5. CASE Len(reports) = 1
  <2>1. down' \subseteq held' /\ worker' = "waiting"
    BY <1>1, <1>3, <1>5 DEF Settled
  <2>. QED  BY <1>1, <1>4, <2>1 DEF InputInv, Phone, Dart, Living
<1>6. CASE Len(reports) = 2
  <2>1. Len(reports') = 1 /\ reports'[1] = reports[2]
    BY <1>1, <1>6
  <2>2. After(down', reports'[1]) \subseteq held'
    <3>1. After(After(down, reports[1]), reports[2]) \subseteq held
      BY <1>1, <1>6 DEF Settled
    <3>. QED  BY <1>1, <1>3, <2>1, <3>1
  <2>3. Settled' /\ worker' = "sending"
    BY <1>1, <1>6, <2>1, <2>2 DEF Settled
  <2>. QED  BY <1>1, <1>4, <2>3 DEF InputInv, Phone, Dart, Living
<1>. QED  BY <1>2, <1>5, <1>6

LEMMA WorkerGoesOn ==
    ASSUME InputInv, ReportFails \/ (\E works \in BOOLEAN : Reconnect(works)) \/ QueueCloses
                \/ LiftAtEnd
    PROVE  InputInv'
<1>1. CASE ReportFails
  BY <1>1 DEF InputInv, InputTypeOK, Phone, Dart, Living, ReportFails, dartSide, device
<1>2. ASSUME NEW works \in BOOLEAN, Reconnect(works) PROVE InputInv'
  BY <1>2 DEF InputInv, InputTypeOK, Phone, Dart, Living, Reconnect, dartSide
<1>3. CASE QueueCloses
  BY <1>3 DEF InputInv, InputTypeOK, Phone, Dart, Living, QueueCloses, dartSide, device
<1>4. CASE LiftAtEnd
  <2>1. down' = {}
    BY <1>4 DEF InputInv, Phone, LiftAtEnd, Lifted
  <2>. QED  BY <1>4, <2>1 DEF InputInv, InputTypeOK, Phone, Dart, Living, LiftAtEnd, dartSide
<1>. QED  BY <1>1, <1>2, <1>3, <1>4

LEMMA KeyStep == ASSUME InputInv, ApplyKey PROVE InputInv'
<1>1. /\ Tail(queue) \in Seq(Commands) /\ Chain(Tail(queue), held, glass)
  BY Taken DEF ApplyKey
<1>2. /\ worker = "waiting" /\ worker' \in {"waiting", "reconnecting"}
      /\ worker' = "reconnecting" => ~link
      /\ queue' = Tail(queue)
      /\ UNCHANGED <<glass, session, answer, frames, entry, held, reports, link, down, breaks>>
  BY DEF InputInv, InputTypeOK, ApplyKey, dartSide, device
<1>3. InputTypeOK'
  BY <1>1, <1>2 DEF InputInv, InputTypeOK
<1>4. Phone' /\ Dart'
  BY <1>2 DEF InputInv, Phone, Dart, Living
<1>. QED  BY <1>1, <1>2, <1>3, <1>4 DEF InputInv

LEMMA AnswerStep ==
    ASSUME InputInv, NEW granted \in BOOLEAN, ApplyRequest(granted)
    PROVE  InputInv'
<1>1. /\ Tail(queue) \in Seq(Commands) /\ Chain(Tail(queue), held, glass)
  BY Taken DEF ApplyRequest
<1>2. /\ queue' = Tail(queue)
      /\ UNCHANGED <<glass, session, frames, entry, worker, held, reports, link, down, breaks>>
  BY DEF ApplyRequest, device
<1>3. answer' \in [Request -> {"none", "asked", "done", "failed"}]
  BY DEF InputInv, InputTypeOK, ApplyRequest
<1>4. InputTypeOK'
  BY <1>1, <1>2, <1>3 DEF InputInv, InputTypeOK
<1>5. Phone' /\ Dart'
  BY <1>2 DEF InputInv, Phone, Dart, Living, Settled
<1>. QED  BY <1>1, <1>2, <1>4, <1>5 DEF InputInv

LEMMA StillStep == ASSUME InputInv, StillTick PROVE InputInv'
<1>1. /\ worker = "waiting" /\ down \subseteq held /\ held \subseteq Fingers
      /\ queue \in Seq(Commands) /\ glass \subseteq Fingers
      /\ Chain(queue, held, glass) /\ (~link => down = {})
  BY DEF InputInv, InputTypeOK, Phone, Living, StillTick
<1>2. UNCHANGED <<glass, session, answer, frames, entry, queue, worker, reports, link, breaks>>
  BY DEF StillTick, dartSide
<1>3. CASE link
  BY <1>1, <1>2, <1>3 DEF InputInv, InputTypeOK, Phone, Dart, Living, StillTick
<1>4. CASE ~link
  <2>1. held' = {} /\ down' = {}
    BY <1>1, <1>4 DEF StillTick
  <2>2. Chain(queue', held', glass')
    BY <1>1, <1>2, <2>1, LetGo
  <2>3. InputTypeOK' /\ Phone' /\ Dart'
    BY <1>1, <1>2, <2>1 DEF InputInv, InputTypeOK, Phone, Dart, Living
  <2>. QED  BY <2>2, <2>3 DEF InputInv
<1>. QED  BY <1>3, <1>4

LEMMA EndStep == ASSUME InputInv, WorkerEnds PROVE InputInv'
<1>1. answer' \in [Request -> {"none", "asked", "done", "failed"}]
  BY DEF InputInv, InputTypeOK, WorkerEnds, DroppedWithQueue
<1>2. queue' \in Seq(Commands)
  BY DEF WorkerEnds
<1>. QED  BY <1>1, <1>2 DEF InputInv, InputTypeOK, Phone, Dart, Living, WorkerEnds

LEMMA BreakStep == ASSUME InputInv, LinkBreaks PROVE InputInv'
<1>1. /\ link' = FALSE /\ down' = {}
      /\ UNCHANGED <<glass, session, answer, frames, entry, queue, worker, held, reports>>
  BY DEF LinkBreaks, dartSide
<1>2. ASSUME Settled PROVE Settled'
  <2>1. /\ After(down', reports[1]) \subseteq After(down, reports[1])
        /\ After(After(down', reports[1]), reports[2])
              \subseteq After(After(down, reports[1]), reports[2])
    BY <1>1 DEF After
  <2>. QED  BY <1>1, <1>2, <2>1 DEF Settled
<1>3. InputTypeOK'
  <2>1. breaks \in Nat /\ breaks' = breaks + 1
    BY DEF InputInv, InputTypeOK, LinkBreaks
  <2>2. breaks' \in Nat
    BY <2>1
  <2>. QED  BY <1>1, <2>2 DEF InputInv, InputTypeOK
<1>4. Phone' /\ Dart'
  BY <1>1, <1>2 DEF InputInv, Phone, Dart, Living, LinkBreaks
<1>. QED  BY <1>1, <1>3, <1>4 DEF InputInv, Living

LEMMA InputNextInv == InputInv /\ [InputNext]_inputVars => InputInv'
<1>. SUFFICES ASSUME InputInv, [InputNext]_inputVars PROVE InputInv'
  OBVIOUS
<1>1. CASE UNCHANGED inputVars
  BY <1>1 DEF InputInv, InputTypeOK, Phone, Dart, Living, Settled, inputVars
<1>2. CASE InputOpens \/ InputCloses \/ StopInput \/ \E works \in BOOLEAN : InputConnects(works)
  BY <1>2, OpensStep
<1>3. CASE SendTouch \/ SendUp \/ SendKey \/ \E on \in SUBSET Finger : SendTouches(on)
  BY <1>3, SendStep
<1>4. CASE \E r \in Request : SendRequest(r)
  BY <1>4, RequestStep
<1>5. CASE WorkerStep
  <2>1. CASE ApplyTouch
    BY <2>1, TouchStep
  <2>2. CASE ReportSent
    BY <2>2, SentStep
  <2>3. CASE ReportFails \/ QueueCloses \/ LiftAtEnd \/ \E works \in BOOLEAN : Reconnect(works)
    BY <2>3, WorkerGoesOn
  <2>4. CASE ApplyKey
    BY <2>4, KeyStep
  <2>5. CASE WorkerEnds
    BY <2>5, EndStep
  <2>6. CASE \E granted \in BOOLEAN : ApplyRequest(granted)
    BY <2>6, AnswerStep
  <2>. QED  BY <1>5, <2>1, <2>2, <2>3, <2>4, <2>5, <2>6 DEF WorkerStep
<1>6. CASE StillTick
  BY <1>6, StillStep
<1>7. CASE LinkBreaks
  BY <1>7, BreakStep
<1>. QED  BY <1>1, <1>2, <1>3, <1>4, <1>5, <1>6, <1>7 DEF InputNext

LEMMA InputKeeps == InputInv => NoFingerIsLeft /\ NoGhostFinger
<1>1. InputInv => NoFingerIsLeft
  BY DEF InputInv, Phone, NoFingerIsLeft
<1>2. InputInv => NoGhostFinger
  BY NothingOnItsWay DEF InputInv, Living, NoGhostFinger
<1>. QED  BY <1>1, <1>2

LEMMA InputInvariance == InputSpec => []InputInv
<1>. QED  BY InputInitInv, InputNextInv, PTL DEF InputSpec

\* No finger is left on the phone: for any number of fingers, frames and breaks,
\* none is down once the worker has lifted what it held, and a waiting worker
\* holds every one that is.
THEOREM NoFingerStays == InputSpec => []NoFingerIsLeft
<1>. QED  BY InputKeeps, InputInvariance, PTL

\* No finger Dart has lifted is held, and so pressed again, once the worker has
\* applied what was sent: for any order of touches and any moment of a break.
THEOREM NoFingerReturns == InputSpec => []NoGhostFinger
<1>. QED  BY InputKeeps, InputInvariance, PTL

-----------------------------------------------------------------------------
(* Forwards. Ports are used again; what keeps one forward's stop from      *)
(* another's listener is that a forward which holds a port has no other    *)
(* entry over its own, and that a listener gives its port up only after    *)
(* its stop has been to the registry.                                      *)

HIDE InputAssumption
USE ForwardsAssumption

\* No two listeners hold the same port.
PortsAreOwned ==
    \A f, g \in Forward :
       forward[f] = "listening" /\ forward[g] = "listening" /\ hostPort[f] = hostPort[g]
         => f = g

\* A forward is stopped after it began, and ends after it was halted.
StopsInOrder ==
    \A f \in Forward :
       /\ f \in halted => f \in stopping
       /\ f \in stopping => forward[f] # "none"
       /\ forward[f] = "ended" => f \in halted
       /\ forward[f] = "listening" => hostPort[f] \in Port

ForwardsInv == ForwardsTypeOK /\ PortsAreOwned /\ StopsInOrder /\ ForwardIsStoppable

\* What clients do changes nothing of this.
registered == <<forward, hostPort, stopping, ports, halted>>

LEMMA ForwardsInitInv == ForwardsInit => ForwardsInv
BY DEF ForwardsInit, ForwardsInv, ForwardsTypeOK, PortsAreOwned, StopsInOrder, ForwardIsStoppable

\* The steps of the clients: all but accepting are a change of one phase.
LEMMA ClientStep ==
    ASSUME ForwardsInv, ForwardsTypeOK', UNCHANGED registered
    PROVE  ForwardsInv'
BY DEF ForwardsInv, registered, PortsAreOwned, StopsInOrder, ForwardIsStoppable, EntryOf

LEMMA SetClientType ==
    ASSUME ForwardsInv, NEW c \in Client, NEW phase \in {"connecting", "piping", "closed"},
           SetClient(c, phase)
    PROVE  ForwardsInv'
<1>1. ForwardsTypeOK' /\ UNCHANGED registered
  BY DEF ForwardsInv, ForwardsTypeOK, SetClient, registered
<1>. QED  BY <1>1, ClientStep

\* A fresh listener takes a port that none holds, and the entry under it.
LEMMA StartForwardInv ==
    ASSUME ForwardsInv, NEW f \in Forward, NEW p \in Port, StartForward(f, p)
    PROVE  ForwardsInv'
<1>1. ForwardsTypeOK'
  BY DEF ForwardsInv, ForwardsTypeOK, StartForward, EntryOf
<1>2. \A g \in Forward : forward[g] = "listening" => hostPort[g] # p
  BY DEF StartForward, Holder
<1>3. /\ forward' = [forward EXCEPT ![f] = "listening"]
      /\ hostPort' = [hostPort EXCEPT ![f] = p]
      /\ ports' = [ports EXCEPT ![p] = f]
      /\ forward[f] = "none"
      /\ UNCHANGED <<stopping, halted>>
  BY DEF StartForward, EntryOf
<1>4. PortsAreOwned'
  BY <1>2, <1>3 DEF ForwardsInv, ForwardsTypeOK, PortsAreOwned
<1>5. StopsInOrder'
  BY <1>3 DEF ForwardsInv, ForwardsTypeOK, StopsInOrder
<1>6. ForwardIsStoppable'
  BY <1>2, <1>3 DEF ForwardsInv, ForwardsTypeOK, StopsInOrder, ForwardIsStoppable, EntryOf
<1>. QED  BY <1>1, <1>4, <1>5, <1>6 DEF ForwardsInv

\* The stop finds its own forward: it was neither halted nor, therefore, ended.
LEMMA StopForwardInv ==
    ASSUME ForwardsInv, NEW f \in Forward, StopForward(f)
    PROVE  ForwardsInv'
<1>1. forward[f] = "listening" /\ hostPort[f] \in Port /\ f \in stopping
  BY DEF ForwardsInv, ForwardsTypeOK, StopsInOrder, StopForward
<1>2. ports[hostPort[f]] = f
  BY <1>1 DEF ForwardsInv, ForwardIsStoppable, StopForward, EntryOf
<1>3. /\ ports' = [ports EXCEPT ![hostPort[f]] = NoForward]
      /\ halted' = halted \cup {f}
      /\ UNCHANGED <<forward, hostPort, stopping, client, via>>
  BY <1>2 DEF StopForward, EntryOf
<1>4. ForwardsTypeOK'
  BY <1>3 DEF ForwardsInv, ForwardsTypeOK
<1>5. PortsAreOwned' /\ StopsInOrder'
  BY <1>1, <1>3 DEF ForwardsInv, PortsAreOwned, StopsInOrder
<1>6. ForwardIsStoppable'
  <2>1. SUFFICES ASSUME NEW g \in Forward, forward[g] = "listening", g \notin halted, g # f
                 PROVE  ports'[hostPort[g]] = g
    BY <1>1, <1>3 DEF ForwardIsStoppable, EntryOf, ForwardsInv, StopsInOrder
  <2>2. hostPort[g] # hostPort[f] /\ hostPort[g] \in Port /\ ports[hostPort[g]] = g
    BY <1>1, <2>1 DEF ForwardsInv, PortsAreOwned, StopsInOrder, ForwardIsStoppable, EntryOf
  <2>. QED  BY <1>1, <1>3, <2>2 DEF ForwardsInv, ForwardsTypeOK
<1>. QED  BY <1>4, <1>5, <1>6 DEF ForwardsInv

LEMMA ForwardsNextInv == ForwardsInv /\ [ForwardsNext]_forwardsVars => ForwardsInv'
<1>. SUFFICES ASSUME ForwardsInv, [ForwardsNext]_forwardsVars PROVE ForwardsInv'
  OBVIOUS
<1>1. CASE \E f \in Forward, p \in Port : StartForward(f, p)
  BY <1>1, StartForwardInv
<1>2. CASE \E f \in Forward : StopForward(f)
  BY <1>2, StopForwardInv
<1>3. CASE \E f \in Forward : PostStop(f)
  <2>1. PICK f \in Forward : PostStop(f)
    BY <1>3
  <2>2. ForwardsTypeOK'
    BY <2>1 DEF ForwardsInv, ForwardsTypeOK, PostStop
  <2>. QED
    BY <2>1, <2>2 DEF PostStop, ForwardsInv, PortsAreOwned, StopsInOrder, ForwardIsStoppable, EntryOf
<1>4. CASE \E f \in Forward : ForwardEnds(f)
  <2>1. PICK f \in Forward : ForwardEnds(f)
    BY <1>4
  <2>2. ForwardsTypeOK'
    BY <2>1 DEF ForwardsInv, ForwardsTypeOK, ForwardEnds
  <2>3. PortsAreOwned' /\ StopsInOrder'
    BY <2>1 DEF ForwardsInv, ForwardsTypeOK, ForwardEnds, PortsAreOwned, StopsInOrder
  <2>4. ForwardIsStoppable'
    BY <2>1 DEF ForwardsInv, ForwardsTypeOK, ForwardEnds, ForwardIsStoppable, EntryOf
  <2>. QED  BY <2>2, <2>3, <2>4 DEF ForwardsInv
<1>5. CASE \E c \in Client, f \in Forward : ClientConnects(c, f)
  <2>1. ForwardsTypeOK' /\ UNCHANGED registered
    BY <1>5 DEF ForwardsInv, ForwardsTypeOK, ClientConnects, registered
  <2>. QED  BY <2>1, ClientStep
<1>6. CASE \E c \in Client : Accept(c)
  <2>1. ForwardsTypeOK' /\ UNCHANGED registered
    BY <1>6 DEF ForwardsInv, ForwardsTypeOK, Accept, registered
  <2>. QED  BY <2>1, ClientStep
<1>7. CASE \E c \in Client :
              PipeOpens(c) \/ PipeIsRefused(c) \/ PipeHangsUp(c) \/ PipeHeedsStop(c)
  BY <1>7, SetClientType DEF PipeOpens, PipeIsRefused, PipeHangsUp, PipeHeedsStop
<1>8. CASE UNCHANGED forwardsVars
  <2>1. ForwardsTypeOK' /\ UNCHANGED registered
    BY <1>8 DEF ForwardsInv, ForwardsTypeOK, forwardsVars, registered
  <2>. QED  BY <2>1, ClientStep
<1>. QED  BY <1>1, <1>2, <1>3, <1>4, <1>5, <1>6, <1>7, <1>8 DEF ForwardsNext

\* However ports are used again, the port Dart was given stops its own forward
\* and no other (start_ and stop_ios_port_forward).
THEOREM StopFindsItsForward == ForwardsSpec => []ForwardIsStoppable
<1>1. ForwardsInv => ForwardIsStoppable
  BY DEF ForwardsInv
<1>. QED  BY <1>1, ForwardsInitInv, ForwardsNextInv, PTL DEF ForwardsSpec

-----------------------------------------------------------------------------
(* Calls. What an error says is true of the phone at the await that gave   *)
(* it, and so of the phone since the call was made. That a tunnel is       *)
(* closed again is read off the scripts: after it is opened every step     *)
(* that can fail goes on at the close.                                     *)

\* The steps of the scripts.
Await == {"muxer", "device", "devices", "attach", "session", "service", "tunnel", "request",
          "value", "domain", "offer", "close", "rsd", "port", "ignored"}
StepSet == [await : Await, onError : {"return", "close", "ignored"}]

\* A step that, if it fails, goes on at the close.
Safe(step) == step.onError = "close" \/ step.await = "offer"

\* The tunnel opened at i is closed by the step at k, wherever the call fails.
ClosedAt(s, i, k) ==
    k \in i + 1 .. Len(s) /\ s[k].await = "close" /\ \A j \in i + 1 .. k - 1 : Safe(s[j])

IsTunnel(s, i) == i \in 1 .. Len(s) /\ s[i].await = "tunnel"

\* A script that closes each tunnel it opens; one that does, or is safe since; one
\* that opens none.
Closes(s) == \A i \in Nat : IsTunnel(s, i) => \E k \in Nat : ClosedAt(s, i, k)
Holds(s) == \A i \in Nat : IsTunnel(s, i) =>
                \/ \E k \in Nat : ClosedAt(s, i, k)
                \/ \A j \in i + 1 .. Len(s) : Safe(s[j])
Quiet(s) == \A i \in Nat : ~IsTunnel(s, i)

\* What a call has met names a trouble.
IsTrue(failure) ==
    /\ met \cap CausesOf(failure) # {}
    /\ call = "describe_ios_device" /\ failure \in Errors => met \cap {"muxer", "gone"} # {}

CallsInv ==
    /\ AnswersAreTrue
    /\ phone \subseteq met
    /\ reply = Pending => at \in 1 .. Len(Script[call])
    /\ error # NoError => error \in (Errors \cup Statuses) \ {"device"} /\ IsTrue(error)
    /\ reply = Pending => tunnel # "dropped"
    /\ reply = Pending /\ error # NoError => Script[call][at].await \in {"close", "ignored"}
    /\ reply = Pending /\ tunnel = "open" /\ call \notin Keeping =>
          \E k \in at .. Len(Script[call]) :
             /\ Script[call][k].await = "close"
             /\ call \notin Dropping => \A j \in at .. k - 1 : Safe(Script[call][j])

\* Scripts put together.
LEMMA Joined ==
    ASSUME NEW s \in Seq(StepSet), NEW t \in Seq(StepSet)
    PROVE  /\ s \o t \in Seq(StepSet) /\ Len(s \o t) = Len(s) + Len(t)
           /\ \A i \in 1 .. Len(s) : (s \o t)[i] = s[i]
           /\ \A i \in 1 .. Len(t) : (s \o t)[Len(s) + i] = t[i]
           /\ Len(s) \in Nat /\ Len(t) \in Nat
<1>1. Len(s) \in Nat /\ Len(t) \in Nat /\ s \o t \in Seq(StepSet)
      /\ Len(s \o t) = Len(s) + Len(t)
  OBVIOUS
<1>2. \A i \in 1 .. Len(s) : (s \o t)[i] = s[i]
  OBVIOUS
<1>3. ASSUME NEW i \in 1 .. Len(t) PROVE (s \o t)[Len(s) + i] = t[i]
  BY <1>1
<1>. QED  BY <1>1, <1>2, <1>3

LEMMA SplitIndex ==
    ASSUME NEW s \in Seq(StepSet), NEW t \in Seq(StepSet), NEW i, IsTunnel(s \o t, i)
    PROVE  IsTunnel(s, i) \/ \E l \in 1 .. Len(t) : i = Len(s) + l /\ IsTunnel(t, l)
<1>1. /\ Len(s \o t) = Len(s) + Len(t) /\ Len(s) \in Nat /\ Len(t) \in Nat
      /\ \A l \in 1 .. Len(s) : (s \o t)[l] = s[l]
      /\ \A l \in 1 .. Len(t) : (s \o t)[Len(s) + l] = t[l]
  BY Joined
<1>2. i \in 1 .. Len(s) + Len(t) /\ (s \o t)[i].await = "tunnel"
  BY <1>1 DEF IsTunnel
<1>3. CASE i <= Len(s)
  BY <1>1, <1>2, <1>3 DEF IsTunnel
<1>4. CASE i > Len(s)
  <2>1. i - Len(s) \in 1 .. Len(t) /\ i = Len(s) + (i - Len(s))
    BY <1>1, <1>2, <1>4
  <2>2. (s \o t)[i] = t[i - Len(s)]
    BY <1>1, <2>1
  <2>. QED  BY <1>2, <2>1, <2>2 DEF IsTunnel
<1>. QED  BY <1>1, <1>2, <1>3, <1>4

\* The tunnel of a script is still closed when the script is part of a longer one.
LEMMA ClosedFurther ==
    ASSUME NEW s \in Seq(StepSet), NEW t \in Seq(StepSet), NEW i \in Nat, NEW k \in Nat
    PROVE  /\ ClosedAt(s, i, k) /\ i > 0 => ClosedAt(s \o t, i, k)
           /\ ClosedAt(t, i, k) /\ i > 0 => ClosedAt(s \o t, Len(s) + i, Len(s) + k)
<1>1. /\ Len(s \o t) = Len(s) + Len(t) /\ Len(s) \in Nat /\ Len(t) \in Nat
      /\ \A l \in 1 .. Len(s) : (s \o t)[l] = s[l]
      /\ \A l \in 1 .. Len(t) : (s \o t)[Len(s) + l] = t[l]
  BY Joined
<1>2. ASSUME ClosedAt(s, i, k), i > 0 PROVE ClosedAt(s \o t, i, k)
  <2>1. k \in 1 .. Len(s) /\ \A j \in i + 1 .. k - 1 : j \in 1 .. Len(s)
    BY <1>1, <1>2 DEF ClosedAt
  <2>. QED  BY <1>1, <1>2, <2>1 DEF ClosedAt
<1>3. ASSUME ClosedAt(t, i, k), i > 0 PROVE ClosedAt(s \o t, Len(s) + i, Len(s) + k)
  <2>1. k \in i + 1 .. Len(t) /\ t[k].await = "close" /\ \A j \in i + 1 .. k - 1 : Safe(t[j])
    BY <1>3 DEF ClosedAt
  <2>. DEFINE a == Len(s) + i
              b == Len(s) + k
  <2>2. b \in a + 1 .. Len(s \o t) /\ (s \o t)[b].await = "close"
    BY <1>1, <1>3, <2>1
  <2>3. ASSUME NEW j \in a + 1 .. b - 1 PROVE Safe((s \o t)[j])
    <3>1. j - Len(s) \in i + 1 .. k - 1 /\ j - Len(s) \in 1 .. Len(t)
          /\ j = Len(s) + (j - Len(s))
      BY <1>1, <1>3, <2>1
    <3>2. (s \o t)[j] = t[j - Len(s)]
      BY <1>1, <3>1
    <3>. QED  BY <2>1, <3>1, <3>2
  <2>. HIDE DEF a, b
  <2>4. ClosedAt(s \o t, a, b)
    BY <2>2, <2>3 DEF ClosedAt
  <2>. QED  BY <2>4 DEF a, b
<1>. QED  BY <1>2, <1>3

\* What is known of two scripts, of the two together.
LEMMA JoinedScripts ==
    ASSUME NEW s \in Seq(StepSet), NEW t \in Seq(StepSet)
    PROVE  /\ s \o t \in Seq(StepSet) /\ (s # <<>> => s \o t # <<>>)
           /\ Quiet(s) /\ Quiet(t) => Quiet(s \o t)
           /\ Closes(s) /\ Closes(t) => Closes(s \o t)
           /\ Quiet(s) /\ Holds(t) => Holds(s \o t)
           /\ Holds(s) /\ Quiet(t) /\ (\A l \in 1 .. Len(t) : Safe(t[l])) => Holds(s \o t)
<1>1. /\ Len(s \o t) = Len(s) + Len(t) /\ Len(s) \in Nat /\ Len(t) \in Nat
      /\ s \o t \in Seq(StepSet)
      /\ \A l \in 1 .. Len(s) : (s \o t)[l] = s[l]
      /\ \A l \in 1 .. Len(t) : (s \o t)[Len(s) + l] = t[l]
  BY Joined
<1>2. s # <<>> => s \o t # <<>>
  BY <1>1
<1>3. ASSUME Quiet(s), Quiet(t) PROVE Quiet(s \o t)
  BY <1>1, <1>3, SplitIndex DEF Quiet
<1>4. ASSUME Closes(s), Closes(t) PROVE Closes(s \o t)
  <2>. SUFFICES ASSUME NEW i \in Nat, IsTunnel(s \o t, i)
                PROVE  \E k \in Nat : ClosedAt(s \o t, i, k)
    BY DEF Closes
  <2>1. CASE IsTunnel(s, i)
    <3>1. PICK k \in Nat : ClosedAt(s, i, k)
      BY <1>4, <2>1 DEF Closes
    <3>2. i > 0
      BY <2>1 DEF IsTunnel
    <3>. QED  BY <3>1, <3>2, ClosedFurther
  <2>2. ASSUME NEW l \in 1 .. Len(t), i = Len(s) + l, IsTunnel(t, l)
        PROVE  \E k \in Nat : ClosedAt(s \o t, i, k)
    <3>1. PICK k \in Nat : ClosedAt(t, l, k)
      BY <1>4, <2>2 DEF Closes
    <3>2. ClosedAt(s \o t, i, Len(s) + k)
      BY <2>2, <3>1, ClosedFurther
    <3>. QED  BY <1>1, <3>2
  <2>. QED  BY <2>1, <2>2, SplitIndex
<1>5. ASSUME Quiet(s), Holds(t) PROVE Holds(s \o t)
  <2>. SUFFICES ASSUME NEW i \in Nat, IsTunnel(s \o t, i)
                PROVE  \/ \E k \in Nat : ClosedAt(s \o t, i, k)
                       \/ \A j \in i + 1 .. Len(s \o t) : Safe((s \o t)[j])
    BY DEF Holds
  <2>1. PICK l \in 1 .. Len(t) : i = Len(s) + l /\ IsTunnel(t, l)
    BY <1>5, SplitIndex DEF Quiet
  <2>2. CASE \E k \in Nat : ClosedAt(t, l, k)
    <3>1. PICK k \in Nat : ClosedAt(t, l, k)
      BY <2>2
    <3>2. ClosedAt(s \o t, i, Len(s) + k)
      BY <2>1, <3>1, ClosedFurther
    <3>. QED  BY <1>1, <3>2
  <2>3. CASE \A j \in l + 1 .. Len(t) : Safe(t[j])
    <3>1. ASSUME NEW j \in i + 1 .. Len(s \o t) PROVE Safe((s \o t)[j])
      <4>1. j - Len(s) \in l + 1 .. Len(t) /\ j = Len(s) + (j - Len(s))
        BY <1>1, <2>1
      <4>2. (s \o t)[j] = t[j - Len(s)]
        BY <1>1, <2>1, <4>1
      <4>. QED  BY <2>3, <4>1, <4>2
    <3>. QED  BY <3>1
  <2>. QED  BY <1>5, <2>1, <2>2, <2>3 DEF Holds
<1>6. ASSUME Holds(s), Quiet(t), \A l \in 1 .. Len(t) : Safe(t[l]) PROVE Holds(s \o t)
  <2>. SUFFICES ASSUME NEW i \in Nat, IsTunnel(s \o t, i)
                PROVE  \/ \E k \in Nat : ClosedAt(s \o t, i, k)
                       \/ \A j \in i + 1 .. Len(s \o t) : Safe((s \o t)[j])
    BY DEF Holds
  <2>1. IsTunnel(s, i) /\ i > 0
    BY <1>1, <1>6, SplitIndex DEF Quiet, IsTunnel
  <2>2. CASE \E k \in Nat : ClosedAt(s, i, k)
    BY <2>1, <2>2, ClosedFurther
  <2>3. CASE \A j \in i + 1 .. Len(s) : Safe(s[j])
    <3>1. ASSUME NEW j \in i + 1 .. Len(s \o t) PROVE Safe((s \o t)[j])
      <4>1. CASE j <= Len(s)
        BY <1>1, <2>1, <2>3, <4>1
      <4>2. CASE j > Len(s)
        <5>1. j - Len(s) \in 1 .. Len(t) /\ j = Len(s) + (j - Len(s))
          BY <1>1, <4>2
        <5>2. (s \o t)[j] = t[j - Len(s)]
          BY <1>1, <5>1
        <5>. QED  BY <1>6, <5>1, <5>2
      <4>. QED  BY <1>1, <4>1, <4>2
    <3>. QED  BY <3>1
  <2>. QED  BY <1>6, <2>1, <2>2, <2>3 DEF Holds
<1>. QED  BY <1>1, <1>2, <1>3, <1>4, <1>5, <1>6

LEMMA WithLast ==
    ASSUME NEW s \in Seq(StepSet), NEW t \in Seq(StepSet), Len(t) = 1
    PROVE  /\ Len(s \o t) = Len(s) + 1 /\ Len(s) \in Nat
           /\ \A l \in 1 .. Len(s) : (s \o t)[l] = s[l]
           /\ (s \o t)[Len(s) + 1] = t[1]
<1>1. /\ Len(s \o t) = Len(s) + Len(t) /\ Len(s) \in Nat
      /\ \A l \in 1 .. Len(s) : (s \o t)[l] = s[l]
      /\ \A l \in 1 .. Len(t) : (s \o t)[Len(s) + l] = t[l]
  BY Joined
<1>2. 1 \in 1 .. Len(t)
  OBVIOUS
<1>. QED  BY <1>1, <1>2

\* The close at the end of a script that is safe once its tunnel is open.
LEMMA ClosedLast ==
    ASSUME NEW s \in Seq(StepSet), Holds(s)
    PROVE  Closes(s \o TunnelClose)
<1>0. TunnelClose \in Seq(StepSet) /\ Len(TunnelClose) = 1 /\ TunnelClose[1].await = "close"
  BY DEF TunnelClose, Asks, Steps, StepSet, Await
<1>1. /\ Len(s \o TunnelClose) = Len(s) + 1 /\ Len(s) \in Nat
      /\ \A l \in 1 .. Len(s) : (s \o TunnelClose)[l] = s[l]
      /\ (s \o TunnelClose)[Len(s) + 1] = TunnelClose[1]
  BY <1>0, WithLast
<1>. SUFFICES ASSUME NEW i \in Nat, IsTunnel(s \o TunnelClose, i)
              PROVE  \E k \in Nat : ClosedAt(s \o TunnelClose, i, k)
  BY DEF Closes
<1>2. IsTunnel(s, i)
  BY <1>0, <1>1, SplitIndex DEF IsTunnel
<1>3. CASE \E k \in Nat : ClosedAt(s, i, k)
  <2>1. i > 0
    BY <1>2 DEF IsTunnel
  <2>. QED  BY <1>0, <1>3, <2>1, ClosedFurther
<1>4. CASE \A j \in i + 1 .. Len(s) : Safe(s[j])
  <2>1. i \in 1 .. Len(s)
    BY <1>2 DEF IsTunnel
  <2>2. \A j \in i + 1 .. Len(s) : Safe((s \o TunnelClose)[j])
    BY <1>1, <1>4, <2>1
  <2>3. ClosedAt(s \o TunnelClose, i, Len(s) + 1)
    BY <1>0, <1>1, <2>1, <2>2 DEF ClosedAt
  <2>. QED  BY <1>1, <2>3
<1>. QED  BY <1>2, <1>3, <1>4 DEF Holds

\* A script whose result is ignored closes what it closed.
LEMMA IgnoredScript ==
    ASSUME NEW s \in Seq(StepSet), Closes(s)
    PROVE  Ignored(s) \in Seq(StepSet) /\ Closes(Ignored(s))
<1>1. /\ Len(s) \in Nat /\ Len(Ignored(s)) = Len(s) /\ Ignored(s) \in Seq(StepSet)
      /\ \A i \in 1 .. Len(s) :
            /\ Ignored(s)[i].await = s[i].await
            /\ s[i].onError = "close" => Ignored(s)[i].onError = "close"
  <2>1. \A i \in 1 .. Len(s) : s[i] \in StepSet
    OBVIOUS
  <2>2. \A step \in StepSet :
           [step EXCEPT !.onError = IF @ = "return" THEN "ignored" ELSE @] \in StepSet
    BY DEF StepSet
  <2>. QED  BY <2>1, <2>2 DEF Ignored, StepSet
<1>2. \A i, k \in Nat : i > 0 /\ ClosedAt(s, i, k) => ClosedAt(Ignored(s), i, k)
  <2>. SUFFICES ASSUME NEW i \in Nat, NEW k \in Nat, i > 0, ClosedAt(s, i, k)
                PROVE  ClosedAt(Ignored(s), i, k)
    OBVIOUS
  <2>1. k \in 1 .. Len(s) /\ \A j \in i + 1 .. k - 1 : j \in 1 .. Len(s) /\ Safe(s[j])
    BY <1>1 DEF ClosedAt
  <2>. QED  BY <1>1, <2>1 DEF ClosedAt, Safe
<1>3. \A i \in Nat : IsTunnel(Ignored(s), i) => IsTunnel(s, i) /\ i > 0
  BY <1>1 DEF IsTunnel
<1>. QED  BY <1>1, <1>2, <1>3 DEF Closes

\* Every script closes the tunnel it opens, but for those that may drop it; a
\* screenshot's ends with the close.
LEMMA Scripts ==
    /\ \A c \in Call : Script[c] \in Seq(StepSet) /\ Script[c] # <<>>
    /\ \A c \in Call \ Dropping : Closes(Script[c])
    /\ LET shot == Script["capture_ios_screenshot"] IN shot[Len(shot)].await = "close"
<1>. DEFINE Good(s) == s \in Seq(StepSet) /\ s # <<>>
            Still(s) == Good(s) /\ Quiet(s)
            Open(s) == Good(s) /\ Holds(s)
            Shut(s) == Good(s) /\ Closes(s)
<1>1. ASSUME NEW s, NEW t, Still(s), Still(t) PROVE Still(s \o t)
  BY <1>1, JoinedScripts
<1>2. ASSUME NEW s, Still(s) PROVE Shut(s) /\ Open(s)
  BY <1>2 DEF Quiet, Closes, Holds
<1>3. ASSUME NEW s, NEW t, Shut(s), Shut(t) PROVE Shut(s \o t)
  BY <1>3, JoinedScripts
<1>4. ASSUME NEW s, NEW t, Still(s), Open(t) PROVE Open(s \o t)
  BY <1>4, JoinedScripts
<1>5. ASSUME NEW s, NEW t, Open(s), Still(t), \A l \in 1 .. Len(t) : Safe(t[l])
      PROVE  Open(s \o t)
  BY <1>5, JoinedScripts
<1>6. ASSUME NEW s, Open(s) PROVE Shut(s \o TunnelClose)
  <2>1. TunnelClose \in Seq(StepSet)
    BY DEF TunnelClose, Asks, Steps, StepSet, Await
  <2>. QED  BY <1>6, <2>1, ClosedLast, JoinedScripts
<1>7. ASSUME NEW s, Shut(s) PROVE Shut(Ignored(s))
  <2>1. Len(Ignored(s)) = Len(s) /\ Len(s) # 0
    BY <1>7 DEF Ignored
  <2>. QED  BY <1>7, <2>1, IgnoredScript
<1>8. ASSUME NEW s, NEW t, Good(s), Good(t) PROVE Good(s \o t)
  BY <1>8, JoinedScripts
<1>9. /\ Still(provider_for) /\ Still(connect) /\ Still(open_session) /\ Still(request)
      /\ Still(domain) /\ Still(Asks(<<"value">>)) /\ Still(Asks(<<"port">>))
      /\ Still(list_ios_devices) /\ Still(streams_display) /\ Still(InputGate)
      /\ Still(Asks(<<"rsd">>)) /\ Still(Asks(<<"rsd", "rsd">>))
      /\ Still(Asks(<<"ignored", "request", "request">>))
  BY DEF provider_for, connect, open_session, request, domain, list_ios_devices,
         streams_display, InputGate, Asks, Steps, StepSet, Await, Quiet, IsTunnel
<1>10. /\ Still(Guarded(<<"request">>)) /\ Still(Guarded(<<"rsd", "request">>))
       /\ Still(Guarded(<<"rsd", "request", "request">>))
  BY DEF Guarded, Steps, StepSet, Await, Quiet, IsTunnel
<1>11. /\ \A l \in 1 .. Len(streams_display) : Safe(streams_display[l])
       /\ \A l \in 1 .. Len(Guarded(<<"rsd", "request">>)) :
             Safe(Guarded(<<"rsd", "request">>)[l])
       /\ \A l \in 1 .. Len(Guarded(<<"rsd", "request", "request">>)) :
             Safe(Guarded(<<"rsd", "request", "request">>)[l])
  BY DEF streams_display, Guarded, Asks, Steps, Safe
<1>12. Open(Asks(<<"tunnel">>)) /\ Good(TunnelClose)
  BY DEF TunnelClose, Asks, Steps, StepSet, Await, Holds, IsTunnel
<1>. HIDE DEF Still, Open, Shut, Good
<1>13. Still(afc_client) /\ Still(installation_proxy) /\ Still(provider_for \o connect)
  BY <1>1, <1>9 DEF afc_client, installation_proxy
<1>14. Open(TunnelOpen)
  BY <1>4, <1>12, <1>13 DEF TunnelOpen
<1>15. /\ Still(start_ios_syslog) /\ Still(list_ios_apps) /\ Still(install_ios_app)
       /\ Still(uninstall_ios_app) /\ Still(ios_app_bundle_path) /\ Still(fetch_ios_app_icon)
       /\ Still(read_ios_interface_orientation)
  BY <1>1, <1>9, <1>13
     DEF start_ios_syslog, list_ios_apps, install_ios_app, uninstall_ios_app,
         ios_app_bundle_path, fetch_ios_app_icon, read_ios_interface_orientation
<1>16. /\ Still(create_ios_directory) /\ Still(rename_ios_path) /\ Still(delete_ios_path)
       /\ Still(pull_ios_crash_reports) /\ Still(list_ios_files)
       /\ Still(download_ios_path) /\ Still(upload_ios_path)
  BY <1>1, <1>9, <1>13
     DEF create_ios_directory, rename_ios_path, delete_ios_path, pull_ios_crash_reports,
         list_ios_files, download_ios_path, upload_ios_path
<1>17. Still(describe_ios_device) /\ Still(probe_ios_ports) /\ Still(read_ios_device_domains)
  <2>1. Still(describe) /\ Still(provider_for \o open_session)
    BY <1>1, <1>9 DEF describe
  <2>2. Still(provider_for \o open_session \o domain \o domain)
    BY <1>1, <1>9, <2>1
  <2>. QED  BY <1>1, <1>9, <2>1, <2>2
            DEF describe_ios_device, probe_ios_ports, read_ios_device_domains
<1>18. Shut(probe_ios_mirror) /\ Shut(probe_ios_app_control) /\ Shut(launch_ios_app)
  BY <1>5, <1>6, <1>9, <1>10, <1>11, <1>14
     DEF probe_ios_mirror, probe_ios_app_control, launch_ios_app
<1>19. Shut(stop_ios_app)
  <2>1. Open(ios_app_bundle_path \o TunnelOpen)
    BY <1>4, <1>14, <1>15
  <2>. QED  BY <1>5, <1>6, <1>10, <1>11, <2>1 DEF stop_ios_app
<1>20. Shut(clear_ios_app_data)
  <2>1. Shut(provider_for \o connect \o request)
    BY <1>1, <1>2, <1>9, <1>13
  <2>2. Shut(provider_for \o connect \o request \o Ignored(stop_ios_app))
    BY <1>3, <1>7, <1>19, <2>1
  <2>. QED  BY <1>2, <1>3, <1>9, <2>2 DEF clear_ios_app_data
<1>21. \A s : Still(s) \/ Open(s) \/ Shut(s) => Good(s)
  BY DEF Still, Open, Shut
<1>22. /\ Good(start_ios_screenshot_stream) /\ Good(start_ios_input)
       /\ Good(start_ios_input_gated)
  <2>1. Good(TunnelOpen \o streams_display \o InputGate)
    BY <1>8, <1>9, <1>14, <1>21
  <2>. QED  BY <1>8, <1>9, <1>14, <1>21, <2>1
            DEF start_ios_screenshot_stream, start_ios_input, start_ios_input_gated
<1>23. /\ Good(capture_ios_screenshot)
       /\ capture_ios_screenshot[Len(capture_ios_screenshot)].await = "close"
  <2>. DEFINE s == TunnelOpen \o Asks(<<"rsd">>) \o Guarded(<<"request">>)
  <2>1. Good(s)
    BY <1>8, <1>9, <1>10, <1>14, <1>21
  <2>2. capture_ios_screenshot = s \o TunnelClose
    BY DEF capture_ios_screenshot
  <2>3. s \in Seq(StepSet) /\ TunnelClose \in Seq(StepSet) /\ Len(TunnelClose) = 1
        /\ TunnelClose[1].await = "close"
    BY <1>12, <2>1 DEF Good, TunnelClose, Asks, Steps
  <2>. HIDE DEF s
  <2>4. Len(s \o TunnelClose) = Len(s) + 1 /\ (s \o TunnelClose)[Len(s) + 1] = TunnelClose[1]
    BY <2>3, WithLast
  <2>. QED  BY <1>8, <1>12, <2>1, <2>2, <2>3, <2>4
<1>24. ASSUME NEW c \in Call \ Dropping PROVE Shut(Script[c])
  <2>1. c \in Call /\ c \notin {"start_ios_screenshot_stream", "start_ios_input",
                               "start_ios_input_gated", "capture_ios_screenshot"}
    BY DEF Dropping, Keeping
  <2>. QED  BY <1>2, <1>9, <1>15, <1>16, <1>17, <1>18, <1>19, <1>20, <2>1 DEF Call, Script
<1>25. ASSUME NEW c \in Call PROVE Good(Script[c])
  <2>1. CASE c \in Dropping
    BY <1>22, <1>23, <2>1 DEF Dropping, Keeping, Script
  <2>. QED  BY <1>21, <1>24, <2>1
<1>26. Script["capture_ios_screenshot"] = capture_ios_screenshot
  BY DEF Script
<1>. QED  BY <1>23, <1>24, <1>25, <1>26 DEF Good, Shut

-----------------------------------------------------------------------------
LEMMA CallsInitInv == CallsInit => CallsInv
<1>. SUFFICES ASSUME CallsInit PROVE CallsInv
  OBVIOUS
<1>1. /\ call \in Call /\ at = 1 /\ tunnel = "none" /\ reply = Pending /\ error = NoError
      /\ phone \subseteq Trouble /\ met = phone
  BY DEF CallsInit
<1>2. Len(Script[call]) \in Nat \ {0}
  BY <1>1, Scripts
<1>. QED  BY <1>1, <1>2
          DEF CallsInv, AnswersAreTrue, CallsTypeOK, Pending, NoError, Errors, Statuses, Over

\* Where a call goes on after an error.
LEMMA OnwardsFinds ==
    ASSUME CallsInv, reply = Pending, NEW onError
    PROVE  /\ Onwards(onError) \in at + 1 .. Over
           /\ Onwards(onError) # Over => Script[call][Onwards(onError)].await = onError
           /\ (\E k \in at + 1 .. Len(Script[call]) : Script[call][k].await = onError) =>
                 Onwards(onError) # Over
<1>1. at \in 1 .. Len(Script[call]) /\ Len(Script[call]) \in Nat /\ call \in Call
  BY Scripts DEF CallsInv, AnswersAreTrue, CallsTypeOK
<1>. DEFINE ahead == {i \in at + 1 .. Len(Script[call]) : Script[call][i].await = onError}
<1>2. CASE ahead = {}
  BY <1>1, <1>2 DEF Onwards, Over
<1>3. CASE ahead # {}
  <2>1. Onwards(onError) = CHOOSE i \in ahead : TRUE
    BY <1>3 DEF Onwards
  <2>2. Onwards(onError) \in ahead
    BY <1>3, <2>1
  <2>. QED  BY <1>1, <2>2 DEF Over
<1>. QED  BY <1>2, <1>3

\* A step of the script under way, and one further on.
LEMMA StepTyped ==
    ASSUME CallsInv, NEW i \in 1 .. Len(Script[call])
    PROVE  Script[call][i].await \in Await
           /\ Script[call][i].onError \in {"return", "close", "ignored"}
<1>1. call \in Call
  BY DEF CallsInv, AnswersAreTrue, CallsTypeOK
<1>2. Script[call] \in Seq(StepSet)
  BY <1>1, Scripts
<1>3. Script[call][i] \in StepSet
  BY <1>2
<1>. QED  BY <1>3 DEF StepSet

\* What an error found on its way makes the call answer is true of what it met.
LEMMA Answered ==
    ASSUME CallsInv, reply = Pending, NEW next \in at + 1 .. Over,
           NEW becomes \in {"none", "open", "closed"}, GoTo(next, becomes),
           error' = NoError \/ (error' \in (Errors \cup Statuses) \ {"device"} /\ IsTrue(error')),
           next = Over /\ becomes = "open" => call \in IF error' = NoError THEN Keeping ELSE Dropping,
           next # Over /\ error' # NoError => Script[call][next].await \in {"close", "ignored"},
           next # Over /\ becomes = "open" /\ call \notin Keeping =>
              \E k \in next .. Len(Script[call]) :
                 /\ Script[call][k].await = "close"
                 /\ call \notin Dropping => \A j \in next .. k - 1 : Safe(Script[call][j])
    PROVE  CallsInv'
<1>1. /\ call' = call /\ phone' = phone /\ met' = met /\ at' = next
      /\ call \in Call /\ Len(Script[call]) \in Nat /\ at \in 1 .. Len(Script[call])
      /\ phone \subseteq met /\ phone \subseteq Trouble /\ met \subseteq Trouble
  BY Scripts DEF GoTo, CallsInv, AnswersAreTrue, CallsTypeOK
<1>2. next # Over => reply' = Pending /\ tunnel' = becomes
  BY DEF GoTo
<1>3. next = Over => /\ reply' = Answer(error')
                     /\ error' # NoError /\ becomes = "open" => tunnel' = "dropped"
                     /\ error' = NoError \/ becomes # "open" => tunnel' = becomes
  BY DEF GoTo
<1>4. /\ error' # NoError => Answer(error') = error'
      /\ error' = NoError => Answer(error') \in {"Ok", "device"}
      /\ error' = NoError /\ call # "describe_ios_device" => Answer(error') = "Ok"
  BY DEF Answer
<1>5. /\ Answer(error') # Pending /\ Pending \notin Errors \cup Statuses
      /\ NoError \notin Errors \cup Statuses /\ NoError # Pending
      /\ "Ok" \notin Errors \cup Statuses /\ "device" \notin Errors
  BY <1>4 DEF Pending, NoError, Errors, Statuses
<1>6. CallsTypeOK'
  <2>1. reply' \in {Pending, "Ok"} \cup Errors \cup Statuses
    BY <1>2, <1>3, <1>4 DEF Statuses
  <2>2. Over' = Over /\ at' \in 1 .. Over
    BY <1>1 DEF Over
  <2>. QED  BY <1>1, <1>2, <1>3, <2>1, <2>2 DEF CallsTypeOK
<1>7. IsTrue(error') => IsTrue(error)'
  BY <1>1 DEF IsTrue, CausesOf, Errors
<1>8. reply' # Pending => next = Over
  BY <1>2
<1>9. /\ reply' \in (Errors \cup Statuses) \ {"device"} => met \cap CausesOf(reply') # {}
      /\ call = "describe_ios_device" /\ reply' \in Errors => met \cap {"muxer", "gone"} # {}
  BY <1>2, <1>3, <1>4, <1>5 DEF IsTrue
<1>10. reply' # Pending /\ tunnel' = "open" => reply' = "Ok" /\ call \in Keeping
  BY <1>3, <1>4, <1>5, <1>8 DEF Keeping
<1>11. tunnel' = "dropped" => call \in Dropping
  BY <1>2, <1>3
<1>12. AnswersAreTrue'
  BY <1>1, <1>6, <1>9, <1>10, <1>11 DEF AnswersAreTrue, CausesOf
<1>13. reply' = Pending => next # Over /\ at' \in 1 .. Len(Script[call']) /\ tunnel' # "dropped"
  BY <1>1, <1>2, <1>3, <1>5 DEF Over
<1>14. error' # NoError => IsTrue(error)'
  BY <1>7
<1>. QED  BY <1>1, <1>2, <1>12, <1>13, <1>14 DEF CallsInv

\* An await that goes well.
LEMMA DoneStep == ASSUME CallsInv, AwaitDone PROVE CallsInv'
<1>. DEFINE step == Script[call][at]
            becomes == AfterAwait(step.await)
            next == IF error' = NoError THEN at + 1 ELSE Onwards(step.onError)
<1>1. /\ reply = Pending /\ error' = IF step.await = "ignored" THEN NoError ELSE error
      /\ GoTo(next, becomes)
  BY DEF AwaitDone
<1>2. /\ call \in Call /\ at \in 1 .. Len(Script[call]) /\ Len(Script[call]) \in Nat
      /\ Script[call] \in Seq(StepSet)
  BY <1>1, Scripts DEF CallsInv, AnswersAreTrue, CallsTypeOK
<1>3. step.await \in Await /\ step.onError \in {"return", "close", "ignored"}
  BY <1>2, StepTyped
<1>4. /\ becomes \in {"none", "open", "closed"} /\ (step.await = "close" => becomes = "closed")
      /\ (becomes = "open" => step.await = "tunnel" \/ (tunnel = "open" /\ step.await # "close"))
  BY <1>1 DEF AfterAwait, CallsInv, AnswersAreTrue, CallsTypeOK
<1>5. /\ next \in at + 1 .. Over
      /\ error' # NoError /\ next # Over => Script[call][next].await = step.onError
  BY <1>1, <1>2, OnwardsFinds DEF Over
<1>6. error' # NoError => IsTrue(error) /\ error' = error /\ step.await = "close"
  BY <1>1 DEF CallsInv
<1>. HIDE DEF becomes, step, next
<1>7. error' = NoError \/ (error' \in (Errors \cup Statuses) \ {"device"} /\ IsTrue(error'))
  BY <1>6 DEF CallsInv
<1>8. error' # NoError => becomes = "closed"
  BY <1>4, <1>6
<1>9. next # Over /\ error' # NoError => Script[call][next].await \in {"close", "ignored"}
  <2>1. next # Over => next \in 1 .. Len(Script[call])
    BY <1>2, <1>5 DEF Over
  <2>2. next # Over => Script[call][next].await \in Await
    BY <2>1, StepTyped
  <2>. QED  BY <1>3, <1>5, <2>2 DEF Await
<1>10. becomes = "open" /\ call \notin Keeping =>
          /\ next = at + 1
          /\ \E k \in at + 1 .. Len(Script[call]) :
                /\ Script[call][k].await = "close"
                /\ call \notin Dropping => \A j \in at + 1 .. k - 1 : Safe(Script[call][j])
  <2>. SUFFICES ASSUME becomes = "open", call \notin Keeping
                PROVE  \E k \in at + 1 .. Len(Script[call]) :
                          /\ Script[call][k].await = "close"
                          /\ call \notin Dropping =>
                                \A j \in at + 1 .. k - 1 : Safe(Script[call][j])
    BY <1>8 DEF next
  <2>1. CASE step.await = "tunnel" /\ call \notin Dropping
    <3>1. IsTunnel(Script[call], at) /\ at \in Nat
      BY <1>2, <2>1 DEF IsTunnel, step
    <3>2. PICK k \in Nat : ClosedAt(Script[call], at, k)
      BY <1>2, <2>1, <3>1, Scripts DEF Closes
    <3>. QED  BY <3>2 DEF ClosedAt
  <2>2. CASE step.await = "tunnel" /\ call \in Dropping
    <3>1. call = "capture_ios_screenshot"
      BY <2>2 DEF Dropping
    <3>2. Script[call][Len(Script[call])].await = "close"
      BY <3>1, Scripts
    <3>3. at # Len(Script[call])
      BY <2>2, <3>2 DEF step
    <3>. QED  BY <1>2, <2>2, <3>2, <3>3
  <2>3. CASE tunnel = "open" /\ step.await # "close"
    <3>1. PICK k \in at .. Len(Script[call]) :
             /\ Script[call][k].await = "close"
             /\ call \notin Dropping => \A j \in at .. k - 1 : Safe(Script[call][j])
      BY <1>1, <2>3 DEF CallsInv
    <3>2. k # at
      BY <2>3, <3>1 DEF step
    <3>. QED  BY <1>2, <3>1, <3>2
  <2>. QED  BY <1>4, <2>1, <2>2, <2>3
<1>11. next = Over /\ becomes = "open" => call \in IF error' = NoError THEN Keeping ELSE Dropping
  BY <1>2, <1>8, <1>10 DEF Over
<1>12. next # Over /\ becomes = "open" /\ call \notin Keeping =>
          \E k \in next .. Len(Script[call]) :
             /\ Script[call][k].await = "close"
             /\ call \notin Dropping => \A j \in next .. k - 1 : Safe(Script[call][j])
  BY <1>10
<1>. QED  BY <1>1, <1>4, <1>5, <1>7, <1>9, <1>11, <1>12, Answered

\* What a trouble makes a call say names the trouble.
LEMMA ErrorsAreTrue ==
    ASSUME NEW await \in Await, NEW t \in Trouble, NEW failure \in Failures(await, t)
    PROVE  LET said == ErrorOf(await, failure)
           IN  /\ said \in Errors
               /\ said = "DeviceNotFound" => t = "gone"
               /\ said = "NotPaired" => t \in {"unpaired", "denied"}
               /\ said = "PairingDialogPending" => t = "prompt"
               /\ said = "Locked" => t = "locked"
               /\ said = "UsbmuxdUnavailable" => t \in {"muxer", "gone"}
               /\ await \in {"muxer", "device"} => t \in {"muxer", "gone"}
               /\ await \notin {"close", "ignored", "offer"}
<1>1. failure \in Kinds(await, t) /\ await \notin {"close", "ignored", "offer"}
  <2>1. failure \in Kinds(await, t)
    BY DEF Failures
  <2>2. await \in {"close", "ignored", "offer"} => Kinds(await, t) = {}
    BY DEF Kinds
  <2>. QED  BY <2>1, <2>2
<1>2. CASE t = "muxer"
  BY <1>1, <1>2 DEF Kinds, ErrorOf, FromIdevice, Errors
<1>3. CASE t = "gone"
  BY <1>1, <1>3 DEF Kinds, ErrorOf, FromIdevice, Errors
<1>4. CASE t \in {"unpaired", "prompt", "denied"}
  BY <1>1, <1>4 DEF Kinds, ErrorOf, FromIdevice, Errors, OverLockdown
<1>5. CASE t \in {"locked", "image"}
  BY <1>1, <1>5 DEF Kinds, ErrorOf, FromIdevice, Errors, OverLockdown
<1>6. CASE t = "refused"
  <2>1. await # "port"
    <3>1. await = "port" => Kinds(await, t) = {"ConnectionRefused"}
      BY <1>6 DEF Kinds
    <3>2. await = "port" => Tolerated(await) = {"ConnectionRefused"}
      BY DEF Tolerated
    <3>. QED  BY <3>1, <3>2 DEF Failures
  <2>2. /\ await \in {"request", "value", "domain"}
        /\ failure \in {"UnexpectedResponse", "GetProhibited", "UnknownErrorType"}
    BY <1>1, <1>6, <2>1 DEF Kinds
  <2>. QED  BY <1>1, <2>2 DEF ErrorOf, FromIdevice, Errors
<1>. QED  BY <1>1, <1>2, <1>3, <1>4, <1>5, <1>6 DEF Trouble

\* An await that fails, under a trouble the phone is in.
LEMMA FailStep == ASSUME CallsInv, NEW t \in Trouble, AwaitFails(t) PROVE CallsInv'
<1>. DEFINE step == Script[call][at]
            next == Onwards(step.onError)
<1>1. /\ reply = Pending /\ t \in phone /\ phone \subseteq met /\ GoTo(next, tunnel)
      /\ call \in Call /\ at \in 1 .. Len(Script[call]) /\ Len(Script[call]) \in Nat
  BY Scripts DEF AwaitFails, CallsInv, AnswersAreTrue, CallsTypeOK
<1>2. PICK failure \in Failures(step.await, t) :
         error' = Outcome(ErrorOf(step.await, failure), step.await)
  BY DEF AwaitFails
<1>3. step.await \in Await /\ step.onError \in {"return", "close", "ignored"}
  BY <1>1, StepTyped
<1>4. /\ next \in at + 1 .. Over
      /\ next # Over => Script[call][next].await = step.onError
      /\ (\E k \in at + 1 .. Len(Script[call]) : Script[call][k].await = step.onError) =>
            next # Over
  BY <1>1, OnwardsFinds
<1>. DEFINE said == ErrorOf(step.await, failure)
<1>5. /\ said \in Errors
      /\ said = "DeviceNotFound" => t = "gone"
      /\ said = "NotPaired" => t \in {"unpaired", "denied"}
      /\ said = "PairingDialogPending" => t = "prompt"
      /\ said = "Locked" => t = "locked"
      /\ said = "UsbmuxdUnavailable" => t \in {"muxer", "gone"}
      /\ step.await \in {"muxer", "device"} => t \in {"muxer", "gone"}
      /\ step.await \notin {"close", "ignored", "offer"}
  BY <1>2, <1>3, ErrorsAreTrue
<1>6. error' = Outcome(said, step.await)
  BY <1>2
<1>7. tunnel \in {"none", "open", "closed"}
  BY <1>1 DEF CallsInv, AnswersAreTrue, CallsTypeOK
<1>8. t \in met
  BY <1>1
<1>9. /\ step.await \in {"return", "close", "ignored"} => step.await \in {"close", "ignored"}
      /\ Safe(step) => step.onError = "close"
  BY <1>3, <1>5 DEF Safe, Await
<1>10. next # Over => Script[call][next].await \in {"close", "ignored"}
  <2>1. next # Over => next \in 1 .. Len(Script[call])
    BY <1>1, <1>4 DEF Over
  <2>2. next # Over => Script[call][next].await \in Await
    BY <2>1, StepTyped
  <2>. QED  BY <1>3, <1>4, <2>2 DEF Await
<1>11. tunnel = "open" /\ call \notin Keeping =>
          /\ call \notin Dropping => next # Over /\ Script[call][next].await = "close"
          /\ call \in Dropping => Script[call][Len(Script[call])].await = "close"
  <2>. SUFFICES ASSUME tunnel = "open", call \notin Keeping
                PROVE  /\ call \notin Dropping =>
                             next # Over /\ Script[call][next].await = "close"
                       /\ call \in Dropping => Script[call][Len(Script[call])].await = "close"
    OBVIOUS
  <2>1. PICK k \in at .. Len(Script[call]) :
           /\ Script[call][k].await = "close"
           /\ call \notin Dropping => \A j \in at .. k - 1 : Safe(Script[call][j])
    BY <1>1 DEF CallsInv
  <2>2. k # at
    BY <1>5, <2>1
  <2>3. call \notin Dropping => step.onError = "close"
    BY <1>1, <1>9, <2>1, <2>2
  <2>4. call \in Dropping => call = "capture_ios_screenshot"
    BY DEF Dropping
  <2>. QED  BY <1>1, <1>4, <2>1, <2>2, <2>3, <2>4, Scripts
<1>. HIDE DEF next, step, said
<1>12. error' \in (Errors \cup Statuses) \ {"device"} /\ IsTrue(error') /\ error' # NoError
  <2>1. CASE error' = said /\ (call = "describe_ios_device" => step.await \in {"muxer", "device"})
    BY <1>5, <1>8, <2>1 DEF IsTrue, CausesOf, Errors, NoError, Trouble
  <2>2. CASE error' = Status(said)
    <3>1. /\ error' \in {"unpaired", "locked", "unavailable"}
          /\ error' = "unpaired" => said \in {"NotPaired", "PairingDialogPending"}
          /\ error' = "locked" => said = "Locked"
      BY <2>2 DEF Status
    <3>. QED  BY <1>5, <1>8, <3>1 DEF IsTrue, CausesOf, Errors, Statuses, NoError, Trouble
  <2>. QED  BY <1>6, <2>1, <2>2 DEF Outcome
<1>13. next = Over /\ tunnel = "open" => call \in IF error' = NoError THEN Keeping ELSE Dropping
  BY <1>11, <1>12 DEF Dropping
<1>14. next # Over /\ tunnel = "open" /\ call \notin Keeping =>
          \E k \in next .. Len(Script[call]) :
             /\ Script[call][k].await = "close"
             /\ call \notin Dropping => \A j \in next .. k - 1 : Safe(Script[call][j])
  <2>. SUFFICES ASSUME next # Over, tunnel = "open", call \notin Keeping
                PROVE  \E k \in next .. Len(Script[call]) :
                          /\ Script[call][k].await = "close"
                          /\ call \notin Dropping =>
                                \A j \in next .. k - 1 : Safe(Script[call][j])
    OBVIOUS
  <2>1. next \in 1 .. Len(Script[call])
    BY <1>1, <1>4 DEF Over
  <2>2. CASE call \notin Dropping
    BY <1>11, <2>1, <2>2
  <2>3. CASE call \in Dropping
    <3>1. Len(Script[call]) \in next .. Len(Script[call])
      BY <1>1, <2>1
    <3>. QED  BY <1>11, <2>3, <3>1
  <2>. QED  BY <2>2, <2>3
<1>. QED  BY <1>1, <1>4, <1>7, <1>10, <1>12, <1>13, <1>14, Answered

LEMMA CallsNextInv == CallsInv /\ [CallsNext]_callsVars => CallsInv'
<1>. SUFFICES ASSUME CallsInv, [CallsNext]_callsVars PROVE CallsInv'
  OBVIOUS
<1>1. ASSUME UNCHANGED <<call, at, error, tunnel, reply>>,
             met \subseteq met' /\ phone' \subseteq met' /\ met' \subseteq Trouble
      PROVE  CallsInv'
  <2>1. CallsTypeOK'
    BY <1>1 DEF CallsInv, AnswersAreTrue, CallsTypeOK, Over
  <2>2. CausesOf(reply)' = CausesOf(reply)
    BY <1>1 DEF CausesOf
  <2>3. AnswersAreTrue'
    BY <1>1, <2>1, <2>2 DEF CallsInv, AnswersAreTrue
  <2>4. error # NoError => IsTrue(error)'
    BY <1>1 DEF CallsInv, IsTrue, CausesOf
  <2>. QED  BY <1>1, <2>3, <2>4 DEF CallsInv
<1>2. CASE UNCHANGED callsVars
  <2>1. UNCHANGED <<call, at, error, tunnel, reply, met, phone>>
    BY <1>2 DEF callsVars
  <2>2. phone' \subseteq met' /\ met' \subseteq Trouble
    BY <2>1 DEF CallsInv, AnswersAreTrue, CallsTypeOK
  <2>. QED  BY <1>1, <2>1, <2>2
<1>3. ASSUME NEW t \in Trouble, PhoneChanges(t) PROVE CallsInv'
  <2>1. UNCHANGED <<call, at, error, tunnel, reply>>
        /\ met' = met \cup phone' /\ phone' \subseteq Trouble
    BY <1>3 DEF PhoneChanges, CallsInv, AnswersAreTrue, CallsTypeOK
  <2>2. phone' \subseteq met' /\ met' \subseteq Trouble
    BY <2>1 DEF CallsInv, AnswersAreTrue, CallsTypeOK
  <2>. QED  BY <1>1, <2>1, <2>2
<1>. QED  BY <1>2, <1>3, DoneStep, FailStep DEF CallsNext

\* An error names a trouble the phone was in during the call, however the phone
\* changed meanwhile, and a tunnel the call opened is closed whichever await failed:
\* for every call but the two kinds that can drop one.
THEOREM ErrorsNameTheirCause == CallsSpec => []AnswersAreTrue
<1>1. CallsInv => AnswersAreTrue
  BY DEF CallsInv
<1>. QED  BY <1>1, CallsInitInv, CallsNextInv, PTL DEF CallsSpec

-----------------------------------------------------------------------------
(* Apps. While the app's processes are signalled, one that runs and is not *)
(* in the list started meanwhile; while its directories are cleared with   *)
(* nothing of it running, what has data is still to be removed or still to *)
(* be listed.                                                              *)

\* An entry is in a directory not listed yet.
InLeft(e) == \E i \in 1 .. Len(left) : e \in left[i]

\* Until the directories are cleared, nothing of the container has been touched.
Opening ==
    /\ stage \in {"open", "bundle", "processes", "signals"} =>
          stopped = "no" /\ left = Directories /\ doomed = {}
    /\ stage = "open" => op = "clear_ios_app_data" /\ killed = {}
    /\ stage = "directories" => op = "clear_ios_app_data" /\ stopped \in {"Ok", "failed"}
    /\ result # "none" => stage = "over"

\* A process that runs and is not to be signalled any more started meanwhile, or was
\* not found.
Signalled == stage = "signals" => running \cap Own \subseteq listed \cup launched \cup missed

\* What has data is still to be removed, or in a directory still to be listed.
Ahead ==
    stage = "directories" /\ stopped = "Ok" /\ launched = {} /\ missed = {} =>
       \A e \in data : e \in doomed \/ InLeft(e)

Cleared ==
    op = "clear_ios_app_data" /\ result = "Ok" =>
       stopped # "no" /\ (stopped = "failed" \/ missed # {} \/ launched # {} \/ data = {})

AppsInv ==
    /\ AppsTypeOK
    /\ op \in {"stop_ios_app", "clear_ios_app_data"} /\ left \in Seq(SUBSET Entry)
    /\ Opening
    /\ Signalled
    /\ StopLeavesNone
    /\ result = "refused" => killed = {}
    /\ Ahead
    /\ Cleared

LEMMA AppsInitInv == AppsInit => AppsInv
BY AppsAssumption
   DEF AppsInit, AppsInv, AppsTypeOK, Opening, Signalled, StopLeavesNone, Ahead, Cleared

\* The steps that stop the app.
LEMMA StopStep ==
    ASSUME AppsInv,
           \/ AllSignalled
           \/ \E works \in BOOLEAN :
                 \/ ReachAppService(works) \/ ListProcesses(works) \/ OpenContainer(works)
                 \/ \E p \in Own : Signal(p, works)
    PROVE  AppsInv'
<1>. USE AppsAssumption
         DEF AppsInv, AppsTypeOK, Opening, Signalled, StopLeavesNone, Ahead, Cleared, container,
             processes
<1>1. ASSUME NEW works \in BOOLEAN, ListProcesses(works) PROVE AppsInv'
  BY <1>1 DEF ListProcesses, StopReturns, Return, InLeft, is_inside
<1>2. CASE AllSignalled
  BY <1>2 DEF AllSignalled, StopReturns, Return, InLeft
<1>3. ASSUME NEW works \in BOOLEAN, ReachAppService(works) PROVE AppsInv'
  BY <1>3 DEF ReachAppService, StopReturns, Return, InLeft
<1>4. ASSUME NEW works \in BOOLEAN, OpenContainer(works) PROVE AppsInv'
  BY <1>4 DEF OpenContainer, AfterOpening, Return
<1>5. ASSUME NEW works \in BOOLEAN, NEW p \in Own, Signal(p, works) PROVE AppsInv'
  BY <1>5 DEF Signal, SignalFails, StopReturns, Return, InLeft
<1>. QED  BY <1>1, <1>2, <1>3, <1>4, <1>5

\* Listing a directory dooms what it holds.
LEMMA ListingStep ==
    ASSUME AppsInv, NEW works \in BOOLEAN, ListDirectory(works)
    PROVE  AppsInv'
<1>. USE DEF AppsInv, AppsTypeOK
<1>1. /\ left \in Seq(SUBSET Entry) /\ Len(left) > 0
      /\ Head(left) = left[1] /\ left[1] \subseteq Entry /\ Tail(left) \in Seq(SUBSET Entry)
      /\ Len(Tail(left)) = Len(left) - 1
      /\ \A i \in 1 .. Len(left) - 1 : Tail(left)[i] = left[i + 1]
  BY DEF ListDirectory
<1>2. CASE works
  <2>1. /\ doomed' = entries(Head(left)) /\ left' = Tail(left) /\ doomed = {}
        /\ stage = "directories"
        /\ UNCHANGED <<op, stage, running, listed, killed, missed, launched, stopped, data, result>>
    BY <1>2 DEF ListDirectory, processes
  <2>2. ASSUME NEW e \in data, InLeft(e) PROVE e \in doomed' \/ InLeft(e)'
    <3>1. PICK i \in 1 .. Len(left) : e \in left[i]
      BY <2>2 DEF InLeft
    <3>2. CASE i = 1
      BY <1>1, <2>1, <3>1, <3>2 DEF entries
    <3>3. CASE i # 1
      <4>1. i - 1 \in 1 .. Len(left') /\ left'[i - 1] = left[i]
        BY <1>1, <2>1, <3>3
      <4>. QED  BY <3>1, <4>1 DEF InLeft
    <3>. QED  BY <3>2, <3>3
  <2>3. AppsTypeOK' /\ left' \in Seq(SUBSET Entry)
    BY <1>1, <2>1 DEF entries
  <2>4. Ahead'
    BY <2>1, <2>2 DEF Ahead
  <2>. QED  BY <2>1, <2>3, <2>4 DEF Opening, Signalled, StopLeavesNone, Cleared
<1>3. CASE ~works
  BY <1>1, <1>3 DEF ListDirectory, Return, processes, Opening, Signalled, StopLeavesNone, Ahead,
                    Cleared
<1>. QED  BY <1>2, <1>3

LEMMA ClearStep ==
    ASSUME AppsInv, AllCleared \/ \E works \in BOOLEAN, e \in Entry : Remove(e, works)
    PROVE  AppsInv'
<1>. USE DEF AppsInv, AppsTypeOK, Opening, Signalled, StopLeavesNone, Cleared, processes, container
<1>1. CASE AllCleared
  <2>1. \A e \in data : ~InLeft(e)
    BY <1>1 DEF AllCleared, InLeft
  <2>. QED  BY <1>1, <2>1 DEF AllCleared, Return, Ahead
<1>2. ASSUME NEW works \in BOOLEAN, NEW e \in Entry, Remove(e, works) PROVE AppsInv'
  <2>1. \A d : InLeft(d)' <=> InLeft(d)
    BY <1>2 DEF Remove, InLeft
  <2>. QED  BY <1>2, <2>1 DEF Remove, Return, Ahead
<1>. QED  BY <1>1, <1>2

\* What the phone does meanwhile.
LEMMA PhoneStep ==
    ASSUME AppsInv,
           \/ \E p \in Own \cup Foreign : ProcessExits(p)
           \/ \E p \in Own : ProcessStarts(p)
           \/ \E e \in Entry : AppWrites(e)
    PROVE  AppsInv'
<1>. USE AppsAssumption
     DEF AppsInv, AppsTypeOK, Opening, Signalled, StopLeavesNone, Ahead, Cleared, processes,
         container, InLeft
<1>1. ASSUME NEW p \in Own \cup Foreign, ProcessExits(p) PROVE AppsInv'
  BY <1>1 DEF ProcessExits
<1>2. ASSUME NEW p \in Own, ProcessStarts(p) PROVE AppsInv'
  BY <1>2 DEF ProcessStarts
<1>3. ASSUME NEW e \in Entry, AppWrites(e) PROVE AppsInv'
  BY <1>3 DEF AppWrites
<1>. QED  BY <1>1, <1>2, <1>3

LEMMA AppsNextInv == AppsInv /\ [AppsNext]_appsVars => AppsInv'
<1>. SUFFICES ASSUME AppsInv, [AppsNext]_appsVars PROVE AppsInv'
  OBVIOUS
<1>1. CASE UNCHANGED appsVars
  BY <1>1 DEF appsVars, AppsInv, AppsTypeOK, Opening, Signalled, StopLeavesNone, Ahead, Cleared,
              InLeft
<1>2. CASE AppsNext
  BY <1>2, StopStep, ListingStep, ClearStep, PhoneStep DEF AppsNext
<1>. QED  BY <1>1, <1>2

LEMMA AppsKeep == AppsInv => ClearedStaysClear
BY DEF AppsInv, Cleared, ClearedStaysClear

\* Data reported clear is clear, and a stop reported done leaves no process but
\* those started since or listed without an executable: whatever exits, starts or
\* writes between any two awaits, for any processes and directories (stop_ios_app, clear_ios_app_data).
THEOREM ClearedDataStaysCleared == AppsSpec => []ClearedStaysClear
<1>. QED  BY AppsKeep, AppsInitInv, AppsNextInv, PTL DEF AppsSpec

-----------------------------------------------------------------------------
(* Files. A walk that is not to lose what was there throughout has got     *)
(* each such node, or still has it or a directory on its way waiting: when *)
(* one of these is taken, the next on the way takes its place.             *)

\* A path holds its node, and the directory of each of its members.
LEMMA PathClosed ==
    ASSUME NEW n \in Node
    PROVE  /\ Path[n] \subseteq Node /\ n \in Path[n]
           /\ \A k \in Path[n] \ {Root} : Parent[k] \in Path[n]
<1>. DEFINE Closed(S) == n \in S /\ \A k \in S \ {Root} : Parent[k] \in S
<1>1. Path[n] = {m \in Node : \A S \in SUBSET Node : Closed(S) => m \in S}
  BY DEF Path
<1>2. ASSUME NEW k \in Path[n] \ {Root} PROVE Parent[k] \in Path[n]
  <2>1. k \in Node /\ Parent[k] \in Node
    BY <1>1, FilesAssumption
  <2>2. ASSUME NEW S \in SUBSET Node, Closed(S) PROVE Parent[k] \in S
    <3>1. k \in S
      BY <1>1, <2>2
    <3>. QED  BY <2>2, <3>1
  <2>. QED  BY <1>1, <2>1, <2>2
<1>. QED  BY <1>1, <1>2

\* No set closed under the directories of its members is smaller.
LEMMA PathLeast ==
    ASSUME NEW n \in Node, NEW S \in SUBSET Node, n \in S,
           \A k \in S \ {Root} : Parent[k] \in S
    PROVE  Path[n] \subseteq S
BY DEF Path

\* The path of a directory on the way is part of the way.
LEMMA PathsNest == ASSUME NEW n \in Node, NEW m \in Path[n] PROVE Path[m] \subseteq Path[n]
<1>1. Path[n] \in SUBSET Node /\ m \in Node
  BY PathClosed
<1>2. \A k \in Path[n] \ {Root} : Parent[k] \in Path[n]
  BY PathClosed
<1>. QED  BY <1>1, <1>2, PathLeast

\* Below a directory on the way to a node is the next one on that way.
LEMMA NextOnPath ==
    ASSUME NEW n \in Node, NEW m \in Path[n], m # n
    PROVE  m \in Folder /\ \E c \in Path[n] : c \in Children(m)
<1>. DEFINE S == Path[n] \ {m}
<1>1. Path[n] \subseteq Node /\ n \in Path[n] /\ \A k \in Path[n] \ {Root} : Parent[k] \in Path[n]
  BY PathClosed
<1>2. \E c \in Path[n] : c # Root /\ Parent[c] = m
  <2>. SUFFICES ASSUME \A c \in Path[n] : c # Root => Parent[c] # m PROVE FALSE
    OBVIOUS
  <2>1. S \in SUBSET Node /\ n \in S /\ \A k \in S \ {Root} : Parent[k] \in S
    BY <1>1
  <2>. HIDE DEF S
  <2>2. Path[n] \subseteq S
    BY <2>1, PathLeast
  <2>. QED  BY <2>2 DEF S
<1>. QED  BY <1>1, <1>2, FilesAssumption DEF Children


\* A walk over what is there that takes every entry it finds: each node of S has
\* been got, or it or a directory on its way is still waiting.
Whole(S, present, got, waiting) ==
    \A n \in S : Path[n] \subseteq present => n \in got \/ Path[n] \cap waiting # {}

Listed(present, got, waiting) ==
    \A n \in Children(Root) :
       Path[n] \subseteq present => n \in got \cup waiting \/ Root \in waiting

\* Files of an upload below no directory whose listing broke off.
Uncut == {n \in Node \ Folder : Path[n] \cap cut = {}}

\* Each path a pull answers with holds a report of the name, if it could be written.
Named ==
    \A n \in copied : FileName[n] \notin CutNames =>
       \E m \in saved : FileName[m] = FileName[n] /\ is_crash_report(m)

FilesInv ==
    /\ FilesTypeOK
    /\ walk = "pull" /\ outcome \in {"connecting", "failed"} => copied = {} /\ saved = {}
    /\ walk = "pull" => Named
    /\ walk = "upload" => \A n \in copied \ {Root} : Parent[n] \in copied
    /\ outcome = "Ok" => pending = {}
    /\ walk = "pull" /\ linked => Whole(Reports \ cut, there, copied, pending)
    /\ walk = "list" /\ linked => Listed(there, copied, pending)
    /\ walk = "download" => Whole(Node, there, copied, pending)
    /\ walk = "upload" => Whole(Uncut, there, copied, pending)

LEMMA FilesInitInv == FilesInit => FilesInv
<1>. SUFFICES ASSUME FilesInit PROVE FilesInv
  OBVIOUS
<1>1. /\ there = Node /\ linked = TRUE /\ pending = {Root} /\ copied = {} /\ saved = {}
      /\ outcome = "connecting" /\ cut = {} /\ faults = 0
      /\ walk \in {"pull", "list", "download", "upload"}
  BY DEF FilesInit
<1>2. FilesTypeOK /\ Listed(there, copied, pending) /\ Named
  BY <1>1, FilesAssumption DEF FilesTypeOK, Listed, Named
<1>3. \A S \in SUBSET Node : Whole(S, there, copied, pending)
  BY <1>1, TreeAssumption DEF Whole
<1>4. Reports \ cut \in SUBSET Node /\ Uncut \in SUBSET Node
  BY DEF Reports, Uncut
<1>. QED  BY <1>1, <1>2, <1>3, <1>4 DEF FilesInv

\* One entry is taken: the node itself, or the next on the way to it.
LEMMA TakenStep ==
    ASSUME NEW S \in SUBSET Node, NEW T \in SUBSET S,
           NEW present, NEW got, NEW waiting, Whole(S, present, got, waiting),
           NEW n \in Node, NEW found, NEW more,
           n \in T /\ Path[n] \subseteq present => n \in more,
           n \in Folder /\ (\E m \in T : n \in Path[m] /\ Path[m] \subseteq present) =>
               Children(n) \cap present \subseteq found
    PROVE  Whole(T, present, got \cup more, (waiting \ {n}) \cup found)
<1>. SUFFICES ASSUME NEW m \in T, Path[m] \subseteq present, m \notin got \cup more
              PROVE  Path[m] \cap ((waiting \ {n}) \cup found) # {}
  BY DEF Whole
<1>1. Path[m] \cap waiting # {} /\ m \in Node
  BY DEF Whole
<1>2. CASE n \notin Path[m]
  BY <1>1, <1>2
<1>3. CASE n \in Path[m]
  <2>1. n # m
    OBVIOUS
  <2>2. n \in Folder /\ \E c \in Path[m] : c \in Children(n)
    BY <1>1, <1>3, <2>1, NextOnPath
  <2>3. PICK c \in Path[m] : c \in Children(n)
    BY <2>2
  <2>4. c \in found
    BY <1>3, <2>2, <2>3
  <2>. QED  BY <2>3, <2>4
<1>. QED  BY <1>2, <1>3

LEMMA ListedStep ==
    ASSUME NEW present, NEW got, NEW waiting, Listed(present, got, waiting),
           NEW n \in Node, NEW found, NEW more,
           n # Root /\ Path[n] \subseteq present => n \in more,
           n = Root => Children(Root) \cap present \subseteq found
    PROVE  Listed(present, got \cup more, (waiting \ {n}) \cup found)
<1>1. ASSUME NEW m \in Children(Root), Path[m] \subseteq present
      PROVE  m \in (got \cup more) \cup ((waiting \ {n}) \cup found)
             \/ Root \in (waiting \ {n}) \cup found
  <2>1. m \in got \cup waiting \/ Root \in waiting
    BY <1>1, PathClosed DEF Children, Listed
  <2>2. m \in Node /\ m # Root /\ m \in present
    BY <1>1, PathClosed DEF Children
  <2>. QED  BY <1>1, <2>1, <2>2
<1>. QED  BY <1>1 DEF Listed

\* Fewer are there.
LEMMA StillWhole ==
    ASSUME NEW present, NEW fewer, fewer \subseteq present, NEW got, NEW waiting
    PROVE  /\ \A S : Whole(S, present, got, waiting) => Whole(S, fewer, got, waiting)
           /\ Listed(present, got, waiting) => Listed(fewer, got, waiting)
BY DEF Whole, Listed

\* The types of what is taken.
LEMMA TakenType ==
    ASSUME FilesInv, NEW n, NEW found \in SUBSET Node, Take(n, found),
           copied' \subseteq Node, saved' \subseteq Node, cut' \subseteq Node, faults' \in Nat
    PROVE  /\ FilesTypeOK' /\ outcome' = outcome /\ outcome = "walking" /\ walk' = walk
           /\ linked' = linked /\ there' = there /\ pending' = (pending \ {n}) \cup found
BY DEF FilesInv, FilesTypeOK, Take

\* A report is written, or fails to be: what its name holds is a report of it.
LEMMA NamesStay ==
    ASSUME Named, NEW n \in Node, is_crash_report(n),
           \/ /\ copied' = copied \cup {n} /\ saved' = (saved \ Namesakes(n)) \cup {n} /\ cut' = cut
           \/ copied' = copied /\ saved' \in {saved, saved \ Namesakes(n)} /\ cut' = cut \cup {n}
    PROVE  Named'
<1>1. /\ CutNames \subseteq CutNames'
      /\ cut' = cut \cup {n} => FileName[n] \in CutNames'
  BY DEF CutNames
<1>2. \A m : is_crash_report(m)' <=> is_crash_report(m)
  BY DEF is_crash_report
<1>. SUFFICES ASSUME NEW k \in copied', FileName[k] \notin CutNames'
              PROVE  \E m \in saved' : FileName[m] = FileName[k] /\ is_crash_report(m)
  BY <1>2 DEF Named
<1>3. CASE FileName[k] = FileName[n]
  BY <1>1, <1>3
<1>4. CASE FileName[k] # FileName[n]
  <2>1. k \in copied
    BY <1>4
  <2>2. PICK m \in saved : FileName[m] = FileName[k] /\ is_crash_report(m)
    BY <1>1, <2>1 DEF Named
  <2>. QED  BY <1>4, <2>2 DEF Namesakes
<1>. QED  BY <1>3, <1>4

LEMMA PullStep ==
    ASSUME FilesInv, NEW n \in Node,
           PullFolder(n) \/ PullReport(n) \/ PullSkips(n) \/ PullIsNotWritten(n)
    PROVE  FilesInv'
<1>0. /\ walk = "pull" /\ Reports \subseteq Node \ Folder /\ Children(n) \subseteq Node
      /\ copied \cup saved \cup cut \subseteq Node /\ faults \in Nat /\ Named
  BY DEF PullFolder, PullReport, PullSkips, PullIsNotWritten, Children, FilesInv, FilesTypeOK,
         Reports, is_crash_report
<1>1. PICK found \in SUBSET Node, got \in SUBSET {n} :
         /\ Take(n, found) /\ copied' = copied \cup got /\ faults' \in Nat
         /\ saved' \subseteq Node
         /\ cut' = cut \/ cut' = cut \cup {n}
         /\ linked /\ n \in Reports \ cut' /\ Path[n] \subseteq there => n \in got
         /\ linked /\ Path[n] \subseteq there /\ n \in Folder =>
               Children(n) \cap there \subseteq found
  <2>1. CASE PullFolder(n)
    BY <1>0, <2>1 DEF PullFolder, Readable, Gets
  <2>2. CASE PullReport(n)
    BY <1>0, <2>2 DEF PullReport, Readable, Gets, is_crash_report
  <2>3. CASE PullSkips(n)
    BY <1>0, <2>3 DEF PullSkips, Readable, Gets, Reports, read_afc_file
  <2>4. CASE PullIsNotWritten(n)
    BY <1>0, <2>4 DEF PullIsNotWritten, Fault, is_crash_report
  <2>. QED  BY <2>1, <2>2, <2>3, <2>4
<1>2. Named'
  <2>1. CASE PullFolder(n) \/ PullSkips(n)
    <3>1. UNCHANGED <<copied, saved, cut>>
      BY <2>1 DEF PullFolder, PullSkips, Gets
    <3>. QED  BY <1>0, <3>1 DEF Named, CutNames, is_crash_report
  <2>2. CASE PullReport(n)
    BY <1>0, <2>2, NamesStay DEF PullReport, Gets
  <2>3. CASE PullIsNotWritten(n)
    BY <1>0, <2>3, NamesStay DEF PullIsNotWritten
  <2>. QED  BY <2>1, <2>2, <2>3
<1>3. /\ FilesTypeOK' /\ outcome' = outcome /\ outcome = "walking" /\ walk' = walk
      /\ linked' = linked /\ there' = there /\ pending' = (pending \ {n}) \cup found
  <2>1. cut' \subseteq Node /\ copied' \subseteq Node
    BY <1>0, <1>1
  <2>. QED  BY <1>1, <2>1, TakenType
<1>4. ASSUME linked PROVE Whole(Reports \ cut', there', copied', pending')
  <2>1. Whole(Reports \ cut, there, copied, pending)
    BY <1>0, <1>4 DEF FilesInv
  <2>2. n \in Folder /\ (\E m \in Reports \ cut' : n \in Path[m] /\ Path[m] \subseteq there)
           => Children(n) \cap there \subseteq found
    BY <1>0, <1>1, <1>4, PathsNest
  <2>3. Reports \ cut \in SUBSET Node /\ Reports \ cut' \in SUBSET (Reports \ cut)
    BY <1>0, <1>1
  <2>. QED  BY <1>1, <1>3, <1>4, <2>1, <2>2, <2>3, TakenStep
<1>5. Reports' = Reports
  BY DEF Reports, is_crash_report
<1>. QED  BY <1>0, <1>2, <1>3, <1>4, <1>5 DEF FilesInv

LEMMA ListStep ==
    ASSUME FilesInv, ListFolder \/ ListFails \/ \E n \in Node : ListEntry(n)
    PROVE  FilesInv'
<1>0. /\ walk = "list" /\ Root \in Node /\ Children(Root) \subseteq Node
      /\ copied \cup saved \cup cut \subseteq Node /\ faults \in Nat
  BY FilesAssumption DEF ListFolder, ListFails, ListEntry, Children, FilesInv, FilesTypeOK
<1>1. CASE ListFails
  BY <1>1 DEF ListFails, Fail, FilesInv, FilesTypeOK
<1>2. ASSUME NEW n \in Node, NEW found \in SUBSET Node, NEW got \in SUBSET Node,
             Take(n, found), Gets(got), saved' = saved,
             linked /\ n # Root /\ Path[n] \subseteq there => n \in got,
             n = Root => Children(Root) \cap there \subseteq found
      PROVE  FilesInv'
  <2>1. copied' = copied \cup got /\ cut' = cut /\ faults' = faults
    BY <1>2 DEF Gets
  <2>2. /\ FilesTypeOK' /\ outcome' = outcome /\ outcome = "walking" /\ walk' = walk
        /\ linked' = linked /\ there' = there /\ pending' = (pending \ {n}) \cup found
    <3>1. copied' \subseteq Node /\ saved' \subseteq Node /\ cut' \subseteq Node
      BY <1>0, <1>2, <2>1
    <3>. QED  BY <1>0, <1>2, <2>1, <3>1, TakenType
  <2>3. ASSUME linked PROVE Listed(there', copied', pending')
    BY <1>0, <1>2, <2>1, <2>2, <2>3, ListedStep DEF FilesInv
  <2>. QED  BY <1>0, <2>1, <2>2, <2>3 DEF FilesInv
<1>3. CASE ListFolder
  BY <1>0, <1>2, <1>3 DEF ListFolder
<1>4. ASSUME NEW n \in Node, ListEntry(n) PROVE FilesInv'
  BY <1>0, <1>2, <1>4 DEF ListEntry, Readable
<1>. QED  BY <1>1, <1>3, <1>4

LEMMA DownloadStep ==
    ASSUME FilesInv, NEW n \in Node, Download(n) \/ DownloadStops(n)
    PROVE  FilesInv'
<1>0. /\ walk = "download" /\ Children(n) \subseteq Node
      /\ copied \cup saved \cup cut \subseteq Node /\ faults \in Nat
  BY DEF Download, DownloadStops, Children, FilesInv, FilesTypeOK
<1>1. CASE DownloadStops(n)
  BY <1>1 DEF DownloadStops, EndsWalk, Fail, FilesInv, FilesTypeOK
<1>2. CASE Download(n)
  <2>1. /\ copied' = copied \cup {n} /\ UNCHANGED <<saved, cut, faults>>
    BY <1>2 DEF Download, Gets
  <2>2. PICK found \in SUBSET Node :
           Take(n, found) /\ (n \in Folder => Children(n) \cap there \subseteq found)
    BY <1>0, <1>2 DEF Download
  <2>3. /\ FilesTypeOK' /\ outcome' = outcome /\ outcome = "walking" /\ walk' = walk
        /\ linked' = linked /\ there' = there /\ pending' = (pending \ {n}) \cup found
    BY <1>0, <2>1, <2>2, TakenType
  <2>4. Whole(Node, there', copied', pending')
    BY <1>0, <2>1, <2>2, <2>3, TakenStep DEF FilesInv
  <2>. QED  BY <1>0, <2>3, <2>4 DEF FilesInv
<1>. QED  BY <1>1, <1>2

LEMMA UploadStep ==
    ASSUME FilesInv, NEW n \in Node, UploadFolder(n) \/ UploadFile(n) \/ UploadStops(n)
    PROVE  FilesInv'
<1>0. /\ walk = "upload" /\ Children(n) \subseteq Node
      /\ copied \cup saved \cup cut \subseteq Node /\ faults \in Nat
      /\ \A m \in copied \ {Root} : Parent[m] \in copied
  BY DEF UploadFolder, UploadFile, UploadStops, Children, FilesInv, FilesTypeOK
<1>1. CASE UploadStops(n)
  BY <1>1 DEF UploadStops, EndsWalk, Fail, FilesInv, FilesTypeOK, Uncut
<1>2. CASE UploadFolder(n) \/ UploadFile(n)
  <2>1. PICK found \in SUBSET Node, got \in SUBSET {n} :
           /\ Take(n, found) /\ copied' = copied \cup got /\ saved' = saved
           /\ faults' \in Nat
           /\ cut' = cut \/ cut' = cut \cup {n}
           /\ got # {} => CanWrite(n)
           /\ n \notin Folder => n \in got
           /\ n \in Folder /\ n \notin cut' => Children(n) \cap there \subseteq found
    <3>1. CASE UploadFolder(n)
      <4>1. PICK found \in SUBSET (Children(n) \cap there), made \in BOOLEAN :
               LET whole == found = Children(n) \cap there
               IN /\ made => CanWrite(n)
                  /\ Take(n, found)
                  /\ copied' = IF made THEN copied \cup {n} ELSE copied
                  /\ cut' = IF whole THEN cut ELSE cut \cup {n}
                  /\ IF whole /\ (made \/ ~CanWrite(n)) THEN UNCHANGED faults ELSE Fault
        BY <3>1 DEF UploadFolder
      <4>2. saved' = saved /\ n \in Folder
        BY <3>1 DEF UploadFolder
      <4>3. faults' \in Nat
        BY <1>0, <4>1 DEF Fault
      <4>4. found \in SUBSET Node
        BY <1>0
      <4>. DEFINE got == IF made THEN {n} ELSE {}
      <4>5. /\ got \in SUBSET {n} /\ copied' = copied \cup got /\ (got # {} => CanWrite(n))
            /\ cut' = cut \/ cut' = cut \cup {n}
        BY <4>1
      <4>6. n \notin cut' => Children(n) \cap there \subseteq found
        BY <4>1
      <4>. HIDE DEF got
      <4>. QED  BY <4>1, <4>2, <4>3, <4>4, <4>5, <4>6
    <3>2. CASE UploadFile(n)
      BY <1>0, <3>2 DEF UploadFile, Gets
    <3>. QED  BY <1>2, <3>1, <3>2
  <2>2. /\ FilesTypeOK' /\ outcome' = outcome /\ outcome = "walking" /\ walk' = walk
        /\ linked' = linked /\ there' = there /\ pending' = (pending \ {n}) \cup found
    <3>1. copied' \subseteq Node /\ saved' \subseteq Node /\ cut' \subseteq Node
      BY <1>0, <2>1
    <3>. QED  BY <2>1, <3>1, TakenType
  <2>3. \A m \in copied' \ {Root} : Parent[m] \in copied'
    BY <1>0, <2>1 DEF CanWrite
  <2>4. Whole(Uncut', there', copied', pending')
    <3>1. Whole(Uncut, there, copied, pending) /\ Uncut \in SUBSET Node
      BY <1>0 DEF FilesInv, Uncut
    <3>2. Uncut' \in SUBSET Uncut
      BY <2>1 DEF Uncut
    <3>3. n \in Folder /\ (\E m \in Uncut' : n \in Path[m] /\ Path[m] \subseteq there)
             => Children(n) \cap there \subseteq found
      BY <2>1 DEF Uncut
    <3>4. n \in Uncut' => n \in got
      BY <2>1 DEF Uncut
    <3>. QED  BY <2>1, <2>2, <3>1, <3>2, <3>3, <3>4, TakenStep
  <2>. QED  BY <1>0, <2>2, <2>3, <2>4 DEF FilesInv
<1>. QED  BY <1>1, <1>2

LEMMA FilesNextInv == FilesInv /\ [FilesNext]_filesVars => FilesInv'
<1>. SUFFICES ASSUME FilesInv, [FilesNext]_filesVars PROVE FilesInv'
  OBVIOUS
<1>. USE DEF Named, CutNames, Uncut, is_crash_report, Reports
<1>1. CASE UNCHANGED filesVars
  BY <1>1 DEF filesVars, FilesInv, FilesTypeOK
<1>2. CASE Finish
  BY <1>2 DEF Finish, FilesInv, FilesTypeOK
<1>3. CASE ConnectionBreaks
  <2>1. ~linked' /\ linked' \in BOOLEAN /\ faults' = faults + 1
        /\ UNCHANGED <<walk, there, pending, copied, saved, outcome, cut>>
    BY <1>3 DEF ConnectionBreaks, Fault
  <2>2. faults' \in Nat
    BY <2>1 DEF FilesInv, FilesTypeOK
  <2>. QED  BY <2>1, <2>2 DEF FilesInv, FilesTypeOK
<1>4. ASSUME NEW n \in Node, Vanish(n) PROVE FilesInv'
  <2>1. /\ there' \subseteq there /\ faults' \in Nat
        /\ UNCHANGED <<walk, linked, pending, copied, saved, outcome, cut>>
    BY <1>4 DEF Vanish, Fault, FilesInv, FilesTypeOK
  <2>2. /\ \A S : Whole(S, there, copied, pending) => Whole(S, there', copied, pending)
        /\ Listed(there, copied, pending) => Listed(there', copied, pending)
    BY <2>1, StillWhole
  <2>. QED  BY <2>1, <2>2 DEF FilesInv, FilesTypeOK
<1>5. ASSUME NEW works \in BOOLEAN, Connect(works) PROVE FilesInv'
  BY <1>5 DEF Connect, FilesInv, FilesTypeOK
<1>. QED  BY <1>1, <1>2, <1>3, <1>4, <1>5, PullStep, ListStep, DownloadStep, UploadStep
          DEF FilesNext

LEMMA FilesKeep == FilesInv => WalkIsWhole
<1>. SUFFICES ASSUME FilesInv PROVE WalkIsWhole
  OBVIOUS
<1>1. /\ FilesTypeOK
      /\ walk = "pull" /\ outcome = "failed" => copied = {} /\ saved = {}
      /\ walk = "pull" => Named
      /\ walk = "upload" => \A n \in copied \ {Root} : Parent[n] \in copied
  BY DEF FilesInv
<1>2. ASSUME NEW S, NEW got, Whole(S, there, got, {}) PROVE S \cap Lasting \subseteq got
  BY <1>2 DEF Whole, Lasting
<1>3. outcome = "Ok" => pending = {} /\ walk \in {"pull", "list", "download", "upload"}
  BY DEF FilesInv, FilesTypeOK
<1>4. outcome = "Ok" /\ walk = "pull" /\ linked => (Lasting \cap Reports) \ cut \subseteq copied
  BY <1>2, <1>3 DEF FilesInv
<1>5. outcome = "Ok" /\ walk = "list" /\ linked => Lasting \subseteq copied
  BY <1>3 DEF FilesInv, Listed, Lasting
<1>6. outcome = "Ok" /\ walk = "download" => Lasting \subseteq copied
  BY <1>2, <1>3 DEF FilesInv, Lasting
<1>7. outcome = "Ok" /\ walk = "upload" =>
         {n \in Lasting \ Folder : Path[n] \cap cut = {}} \subseteq copied
  <2>1. {n \in Lasting \ Folder : Path[n] \cap cut = {}} \subseteq Uncut \cap Lasting
    BY DEF Uncut, Lasting
  <2>. QED  BY <1>2, <1>3, <2>1 DEF FilesInv
<1>. QED  BY <1>1, <1>3, <1>4, <1>5, <1>6, <1>7 DEF WalkIsWhole, Named

\* A walk that reports success has taken what was there throughout - all of it, for a
\* download; every file below directories listed whole, for an upload, each in its
\* directory; every report, while the connection held, for a pull, if only one of
\* each name - for a tree of any depth and files that vanish under it at any
\* moment (pull_ios_crash_reports, list_ios_files, download_ios_path,
\* upload_ios_path).
THEOREM WalksAreWhole == FilesSpec => []WalkIsWhole
<1>. QED  BY FilesKeep, FilesInitInv, FilesNextInv, PTL DEF FilesSpec

-----------------------------------------------------------------------------
(* The back end. A step of it is a step of one part, and the others        *)
(* stutter.                                                                *)

BackendInv == StreamsInv /\ InputInv /\ ForwardsInv /\ CallsInv /\ AppsInv /\ FilesInv

LEMMA BackendStep ==
    ASSUME [BackendNext]_backendVars
    PROVE  /\ [StreamsNext]_streamsVars /\ [InputNext]_inputVars /\ [ForwardsNext]_forwardsVars
           /\ [CallsNext]_callsVars /\ [AppsNext]_appsVars /\ [FilesNext]_filesVars
<1>1. CASE UNCHANGED backendVars
  BY <1>1 DEF backendVars
<1>2. CASE BackendNext
  BY <1>2 DEF BackendNext
<1>. QED  BY <1>1, <1>2

\* What each part promises, the back end as a whole keeps: its parts share nothing.
THEOREM BackendKeepsItsPromises ==
    BackendSpec => [](/\ StreamIsStoppable /\ NoFingerIsLeft /\ NoGhostFinger
                      /\ ForwardIsStoppable /\ AnswersAreTrue /\ ClearedStaysClear
                      /\ WalkIsWhole)
<1>. DEFINE Promises == /\ StreamIsStoppable /\ NoFingerIsLeft /\ NoGhostFinger
                        /\ ForwardIsStoppable /\ AnswersAreTrue /\ ClearedStaysClear
                        /\ WalkIsWhole
<1>1. BackendInit => BackendInv
  BY StreamsInitInv, InputInitInv, ForwardsInitInv, CallsInitInv, AppsInitInv, FilesInitInv
     DEF BackendInit, BackendInv
<1>2. BackendInv /\ [BackendNext]_backendVars => BackendInv'
  BY BackendStep, StreamsNextInv, InputNextInv, ForwardsNextInv, CallsNextInv, AppsNextInv,
     FilesNextInv
     DEF BackendInv
<1>3. BackendInv => Promises
  BY StreamsKeep, InputKeeps, AppsKeep, FilesKeep DEF BackendInv, ForwardsInv, CallsInv
<1>. QED  BY <1>1, <1>2, <1>3, PTL DEF BackendSpec
==============================================================================
