----------------------------- MODULE SessionLogs -----------------------------
(***************************************************************************)
(* The tabs of a session and what its log tabs ask of the device: TabLists *)
(* decides which controllers are alive, and each that shows live logs      *)
(* holds at most one of the log streams of PidCache, but may have started  *)
(* more: an operation that overlaps another attaches a stream without      *)
(* letting go of the one attached meanwhile (OwnsItsStream of LogCapture). *)
(* Closing a tab lets go of the stream it holds; disposing of the session  *)
(* lets go of every tab's, and then of the repository.  The imported       *)
(* workspace has no device, and terminals leave the pid cache alone.       *)
(***************************************************************************)
EXTENDS PidCache, SequencesExt

CONSTANTS
    Tab,        \* tab controllers
    Files,      \* those of them that are created for a picked file
    Kinds,      \* whose lists to look at: "logs", "imports", "terminal"
    MaxImports, \* bound: files picked
    NoStream    \* the null subscription

ASSUME TabsAssumption ==
    /\ IsFiniteSet(Tab) /\ Files \subseteq Tab
    /\ Kinds \subseteq {"logs", "imports", "terminal"}
    /\ MaxImports \in Nat
    /\ NoStream \notin Streams

VARIABLES
    kind, tabs, imported, selected, used, live, picking, picks, disposed,
    held        \* _logSub of each live tab: the stream it would cancel

List == INSTANCE TabLists

list == <<kind, tabs, imported, selected, used, live, picking, picks, disposed>>

\* The tabs whose controllers may stream.
Streaming == IF kind = "logs" THEN live \ imported ELSE {}

\* The streams the tabs of T hold.
HeldBy(T) == {held[t] : t \in T} \ {NoStream}

SessionInit ==
    /\ List!Init /\ ToSet(tabs) \cap Files = {}
    /\ Init /\ held = [t \in Tab |-> NoStream]

-----------------------------------------------------------------------------
(* The tabs.  The user acts between turns of the event loop.               *)

TabOpens ==
    /\ IsQuiet
    /\ \/ \E t \in Tab \ Files : List!AddTab(t)
       \/ \E t \in Files : List!FileIsPicked(t)
       \/ List!ImportLog
       \/ \E index \in 0 .. Cardinality(Tab) : List!SelectTab(index)
    /\ UNCHANGED <<vars, held>>

\* closeTab disposes of the controller, which cancels the stream it holds.
TabCloses(index) ==
    /\ IsQuiet
    /\ List!CloseTab(index)
    /\ Cancel(HeldBy({List!At(index)}))
    /\ held' = [held EXCEPT ![List!At(index)] = NoStream]
    /\ UNCHANGED <<stream, polling, refresh, age, request, closed>>

\* DeviceSessionController.dispose: the tabs first, then the repository.
SessionEnds ==
    /\ List!Dispose
    /\ \/ kind # "imports" /\ Dispose(HeldBy(Streaming))
       \/ kind = "imports" /\ UNCHANGED vars
    /\ held' = [t \in Tab |-> NoStream]

-----------------------------------------------------------------------------
(* The streams of live log tabs, their requests, and what time brings.     *)

\* A tab attaches a stream.  It does not ask what it holds: a stream attached
\* by an operation that overlapped this one is forgotten.
TabStreams(t, s) ==
    /\ t \in Streaming /\ StartStream(s)
    /\ held' = [held EXCEPT ![t] = s]
    /\ UNCHANGED list

\* A tab cancels the stream it holds and awaits its end.
TabStops(t) ==
    /\ t \in Streaming /\ held[t] # NoStream /\ CancelStream(held[t])
    /\ held' = [held EXCEPT ![t] = NoStream]
    /\ UNCHANGED list

\* A stream is over, and the tab that holds it, if any, lets go.
StreamStops(s) ==
    /\ EndStream(s)
    /\ held' = [t \in Tab |-> IF held[t] = s THEN NoStream ELSE held[t]]
    /\ UNCHANGED list

StreamOpens(s) == OpenStream(s) /\ UNCHANGED <<list, held>>
TabAsks        == Streaming # {} /\ Request /\ UNCHANGED <<list, held>>
AskResumes     == ResumeRequest /\ UNCHANGED <<list, held>>
AskIsDue       == DelayEnds /\ UNCHANGED <<list, held>>
RefreshEnds    == PsEnds /\ UNCHANGED <<list, held>>
PollIsDue      == PollFires /\ UNCHANGED <<list, held>>
TimePasses     == Tick /\ UNCHANGED <<list, held>>

SessionNext ==
    \/ TabOpens
    \/ \E index \in 0 .. Cardinality(Tab) : TabCloses(index)
    \/ SessionEnds
    \/ \E t \in Tab : TabStops(t) \/ \E s \in Streams : TabStreams(t, s)
    \/ \E s \in Streams : StreamOpens(s) \/ StreamStops(s)
    \/ TabAsks \/ AskResumes \/ AskIsDue
    \/ RefreshEnds \/ PollIsDue \/ TimePasses

both == <<vars, list, held>>

\* The event loop: continuations run, a timer that is due fires however busy
\* the streams are, time passes, and every `ps` ends.  Nothing makes a tab ask,
\* or a stream start or end.
SessionFairness ==
    /\ SF_both(RefreshEnds) /\ SF_both(PollIsDue) /\ SF_both(TimePasses)
    /\ SF_both(AskIsDue) /\ WF_both(AskResumes)
    /\ \A s \in Streams : WF_both(StreamOpens(s))

SessionSpec == SessionInit /\ [][SessionNext]_both /\ SessionFairness

-----------------------------------------------------------------------------
\* There is always a tab to show: the selected index is one of the list, and
\* a device's logs keep a tab that captures, whichever tabs are closed and
\* whichever files arrive; every controller is in the list or disposed.
ATabRemains == List!ATabRemains /\ List!TabsInv

\* A tab holds no stream but one of its own that runs and that nobody has
\* cancelled, and only while it is open: closing one tab stops no other's.
HoldsItsOwn ==
    /\ held \in [Tab -> Streams \cup {NoStream}]
    /\ \A t \in Tab : held[t] # NoStream =>
          /\ t \in Streaming
          /\ stream[held[t]] # "idle" /\ held[t] \notin cancelled
          /\ \A u \in Tab \ {t} : held[u] # held[t]

\* The invariant of the tabs, and of the poll their streams share.
SessionLogsInv == PollInv /\ ATabRemains /\ HoldsItsOwn
==============================================================================
