------------------------------- MODULE IosApps -------------------------------
(***************************************************************************)
(* Stopping an iPhone app and clearing its data (src/rust/src/api/         *)
(* ios_app_control.rs).  Both work from listings - the phone's processes,  *)
(* the app's directories - that go stale while they are worked through:    *)
(* processes exit and start, and a running app writes to its container.    *)
(***************************************************************************)
EXTENDS Integers, Sequences

CONSTANTS
    Own,        \* processes of the app's bundle, its extensions' too
    Foreign,    \* other processes
    Unnamed,    \* processes the phone lists without an executable
    Entry,      \* what the app's data directories may hold
    Installed,  \* INSTALLED_DIRECTORIES among the entries
    Directories \* DATA_DIRECTORIES: the entries of each, in the order they are cleared

ASSUME AppsAssumption ==
    /\ Installed \subseteq Entry /\ Directories \in Seq(SUBSET Entry)
    /\ \A e \in Entry : \E i \in 1 .. Len(Directories) : e \in Directories[i]

VARIABLES
    op,         \* stop_ios_app or clear_ios_app_data
    stage,      \* the await it is at
    running,    \* processes of the phone
    listed,     \* processes found to be the app's, not signalled yet
    killed,     \* processes the call has killed
    missed,     \* processes of the app's that were running and not found to be
    stopped,    \* what stopping the app has come to
    left,       \* directories not listed yet
    doomed,     \* entries listed, not removed yet
    data,       \* entries with data: a file, or something in an installed directory
    result,     \* what the call has returned
    launched    \* processes that started since the call began

appsVars == <<op, stage, running, listed, killed, missed, stopped, left, doomed, data,
              result, launched>>

container == <<left, doomed, data>>
processes == <<running, listed, killed, missed, launched>>

AppsInit ==
    /\ op \in {"stop_ios_app", "clear_ios_app_data"}
    /\ stage = IF op = "stop_ios_app" THEN "bundle" ELSE "open"
    /\ running \in {Own \cup Foreign, Foreign}
    /\ listed = {} /\ killed = {} /\ missed = {} /\ stopped = "no"
    /\ left = Directories /\ doomed = {} /\ data = Entry
    /\ result = "none" /\ launched = {}

Return(outcome) == stage' = "over" /\ result' = outcome

-----------------------------------------------------------------------------
(* stop_ios_app.  Clearing ignores what it comes to.                       *)

StopReturns(outcome) ==
    /\ stopped' = outcome
    /\ IF op = "stop_ios_app" THEN Return(outcome)
       ELSE stage' = "directories" /\ UNCHANGED result

\* ios_app_bundle_path, the tunnel and the app service.
ReachAppService(works) ==
    /\ stage = "bundle"
    /\ IF works THEN stage' = "processes" /\ UNCHANGED <<stopped, result>>
       ELSE StopReturns("failed")
    /\ UNCHANGED <<op, processes, container>>

\* The executable lies inside the app's bundle; a process without one is passed over.
is_inside(p) == p \in Own \ Unnamed

ListProcesses(works) ==
    /\ stage = "processes"
    /\ IF works
       THEN /\ listed' = {p \in running : is_inside(p)}
            /\ missed' = (running \cap Own) \ listed'
            /\ stage' = "signals" /\ UNCHANGED <<stopped, result>>
       ELSE StopReturns("failed") /\ UNCHANGED <<listed, missed>>
    /\ UNCHANGED <<op, running, killed, launched, container>>

\* A process that has exited, or a signal refused, ends the round.
SignalFails(p) == StopReturns("failed") /\ UNCHANGED listed

Signal(p, works) ==
    /\ stage = "signals" /\ p \in listed
    /\ IF works /\ p \in running
       THEN /\ listed' = listed \ {p}
            /\ running' = running \ {p} /\ killed' = killed \cup {p}
            /\ UNCHANGED <<stage, stopped, result>>
       ELSE SignalFails(p) /\ UNCHANGED <<running, killed>>
    /\ UNCHANGED <<op, missed, launched, container>>

AllSignalled ==
    /\ stage = "signals" /\ listed = {}
    /\ StopReturns("Ok")
    /\ UNCHANGED <<op, processes, container>>

-----------------------------------------------------------------------------
(* clear_ios_app_data.                                                     *)

\* Deviation: the data goes first, then the app.
EmptyFirst == "directories"

\* Once the container is open, the app is stopped.
AfterOpening == "bundle"

\* house_arrest opens the container of a debug build only.
OpenContainer(debuggable) ==
    /\ stage = "open"
    /\ IF debuggable THEN stage' = AfterOpening /\ UNCHANGED result
       ELSE Return("refused")
    /\ UNCHANGED <<op, processes, stopped, container>>

\* What is in a directory; one never made has nothing in it.
entries(directory) == directory \cap (data \cup Installed)

ListDirectory(works) ==
    /\ stage = "directories" /\ left # <<>> /\ doomed = {}
    /\ IF works
       THEN /\ doomed' = entries(Head(left))
            /\ left' = Tail(left)
            /\ UNCHANGED <<stage, result>>
       ELSE Return("failed") /\ UNCHANGED <<left, doomed>>
    /\ UNCHANGED <<op, processes, stopped, data>>

\* An installed directory is emptied, anything else removed.
Remove(e, works) ==
    /\ stage = "directories" /\ e \in doomed
    /\ IF works
       THEN /\ doomed' = doomed \ {e} /\ data' = data \ {e}
            /\ UNCHANGED <<stage, result>>
       ELSE Return("failed") /\ UNCHANGED <<doomed, data>>
    /\ UNCHANGED <<op, processes, stopped, left>>

AllCleared ==
    /\ stage = "directories" /\ left = <<>> /\ doomed = {}
    /\ Return("Ok")
    /\ UNCHANGED <<op, processes, stopped, container>>

-----------------------------------------------------------------------------
(* The phone.                                                              *)

ProcessExits(p) ==
    /\ stage # "over" /\ p \in running
    /\ running' = running \ {p}
    /\ UNCHANGED <<op, stage, listed, killed, missed, launched, stopped, container, result>>

ProcessStarts(p) ==
    /\ stage # "over" /\ p \in Own \ (running \cup launched)
    /\ launched' = launched \cup {p}
    /\ running' = running \cup {p}
    /\ UNCHANGED <<op, stage, listed, killed, missed, stopped, container, result>>

\* The app writes its state, while any of it runs.
AppWrites(e) ==
    /\ stage # "over" /\ running \cap Own # {} /\ e \notin data
    /\ data' = data \cup {e}
    /\ UNCHANGED <<op, stage, processes, stopped, left, doomed, result>>

AppsNext ==
    \/ AllSignalled \/ AllCleared
    \/ \E works \in BOOLEAN :
          \/ ReachAppService(works) \/ ListProcesses(works) \/ OpenContainer(works) \/ ListDirectory(works)
          \/ \E p \in Own : Signal(p, works)
          \/ \E e \in Entry : Remove(e, works)
    \/ \E p \in Own \cup Foreign : ProcessExits(p)
    \/ \E p \in Own : ProcessStarts(p)
    \/ \E e \in Entry : AppWrites(e)

AppsSpec == AppsInit /\ [][AppsNext]_appsVars

-----------------------------------------------------------------------------
(* Properties.                                                             *)

\* The state has the types of its fields.
AppsTypeOK ==
    /\ stage \in {"open", "bundle", "processes", "signals", "directories", "over"}
    /\ listed \subseteq Own /\ killed \subseteq Own /\ missed \subseteq Own \cap Unnamed
    /\ launched \subseteq Own
    /\ running \subseteq Own \cup Foreign
    /\ doomed \subseteq Entry /\ data \subseteq Entry
    /\ stopped \in {"no", "Ok", "failed"}
    /\ result \in {"none", "Ok", "failed", "refused"}

\* "Kills every process running from the app's bundle": once it says so, those
\* that still run have started since, or are listed without an executable, whatever
\* exited or refused meanwhile.
StopLeavesNone == stopped = "Ok" => running \cap Own \subseteq launched \cup missed

\* "Stops the app ... so it can't write its state back", and "a refused app is
\* left running": unless a process of the app could not be stopped, or was started
\* again, nothing is in its directories once they are reported clear.
ClearedStaysClear ==
    /\ AppsTypeOK
    /\ StopLeavesNone
    /\ result = "refused" => killed = {}
    /\ op = "clear_ios_app_data" /\ result = "Ok" =>
          stopped = "failed" \/ missed # {} \/ launched # {} \/ data = {}
=============================================================================
