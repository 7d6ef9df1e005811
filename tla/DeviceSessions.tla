----------------------------- MODULE DeviceSessions ----------------------------
(***************************************************************************)
(* The device tabs of the application: one session for each device the     *)
(* list knows, their order, the selected one, and the synthetic workspace  *)
(* of imported logs (DeviceSessionManager, lib/session).  The list of      *)
(* devices is any DeviceList; its listeners run within its notification.   *)
(*                                                                         *)
(* A step of the program is one turn of the event loop up to its next      *)
(* await.  What a session holds is in the modules of its features; here it *)
(* is whether its controller is alive, connected and activated.            *)
(***************************************************************************)
EXTENDS Integers, Sequences, FiniteSets, SequencesExt

CONSTANTS
    Device,       \* device ids
    Imported,     \* AppConstants.importedWorkspaceId
    Home,         \* no device is selected
    MaxPublishes, \* bound: times the list changes or repeats itself
    MaxCommands   \* bound: what the user asks for

Id == Device \cup {Imported}

ASSUME SessionsAssumption ==
    /\ IsFiniteSet(Device)
    /\ Imported \notin Device /\ Home \notin Id
    /\ MaxPublishes \in Nat /\ MaxCommands \in Nat

VARIABLES
    known,      \* the list of devices
    order,      \* _order
    sessions,   \* keys of _sessions
    connected,  \* sessions whose device snapshot is connected
    activated,  \* sessions that are activated: they capture logs
    alive,      \* history: session controllers created and not disposed, by id
    dismissed,  \* _dismissed
    workspace,  \* _importedWorkspace is set
    selected,   \* _selectedId
    autoDone,   \* _autoSelectedOnce
    importing,  \* importLog calls that await their file
    disposed,
    acted,      \* history: the user has used a tab or Home
    budget

vars == <<known, order, sessions, connected, activated, alive, dismissed,
          workspace, selected, autoDone, importing, disposed, acted, budget>>

table == <<order, sessions, connected, alive>>

Devices == INSTANCE DeviceList

Init ==
    /\ Devices!Init
    /\ order = <<>> /\ sessions = {} /\ connected = {} /\ activated = {}
    /\ alive = [i \in Id |-> 0]
    /\ dismissed = {} /\ workspace = FALSE
    /\ selected = Home /\ autoDone = FALSE
    /\ importing = 0 /\ disposed = FALSE
    /\ acted = FALSE
    /\ budget = [publishes |-> MaxPublishes, commands |-> MaxCommands]

Command ==
    /\ budget.commands > 0
    /\ budget' = [budget EXCEPT !.commands = @ - 1]
    /\ UNCHANGED known

-----------------------------------------------------------------------------
(* The list of devices is published.                                       *)

\* New sessions are appended in the order of the list, which is sorted by
\* platform, status and name: any order of the devices may come of it.
Appended(new) == {order \o s : s \in SetToSeqs(new)}

\* Deviation: an automatic selection never counts as done.
MaybeAutoSelectAgain(on) ==
    IF selected # Home \/ Cardinality(on) # 1
    THEN UNCHANGED <<selected, autoDone, activated>>
    ELSE \E only \in on :
            /\ selected' = only /\ autoDone' = TRUE
            /\ activated' = activated \cup {only}

\* _maybeAutoSelect, among the sessions the notification leaves.
MaybeAutoSelect(on) ==
    IF autoDone \/ selected # Home \/ Cardinality(on) # 1
    THEN UNCHANGED <<selected, autoDone, activated>>
    ELSE \E only \in on :
            /\ selected' = only /\ autoDone' = TRUE
            /\ activated' = activated \cup {only}

\* Deviation: every listed device gets its tab back.
SyncReviving(next) ==
    LET listed == {d \in Device : next[d] # "unknown"}
        on     == {d \in Device : next[d] = "connected"}
        new    == listed \ sessions
    IN  /\ dismissed' = dismissed \ listed
        /\ sessions' = sessions \cup new
        /\ order' \in Appended(new)
        /\ alive' = [i \in Id |-> IF i \in new THEN alive[i] + 1 ELSE alive[i]]
        /\ connected' = on
        /\ MaybeAutoSelect(connected')

\* Deviation: a session keeps the snapshot it was created with.
SyncStale(next) ==
    LET listed == {d \in Device : next[d] # "unknown"}
        on     == {d \in Device : next[d] = "connected"}
        shown  == listed \ (dismissed \ on)
        new    == shown \ sessions
    IN  /\ dismissed' = dismissed \ on
        /\ sessions' = sessions \cup new
        /\ order' \in Appended(new)
        /\ alive' = [i \in Id |-> IF i \in new THEN alive[i] + 1 ELSE alive[i]]
        /\ connected' = connected \cup (on \cap new)
        /\ MaybeAutoSelect(connected')

\* _sync: a connected device is no longer dismissed; every listed device that
\* is not gets a session, or its session the new snapshot.
Sync(next) ==
    LET listed == {d \in Device : next[d] # "unknown"}
        on     == {d \in Device : next[d] = "connected"}
        shown  == listed \ (dismissed \ on)
        new    == shown \ sessions
    IN  /\ dismissed' = dismissed \ on
        /\ sessions' = sessions \cup new
        /\ order' \in Appended(new)
        /\ alive' = [i \in Id |-> IF i \in new THEN alive[i] + 1 ELSE alive[i]]
        /\ connected' = on \cap shown
        /\ MaybeAutoSelect(connected')

\* The list changes, or its spinner does.
Notified ==
    /\ ~disposed /\ budget.publishes > 0
    /\ budget' = [budget EXCEPT !.publishes = @ - 1]
    /\ \E next \in [Device -> Devices!Connection] :
          Devices!Publish(next) /\ Sync(next)
    /\ UNCHANGED <<workspace, importing, disposed, acted>>

-----------------------------------------------------------------------------
(* The user.                                                               *)

\* select, of a session there is.
SelectAndActivate(id) ==
    /\ selected' = id
    /\ autoDone' = TRUE
    /\ acted' = TRUE

Select(id) ==
    /\ ~disposed /\ id \in sessions /\ Command
    /\ SelectAndActivate(id) /\ activated' = activated \cup {id}
    /\ UNCHANGED <<table, dismissed, workspace, importing, disposed>>

GoHome ==
    /\ ~disposed /\ Command
    /\ selected' = Home /\ autoDone' = TRUE /\ acted' = TRUE
    /\ UNCHANGED <<table, activated, dismissed, workspace, importing, disposed>>

\* Deviation: the tab that takes the selection over is not activated.
SelectLastQuietly(id) ==
    IF selected # id THEN UNCHANGED selected /\ activated' = activated \ {id}
    ELSE /\ selected' = IF order' = <<>> THEN Home ELSE Last(order')
         /\ activated' = activated \ {id}

\* A closed tab passes the selection to the last one.
SelectLast(id) ==
    IF selected # id THEN UNCHANGED selected /\ activated' = activated \ {id}
    ELSE /\ selected' = IF order' = <<>> THEN Home ELSE Last(order')
         /\ activated' = (activated \ {id}) \cup ({selected'} \ {Home})

\* close, of a disconnected device only.
Close(id) ==
    /\ ~disposed /\ id \in sessions /\ id \notin connected /\ Command
    /\ sessions' = sessions \ {id}
    /\ \E i \in DOMAIN order : order[i] = id /\ order' = RemoveAt(order, i)
    /\ dismissed' = dismissed \cup {id}
    /\ workspace' = (workspace /\ id # Imported)
    /\ alive' = [alive EXCEPT ![id] = @ - 1]
    /\ SelectLast(id)
    /\ acted' = TRUE
    /\ UNCHANGED <<connected, autoDone, importing, disposed>>

\* Deviation: the old session is replaced, not torn down.
ReloadLeaking(id) ==
    /\ ~disposed /\ id \in sessions \ {Imported} /\ Command
    /\ alive' = [alive EXCEPT ![id] = @ + 1]
    /\ activated' = IF selected = id THEN activated \cup {id} ELSE activated \ {id}
    /\ acted' = TRUE
    /\ UNCHANGED <<order, sessions, connected, dismissed, workspace, selected,
                   autoDone, importing, disposed>>

\* reload up to its await: one controller disposed, one created in its slot,
\* activated only if it is the selected one.  What follows asks for a refresh.
Reload(id) ==
    /\ ~disposed /\ id \in sessions \ {Imported} /\ Command
    /\ activated' = IF selected = id THEN activated \cup {id} ELSE activated \ {id}
    /\ acted' = TRUE
    /\ UNCHANGED <<table, dismissed, workspace, selected, autoDone, importing, disposed>>

ImportLog ==
    /\ ~disposed /\ Command
    /\ importing' = importing + 1
    /\ acted' = TRUE
    /\ UNCHANGED <<table, activated, dismissed, workspace, selected, autoDone, disposed>>

\* _ensureImportedWorkspace.
EnsureImportedWorkspace ==
    IF workspace THEN UNCHANGED <<order, sessions, alive, dismissed, workspace>>
    ELSE /\ workspace' = TRUE
         /\ dismissed' = dismissed \ {Imported}
         /\ sessions' = sessions \cup {Imported}
         /\ order' = Append(order, Imported)
         /\ alive' = [alive EXCEPT ![Imported] = @ + 1]

\* importLog past its await: nothing for a cancelled or unreadable file, or
\* once the application is gone.
FileIsRead ==
    /\ importing > 0
    /\ importing' = importing - 1
    /\ \/ UNCHANGED <<order, sessions, alive, activated, dismissed, workspace,
                      selected, autoDone, acted>>
       \/ /\ ~disposed
          /\ EnsureImportedWorkspace
          /\ SelectAndActivate(Imported) /\ activated' = activated \cup {Imported}
    /\ UNCHANGED <<known, connected, disposed, budget>>

Dispose ==
    /\ ~disposed
    /\ disposed' = TRUE
    /\ alive' = [i \in Id |-> IF i \in sessions THEN alive[i] - 1 ELSE alive[i]]
    /\ UNCHANGED <<known, order, sessions, connected, activated, dismissed,
                   workspace, selected, autoDone, importing, acted, budget>>

Next ==
    \/ Notified
    \/ \E id \in Id : Select(id) \/ Close(id) \/ Reload(id)
    \/ GoHome \/ ImportLog \/ FileIsRead \/ Dispose

Spec == Init /\ [][Next]_vars

-----------------------------------------------------------------------------
(* Properties.                                                             *)

\* The state has the types of its fields.
TypeOK ==
    /\ known \in [Device -> Devices!Connection]
    /\ order \in Seq(Id) /\ sessions \subseteq Id
    /\ connected \subseteq sessions /\ activated \subseteq sessions
    /\ alive \in [Id -> Nat] /\ dismissed \subseteq Id
    /\ {workspace, autoDone, disposed, acted} \subseteq BOOLEAN
    /\ selected \in Id \cup {Home}
    /\ importing \in 0..MaxCommands

\* The tab strip shows every session once: what `sessions` looks up is there.
OrderIsSessions == IsInjective(order) /\ ToSet(order) = sessions

\* The selected tab exists and is activated, also one that took over from a
\* closed tab or was rebuilt under the selection.
SelectedIsActive == selected \in activated \cup {Home}

\* A connected device always has a tab, whatever was dismissed before, and the
\* sessions agree with the list on who is connected: close relies on it.
ConnectedHasTab ==
    ~disposed => connected = {d \in Device : known[d] = "connected"}

\* A tab is closed for good or alive: no session controller, with its log
\* capture and processes, outlives its tab, and none is disposed twice.
ControllersAreOwned ==
    \A id \in Id : alive[id] = IF id \in sessions /\ ~disposed THEN 1 ELSE 0

\* The imported workspace is the tab the pointer says: imports go to the tab
\* on screen, never to one that was closed.
WorkspaceIsShown == workspace <=> Imported \in sessions

\* The tab strip, what is selected of it and what it says of imports agree.
StripInv == TypeOK /\ OrderIsSessions /\ SelectedIsActive /\ WorkspaceIsShown

\* "Closing a disconnected tab dismisses it permanently until the device
\* reconnects": only a connected device gets its tab back.
DismissedStaysClosed ==
    [][\A d \in Device \cap dismissed :
          d \in sessions' => known'[d] = "connected"]_vars

\* Nobody is taken from one tab to another: what the list publishes moves the
\* selection only away from Home, and to the one device connected.
SelectionIsTheUsers ==
    [][known' # known /\ selected' # selected
         => selected = Home /\ connected' = {selected'} /\ ~autoDone]_vars

\* "Disabled after any user action" (device_session_manager.dart:99-100): the
\* list moves the selection only as long as the user has done nothing.  The
\* code does not keep it: TLC refutes it on the instance of DeviceSessions.cfg.
AutoSelectIsFirst == [][acted /\ known' # known => selected' = selected]_vars
================================================================================
