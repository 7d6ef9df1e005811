-------------------------------- MODULE TabLists -------------------------------
(***************************************************************************)
(* The tabs within a device's workspace: an ordered list with one selected *)
(* (TabListManager), as its three users restrict closing: the log tabs of  *)
(* a device, those of the imported workspace, and the terminals.           *)
(***************************************************************************)
EXTENDS Integers, Sequences, FiniteSets, SequencesExt

CONSTANTS
    Tab,        \* tab controllers, each created once
    Kinds,      \* whose lists to look at: "logs", "imports", "terminal"
    MaxImports  \* bound: files picked

VARIABLES
    kind,       \* whose list it is, for good
    tabs,       \* _tabs
    imported,   \* which of the tabs created hold a file
    selected,   \* _selectedIndex, from 0
    used,       \* history: tabs created
    live,       \* history: tabs created and not disposed
    picking,    \* importLog calls that await their file
    picks,      \* what is left of the bound
    disposed

vars == <<kind, tabs, imported, selected, used, live, picking, picks, disposed>>

At(index) == tabs[index + 1]
LiveTabs  == {t \in ToSet(tabs) : t \notin imported}

\* A device's list is seeded with a live tab.
Init ==
    /\ kind \in Kinds
    /\ \/ kind = "imports" /\ tabs = <<>>
       \/ kind # "imports" /\ \E t \in Tab : tabs = <<t>>
    /\ imported = {} /\ selected = 0
    /\ used = ToSet(tabs) /\ live = ToSet(tabs)
    /\ picking = 0 /\ picks = MaxImports
    /\ disposed = FALSE

-----------------------------------------------------------------------------
(* Actions.                                                                *)

\* appendTab, of a fresh controller.
AppendTab(t, holdsFile) ==
    /\ t \notin used
    /\ tabs' = Append(tabs, t) /\ selected' = Len(tabs)
    /\ imported' = IF holdsFile THEN imported \cup {t} ELSE imported
    /\ used' = used \cup {t} /\ live' = live \cup {t}

\* addLiveTab of a device's logs, addTab of its terminal.
AddTab(t) ==
    /\ ~disposed /\ kind # "imports"
    /\ AppendTab(t, FALSE)
    /\ UNCHANGED <<kind, picking, picks, disposed>>

ImportLog ==
    /\ ~disposed /\ kind # "terminal" /\ picks > 0
    /\ picking' = picking + 1 /\ picks' = picks - 1
    /\ UNCHANGED <<kind, tabs, imported, selected, used, live, disposed>>

\* importLog past its await; a cancelled or unreadable file opens nothing.
FileIsPicked(t) ==
    /\ picking > 0 /\ picking' = picking - 1
    /\ \/ ~disposed /\ AppendTab(t, TRUE)
       \/ UNCHANGED <<tabs, imported, selected, used, live>>
    /\ UNCHANGED <<kind, picks, disposed>>

SelectTab(index) ==
    /\ ~disposed
    /\ index \in 0..(Len(tabs) - 1) /\ selected' = index
    /\ UNCHANGED <<kind, tabs, imported, used, live, picking, picks, disposed>>

\* canClose of the list's kind.
CanClose(index) ==
    /\ index \in 0..(Len(tabs) - 1)
    /\ CASE kind = "imports"  -> Len(tabs) > 1
         [] kind = "terminal" -> index > 0
         [] kind = "logs"     -> At(index) \in imported \/ Cardinality(LiveTabs) > 1

\* closeTab: the index selected stays, clamped; the tab there may be another.
CloseTab(index) ==
    /\ ~disposed /\ CanClose(index)
    /\ live' = live \ {At(index)}
    /\ tabs' = RemoveAt(tabs, index + 1)
    /\ selected' = IF selected < Len(tabs') THEN selected ELSE Len(tabs') - 1
    /\ UNCHANGED <<kind, imported, used, picking, picks, disposed>>

Dispose ==
    /\ ~disposed
    /\ disposed' = TRUE /\ live' = live \ ToSet(tabs)
    /\ UNCHANGED <<kind, tabs, imported, selected, used, picking, picks>>

Next ==
    \/ \E t \in Tab : AddTab(t) \/ FileIsPicked(t)
    \/ ImportLog \/ Dispose
    \/ \E index \in 0..Cardinality(Tab) : SelectTab(index) \/ CloseTab(index)

Spec == Init /\ [][Next]_vars

-----------------------------------------------------------------------------
(* Properties.                                                             *)

\* The state has the types of its fields.
TypeOK ==
    /\ kind \in Kinds
    /\ tabs \in Seq(Tab) /\ imported \subseteq used /\ used \subseteq Tab
    /\ live \subseteq used /\ selected \in Nat
    /\ picking \in 0..MaxImports /\ picks \in 0..MaxImports
    /\ disposed \in BOOLEAN

\* There is always a tab to show: the selected index is one of the list, and
\* a device's logs keep a tab that captures, whichever tabs are closed and
\* whichever files arrive.
ATabRemains ==
    /\ tabs # <<>> => selected < Len(tabs)
    /\ used # {} => tabs # <<>>
    /\ kind = "logs" => LiveTabs # {}

\* A tab is in the list or disposed, never both and never neither, also one
\* whose file arrives after the list is gone.
TabsAreOwned ==
    /\ IsInjective(tabs)
    /\ live = IF disposed THEN {} ELSE ToSet(tabs)

\* The invariant of a list and its controllers.
TabsInv == TypeOK /\ TabsAreOwned

\* "The first live tab is permanent" (log_session_manager.dart:9), as the first
\* terminal is (terminal_session_manager.dart:28).  The code keeps it for
\* terminals only: TLC refutes it on the instance of SessionLogs.cfg, where a
\* device's first log tab is closed once there is a second.
FirstTabIsPermanent == [][kind # "imports" => tabs'[1] = tabs[1]]_vars
================================================================================
