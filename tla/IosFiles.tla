------------------------------ MODULE IosFiles -------------------------------
(***************************************************************************)
(* The walks over an iPhone's files (src/rust/src/api/ios.rs): crash       *)
(* reports pulled, directories listed, trees downloaded and uploaded.      *)
(* Each connects, lists a directory and then takes its entries one by one, *)
(* while the files come and go and the connection may break.  They differ  *)
(* in what an entry that fails does to the rest.                           *)
(*                                                                         *)
(* Files are nodes of a tree; a walk's pending entries are a set, taken in *)
(* any order.  What is walked is the phone's tree, or the host's for an    *)
(* upload.                                                                 *)
(***************************************************************************)
EXTENDS Integers, FiniteSets

CONSTANTS
    Node,       \* files and directories
    Root,       \* the path asked for
    Parent,     \* the directory each other node is in
    Folder,     \* the directories
    FileName,   \* the name of each node in its directory
    ReportName, \* names that end in .ips or .crash
    MaxFaults   \* bound: nodes that vanish or cannot be read, breaks of the connection,
                \* what a side fails to write, listings of the host's that break off

ASSUME FilesAssumption ==
    /\ Root \in Node /\ Folder \subseteq Node
    /\ Parent \in [Node \ {Root} -> Folder] /\ MaxFaults \in Nat

VARIABLES
    walk,    \* pull_ios_crash_reports, list_ios_files, download_ or upload_ios_path
    there,   \* nodes that can be read still
    linked,  \* whether the connection works
    pending, \* entries found, not taken yet
    copied,  \* what has been written (a pull's answer), or listed
    saved,    \* reports whose contents output_dir holds, a pull's
    outcome, \* connecting, walking, Ok or failed
    cut,     \* directories whose listing ended early, reports not written
    faults

filesVars == <<walk, there, linked, pending, copied, saved, outcome, cut, faults>>

Children(n) == {m \in Node \ {Root} : Parent[m] = n}

\* A node and the directories it is in: the least set with it and with the
\* directory of every member.
Path ==
    [n \in Node |->
        {m \in Node : \A S \in SUBSET Node :
            n \in S /\ (\A k \in S \ {Root} : Parent[k] \in S) => m \in S}]

\* The nodes are a tree.
ASSUME TreeAssumption == \A n \in Node : Root \in Path[n]

FilesInit ==
    /\ walk \in {"pull", "list", "download", "upload"}
    /\ walk \in {"pull", "list"} => Root \in Folder
    /\ there = Node /\ linked = TRUE
    /\ pending = {Root} /\ copied = {} /\ saved = {} /\ outcome = "connecting"
    /\ cut = {} /\ faults = 0

\* provider_for and the connection to the service, for whichever walk.
Connect(works) ==
    /\ outcome = "connecting"
    /\ outcome' = IF works THEN "walking" ELSE "failed"
    /\ UNCHANGED <<walk, there, linked, pending, copied, saved, cut, faults>>

\* A node that is there, on the side that is walked; writing takes the link as well.
Readable(n) == Path[n] \subseteq there /\ (linked \/ walk = "upload")

Take(n, found) ==
    /\ outcome = "walking" /\ n \in pending
    /\ pending' = (pending \ {n}) \cup found
    /\ UNCHANGED <<walk, there, linked, outcome>>

\* Written, or listed; nothing failed.
Gets(nodes) == copied' = copied \cup nodes /\ UNCHANGED <<cut, faults>>

Fault == faults < MaxFaults /\ faults' = faults + 1

Fail ==
    /\ outcome = "walking" /\ outcome' = "failed"
    /\ UNCHANGED <<walk, there, linked, pending, copied, saved, cut, faults>>

-----------------------------------------------------------------------------
(* pull_ios_crash_reports: once connected, whatever fails is passed over.  *)

PullFolder(n) ==
    /\ walk = "pull" /\ n \in Folder
    /\ Take(n, IF Readable(n) THEN Children(n) \cap there ELSE {})
    /\ Gets({}) /\ UNCHANGED saved

is_crash_report(n) == n \notin Folder /\ FileName[n] \in ReportName

\* The report can be opened and read to its end.
read_afc_file(n) == Readable(n)

\* Whatever its directory, a report is written under its name: over any other of it.
Namesakes(n) == {m \in Node : FileName[m] = FileName[n]}

PullReport(n) ==
    /\ walk = "pull" /\ is_crash_report(n) /\ read_afc_file(n)
    /\ Take(n, {}) /\ Gets({n})
    /\ saved' = (saved \ Namesakes(n)) \cup {n}

\* Another file, or a report that is gone.
PullSkips(n) ==
    /\ walk = "pull" /\ n \notin Folder /\ ~(is_crash_report(n) /\ read_afc_file(n))
    /\ Take(n, {}) /\ Gets({}) /\ UNCHANGED saved

\* The host may fail to write one; what was under the name is lost, unless the file
\* could not even be opened.
PullIsNotWritten(n) ==
    /\ walk = "pull" /\ is_crash_report(n) /\ read_afc_file(n)
    /\ Take(n, {}) /\ Fault
    /\ cut' = cut \cup {n} /\ UNCHANGED copied
    /\ saved' \in {saved, saved \ Namesakes(n)}

-----------------------------------------------------------------------------
(* list_ios_files: the directory must be read, an entry that vanished is   *)
(* passed over.                                                            *)

ListFolder ==
    /\ walk = "list" /\ Root \in pending /\ Readable(Root)
    /\ Take(Root, Children(Root) \cap there) /\ Gets({}) /\ UNCHANGED saved

ListFails ==
    /\ walk = "list" /\ Root \in pending /\ ~Readable(Root)
    /\ Fail

ListEntry(n) ==
    /\ walk = "list" /\ n # Root
    /\ Take(n, {}) /\ Gets(IF Readable(n) THEN {n} ELSE {}) /\ UNCHANGED saved

-----------------------------------------------------------------------------
(* download_recursive: whatever fails ends the download.                   *)

Download(n) ==
    /\ walk = "download" /\ Readable(n)
    /\ Take(n, IF n \in Folder THEN Children(n) \cap there ELSE {})
    /\ Gets({n}) /\ UNCHANGED saved

\* Deviation: what cannot be read is passed over.
PassedOver(n) == Take(n, {}) /\ Gets({}) /\ UNCHANGED saved

EndsWalk(n) == n \in pending /\ Fail

\* The phone cannot give it, or the host cannot write it.
DownloadStops(n) == walk = "download" /\ n \in pending /\ EndsWalk(n)

-----------------------------------------------------------------------------
(* upload_recursive.  A directory the phone cannot make is passed over; a  *)
(* listing of the host's that breaks off ends as if it were complete.      *)

\* The phone can be given a node: the directory it goes to exists.
CanWrite(n) == linked /\ (n # Root => Parent[n] \in copied)

UploadFolder(n) ==
    /\ walk = "upload" /\ n \in Folder /\ Readable(n)
    /\ \E found \in SUBSET (Children(n) \cap there), made \in BOOLEAN :
          LET whole == found = Children(n) \cap there
          IN /\ made => CanWrite(n)
             /\ Take(n, found)
             /\ copied' = IF made THEN copied \cup {n} ELSE copied
             /\ cut' = IF whole THEN cut ELSE cut \cup {n}
             /\ IF whole /\ (made \/ ~CanWrite(n)) THEN UNCHANGED faults ELSE Fault
    /\ UNCHANGED saved

UploadFile(n) ==
    /\ walk = "upload" /\ n \notin Folder /\ Readable(n) /\ CanWrite(n)
    /\ Take(n, {}) /\ Gets({n}) /\ UNCHANGED saved

\* The host cannot read it, or the phone cannot write it.
UploadStops(n) == walk = "upload" /\ n \in pending /\ EndsWalk(n)

-----------------------------------------------------------------------------
Finish ==
    /\ outcome = "walking" /\ pending = {}
    /\ outcome' = "Ok"
    /\ UNCHANGED <<walk, there, linked, pending, copied, saved, cut, faults>>

Walking == outcome \in {"connecting", "walking"}

\* A node vanishes, or can no longer be read, nor what is in it.
Vanish(n) ==
    /\ Walking /\ n \in there /\ Fault
    /\ there' = there \ {n}
    /\ UNCHANGED <<walk, linked, pending, copied, saved, outcome, cut>>

ConnectionBreaks ==
    /\ Walking /\ linked /\ Fault
    /\ linked' = FALSE
    /\ UNCHANGED <<walk, there, pending, copied, saved, outcome, cut>>

FilesNext ==
    \/ ListFolder \/ ListFails \/ Finish \/ ConnectionBreaks
    \/ \E works \in BOOLEAN : Connect(works)
    \/ \E n \in Node :
          \/ PullFolder(n) \/ PullReport(n) \/ PullSkips(n) \/ PullIsNotWritten(n)
          \/ ListEntry(n) \/ Download(n) \/ DownloadStops(n)
          \/ UploadFolder(n) \/ UploadFile(n) \/ UploadStops(n) \/ Vanish(n)

FilesSpec == FilesInit /\ [][FilesNext]_filesVars

-----------------------------------------------------------------------------
(* Properties.                                                             *)

\* The state has the types of its fields.
FilesTypeOK ==
    /\ walk \in {"pull", "list", "download", "upload"}
    /\ there \cup pending \cup copied \cup saved \cup cut \subseteq Node
    /\ linked \in BOOLEAN /\ faults \in Nat
    /\ outcome \in {"connecting", "walking", "Ok", "failed"}

\* Nodes there throughout, in directories that were, as far as the walk goes.
Lasting ==
    {n \in Node : Path[n] \subseteq there /\ (walk = "list" => n \in Children(Root))}

Reports == {n \in Node : is_crash_report(n)}

\* Names of reports the host failed to write.
CutNames == {FileName[n] : n \in cut}

\* A walk that reports success has taken what was there throughout, whatever
\* vanished under it.  A download: all of it.  An upload: every file, save below
\* directories whose listing broke off, and no file or directory of it is on the
\* phone without the directory it belongs in; an empty one may be missing.  A
\* pull, which fails only by not connecting, and a listing: as long as the
\* connection held and the host could write.  Each path a pull answers with holds
\* a report of that name, if only one of several: they are written over each other.
WalkIsWhole ==
    /\ FilesTypeOK
    /\ walk = "pull" /\ outcome = "failed" => copied = {} /\ saved = {}
    /\ walk = "pull" =>
          \A n \in copied : FileName[n] \notin CutNames =>
             \E m \in saved : FileName[m] = FileName[n] /\ is_crash_report(m)
    /\ walk = "upload" => \A n \in copied \ {Root} : Parent[n] \in copied
    /\ outcome = "Ok" =>
          CASE walk = "pull" -> linked => (Lasting \cap Reports) \ cut \subseteq copied
            [] walk = "list" -> linked => Lasting \subseteq copied
            [] walk = "download" -> Lasting \subseteq copied
            [] walk = "upload" ->
                  {n \in Lasting \ Folder : Path[n] \cap cut = {}} \subseteq copied
=============================================================================
