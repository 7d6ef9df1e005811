------------------------------ MODULE LogView -------------------------------
(***************************************************************************)
(* What a log tab shows: LogController's buffer, the pid-to-package        *)
(* mapping it learns, its package filter, the cached filtered list and the *)
(* row selection (lib/features/logs/log_controller.dart).                  *)
(*                                                                         *)
(* A package term either names one package or excludes it; every other     *)
(* condition of a filter is decided by the entry alone and is left out, as *)
(* is the level.  A PID is never the name of a package.  The tab is        *)
(* capturing; what starts and stops its stream is LogCapture.              *)
(***************************************************************************)
EXTENDS LogEviction, Sequences

CONSTANTS
    Pids, Packages,
    NoPid,           \* the blank pid of a separator or a session marker
    NoPackage,       \* an unresolved package
    NoCache,         \* the null _cachedFilteredLogs
    Terms,           \* the package terms the user tries
    MaxPending,      \* maxPendingLogs
    PidsAreReused,   \* may the device give the pid of a dead process again
    MaxArrivals,     \* bound: entries the stream delivers
    MaxRelevance,    \* bound on _packageIndexRelevance
    MaxSelected      \* bound: rows selected at a time

ASSUME LogViewAssumption ==
    /\ NoPid \notin Pids /\ NoPackage \notin Packages
    /\ Terms \subseteq [package : Packages, negate : BOOLEAN]
    /\ NoFilter \notin Terms
    /\ MaxPending \in Nat \ {0}
    /\ PidsAreReused \in BOOLEAN
    /\ {MaxArrivals, MaxRelevance, MaxSelected} \subseteq Nat

VARIABLES
    process,     \* the device: the package each pid ran last
    deviceMap,   \* _pidToPackageCache of the device's repository
    updates,     \* what a refresh published and the tab has not yet heard
    learned,     \* _packageByPid of the tab's index
    filter,      \* _appliedFilters
    relevance,   \* _packageIndexRelevance
    dirty,       \* _logBufferFilterDirty
    stored,      \* _logsBuffer, each entry with its retention flag
    pending,     \* _pendingLogs
    arrived,     \* entries so far; an entry's id is its place among them
    cache,       \* _cachedFilteredLogs and the signature it was built under
    selection    \* _selectedRowIndices; history: the entry picked, and when

vars == <<process, deviceMap, updates, learned, filter, relevance, dirty,
          stored, pending, arrived, cache, selection>>

Mapping == [Pids -> Packages \cup {NoPackage}]

Nothing == [p \in Pids |-> NoPackage]

Entry == [id : 1 .. MaxArrivals, pid : Pids \cup {NoPid},
          own : Packages \cup {NoPackage}]

StoredEntry == [id : 1 .. MaxArrivals, pid : Pids \cup {NoPid},
                own : Packages \cup {NoPackage}, matches : BOOLEAN]

-----------------------------------------------------------------------------
(* The index and the filter.                                               *)

\* packageForPid: what the tab learned, else what the device's map says.
Known(index, device) ==
    [p \in Pids |-> IF index[p] # NoPackage THEN index[p] ELSE device[p]]

\* packageFilterCandidates.
Candidates(e, known) ==
    ({e.own} \cup {known[p] : p \in Pids \cap {e.pid}}) \ {NoPackage}

TermMatches(term, candidates) == (term.package \in candidates) # term.negate

\* _matchesLogFilters.
Accepts(f, e, known) == f = NoFilter \/ TermMatches(f, Candidates(e, known))

\* Deviation: learning never matters to a negated term.
BearsOnPositive(f, package) ==
    f # NoFilter /\ f.package = package /\ ~f.negate

\* _bearsOnPackageFilter.
BearsOn(f, package) ==
    f # NoFilter /\ TermMatches(f, {package}) # TermMatches(f, {})

\* PidPackageIndex.learn reports a mapping as new.
IsNew(index, pid, package) ==
    pid # NoPid /\ package # NoPackage /\ index[pid] # package

Learn(index, pid, package) ==
    IF IsNew(index, pid, package) THEN [index EXCEPT ![pid] = package]
    ELSE index

\* _appliedFilterSignature.
Signature(f, r) == [terms |-> f, relevance |-> IF f = NoFilter THEN 0 ELSE r]

-----------------------------------------------------------------------------
(* The buffer under the current filter.                                    *)

Flagged(e, f, known) ==
    [id |-> e.id, pid |-> e.pid, own |-> e.own,
     matches |-> f # NoFilter /\ Accepts(f, e, known)]

\* What LogBuffer leaves of es once it has evicted its overflow.
Settled(es, f) ==
    es \ CHOOSE vs \in SUBSET es : AreOverflow(vs, es, f)

Trimmed(es, f) ==
    es \ CHOOSE vs \in SUBSET es : AreVictims(vs, es, Target(f), f)

\* _syncLogBufferFilter.
Synced(f, known) == Settled({Flagged(e, f, known) : e \in stored}, f)

\* One append and the _reconcileFilteredCache after it; b is the buffer and
\* the ids in the cached list.
AppendOne(b, e, known) ==
    LET added == Flagged(e, filter, known)
        es == Settled(b.stored \cup {added}, filter)
        gone == {d.id : d \in (b.stored \cup {added}) \ es}
    IN  [stored |-> es,
         rows |-> (b.rows \ gone)
                  \cup {i \in {e.id} : Accepts(filter, e, known)},
         evicted |-> b.evicted \/ gone # {}]

IsCurrent(c, r) == c # NoCache /\ c.signature = Signature(filter, r)

\* Deviation: stale flags stay.
StaleIfDirty(isDirty, known) == stored

\* _syncLogBufferFilterIfDirty.
SyncedIfDirty(isDirty, known) == IF isDirty THEN Synced(filter, known) ELSE stored

\* Rows shift when one above them goes, so a selection does not survive that.
SelectionAfter(evicted) == IF evicted THEN {} ELSE selection

\* The buffer after each entry of the queue.
AfterEach(queue, start, known) ==
    LET after[n \in 0 .. Len(queue)] ==
            IF n = 0 THEN start ELSE AppendOne(after[n - 1], queue[n], known)
    IN  after

\* _flushPendingLogs and _appendImmediateLogEntry once the queue is taken:
\* re-flag if dirty, append one by one, drop the selection if anything went.
AppendAll(queue, isDirty, r, known) ==
    LET isKept == IsCurrent(cache, r)
        start == [stored |-> SyncedIfDirty(isDirty, known),
                  rows |-> IF isKept THEN cache.rows ELSE {}, evicted |-> FALSE]
        end == AfterEach(queue, start, known)[Len(queue)]
    IN  /\ stored' = end.stored
        /\ cache' = IF isKept THEN [cache EXCEPT !.rows = end.rows] ELSE cache
        /\ selection' = SelectionAfter(end.evicted)
        /\ dirty' = FALSE

QueueIsFull == Len(pending) >= MaxPending

-----------------------------------------------------------------------------
Init ==
    /\ process = Nothing /\ deviceMap = Nothing
    /\ updates = Nothing /\ learned = Nothing
    /\ filter = NoFilter
    /\ relevance = 0 /\ dirty = FALSE
    /\ stored = {} /\ pending = <<>> /\ arrived = 0
    /\ cache = NoCache
    /\ selection = {}

tab == <<learned, filter, relevance, dirty, stored, pending, arrived, cache,
         selection>>

\* A published refresh is heard in a microtask: lines the stream is delivering
\* may come before it, but no timer, no frame and no input of the user.
IsNextEvent == updates = Nothing

\* The device gives a pid to a process.  Whether it still runs shows only in
\* what a refresh lists.
Launch(pid, package) ==
    /\ process[pid] # NoPackage => PidsAreReused
    /\ process' = [process EXCEPT ![pid] = package]
    /\ UNCHANGED <<deviceMap, updates, tab>>

\* A line of some process, or of one that is gone, reaches the tab with what
\* the device's map said of its pid.  A paused tab learns from it and drops it.
Line(pid, paused) ==
    /\ arrived < MaxArrivals /\ relevance + 1 < MaxRelevance
    /\ process[pid] # NoPackage
    /\ LET entry == [id |-> arrived + 1, pid |-> pid, own |-> deviceMap[pid]]
           bears == IsNew(learned, pid, entry.own) /\ BearsOn(filter, entry.own)
           r == IF bears THEN relevance + 1 ELSE relevance
           isDirty == dirty \/ bears
       IN  /\ learned' = Learn(learned, pid, entry.own)
           /\ relevance' = r
           /\ IF paused
              THEN /\ dirty' = isDirty
                   /\ UNCHANGED <<pending, stored, cache, selection>>
              ELSE IF QueueIsFull
              THEN /\ AppendAll(pending, isDirty, r, Known(learned', deviceMap))
                   /\ pending' = <<entry>>
              ELSE /\ pending' = Append(pending, entry)
                   /\ dirty' = isDirty
                   /\ UNCHANGED <<stored, cache, selection>>
    /\ arrived' = arrived + 1
    /\ UNCHANGED <<process, deviceMap, updates, filter>>

\* A separator, tool error or session marker goes in at once, after the queue.
AppendImmediate ==
    /\ arrived < MaxArrivals
    /\ AppendAll(Append(pending, [id |-> arrived + 1, pid |-> NoPid,
                                  own |-> NoPackage]),
                 dirty, relevance, Known(learned, deviceMap))
    /\ pending' = <<>>
    /\ arrived' = arrived + 1
    /\ UNCHANGED <<process, deviceMap, updates, learned, filter, relevance>>

FlushPending ==
    /\ IsNextEvent
    /\ pending # <<>>
    /\ AppendAll(pending, dirty, relevance, Known(learned, deviceMap))
    /\ pending' = <<>>
    /\ UNCHANGED <<process, deviceMap, updates, learned, filter, relevance, arrived>>

\* A refresh of the device's map: it lists the processes that still run, and
\* none when the command fails; what it added or changed is published.
Listed(alive) == [p \in Pids |-> IF p \in alive THEN process[p] ELSE NoPackage]

Refresh(next) ==
    /\ IsNextEvent /\ relevance + 1 < MaxRelevance
    /\ deviceMap' = next
    /\ updates' = [p \in Pids |-> IF next[p] # deviceMap[p] THEN next[p]
                                  ELSE NoPackage]
    /\ UNCHANGED <<process, tab>>

\* _learnRefreshedPidPackages: the tab hears of it.
LearnRefreshed ==
    /\ updates # Nothing
    /\ learned' = [p \in Pids |-> IF updates[p] # NoPackage THEN updates[p]
                                  ELSE learned[p]]
    /\ IF \E p \in Pids : IsNew(learned, p, updates[p]) /\ BearsOn(filter, updates[p])
       THEN /\ relevance' = relevance + 1
            /\ stored' = Synced(filter, Known(learned', deviceMap))
            /\ dirty' = FALSE
       ELSE UNCHANGED <<relevance, stored, dirty>>
    /\ updates' = Nothing
    /\ UNCHANGED <<process, deviceMap, filter, pending, arrived, cache, selection>>

\* _applyFilterConfig and clearFilter.
ApplyFilter(f) ==
    /\ IsNextEvent
    /\ filter' = f
    /\ selection' = {}
    /\ stored' = Synced(f, Known(learned, deviceMap))
    /\ dirty' = FALSE
    /\ cache' = NoCache
    /\ UNCHANGED <<process, deviceMap, updates, learned, relevance, pending, arrived>>

\* The getter filteredLogs: the cached list, or a scan of the buffer.
Filtered ==
    IF IsCurrent(cache, relevance) THEN cache
    ELSE [signature |-> Signature(filter, relevance),
          rows |-> {e.id : e \in {d \in stored :
                       Accepts(filter, d, Known(learned, deviceMap))}}]

Rebuild ==
    /\ IsNextEvent
    /\ ~IsCurrent(cache, relevance)
    /\ cache' = Filtered
    /\ UNCHANGED <<process, deviceMap, updates, learned, filter, relevance, dirty,
                   stored, pending, arrived, selection>>

\* The list the user sees, top to bottom.
Rank(i, rows) == Cardinality({j \in rows : j <= i})

Sorted(rows) ==
    [row \in 1 .. Cardinality(rows) |-> CHOOSE i \in rows : Rank(i, rows) = row]

Rows == Sorted(Filtered.rows)

\* _isSelectableFilteredIndex; rows count from 1 here.
IsSelectable(row) ==
    \E e \in stored : e.id = Rows[row] /\ e.pid # NoPid

Selected(rows) ==
    {[row |-> i, entry |-> Rows[i], since |-> relevance] : i \in rows}

\* setSelectedRows.
SelectRows(rows) ==
    /\ IsNextEvent
    /\ Cardinality(rows) <= MaxSelected
    /\ cache' = Filtered
    /\ selection' = Selected({i \in rows : IsSelectable(i)})
    /\ UNCHANGED <<process, deviceMap, updates, learned, filter, relevance, dirty,
                   stored, pending, arrived>>

\* setRowSelected.
SetRowSelected(row, isSelected) ==
    /\ IsNextEvent
    /\ IsSelectable(row)
    /\ isSelected => Cardinality(selection) < MaxSelected
    /\ cache' = Filtered
    /\ selection' = {s \in selection : s.row # row}
                    \cup Selected({i \in {row} : isSelected})
    /\ UNCHANGED <<process, deviceMap, updates, learned, filter, relevance, dirty,
                   stored, pending, arrived>>

\* clearLogs; startLogcat does the same to a tab that captures again.
ClearLogs ==
    /\ IsNextEvent
    /\ selection' = {} /\ stored' = {} /\ pending' = <<>>
    /\ learned' = Nothing
    /\ cache' = NoCache
    /\ UNCHANGED <<process, deviceMap, updates, filter, relevance, dirty, arrived>>

\* submitLogLinesLimit, with the limit the tab has: _replaceStoredLogs records
\* every stored entry again, oldest first, into a new buffer and trims it.
SubmitLogLinesLimit ==
    /\ IsNextEvent
    /\ learned' = [p \in Pids |->
          LET own == {e \in stored : e.pid = p /\ e.own # NoPackage}
          IN  IF own = {} THEN learned[p]
              ELSE (CHOOSE e \in own : \A d \in own : d.id <= e.id).own]
    /\ LET known == Known(learned', deviceMap)
       IN  stored' = Trimmed({Flagged(e, filter, known) : e \in stored}, filter)
    /\ selection' = IF Cardinality(stored') < Cardinality(stored) THEN {}
                    ELSE selection
    /\ cache' = NoCache
    /\ UNCHANGED <<process, deviceMap, updates, filter, relevance, dirty, pending,
                   arrived>>

Next ==
    \/ \E pid \in Pids, package \in Packages : Launch(pid, package)
    \/ \E pid \in Pids, paused \in BOOLEAN : Line(pid, paused)
    \/ AppendImmediate
    \/ FlushPending
    \/ \E alive \in SUBSET Pids : Refresh(Listed(alive))
    \/ LearnRefreshed
    \/ \E f \in {NoFilter} \cup Terms : ApplyFilter(f)
    \/ Rebuild
    \/ \E rows \in SUBSET (1 .. Len(Rows)) : SelectRows(rows)
    \/ \E row \in 1 .. Len(Rows), isSelected \in BOOLEAN :
          SetRowSelected(row, isSelected)
    \/ ClearLogs
    \/ SubmitLogLinesLimit

Spec == Init /\ [][Next]_vars

-----------------------------------------------------------------------------
TypeOK ==
    /\ {process, deviceMap, updates, learned} \subseteq Mapping
    /\ filter \in {NoFilter} \cup Terms
    /\ relevance \in 0 .. MaxRelevance /\ dirty \in BOOLEAN
    /\ stored \subseteq StoredEntry
    /\ pending \in Seq(Entry) /\ Len(pending) <= MaxPending
    /\ arrived \in 0 .. MaxArrivals
    /\ cache \in {NoCache} \cup
          [signature : [terms : {NoFilter} \cup Terms, relevance : 0 .. MaxRelevance],
           rows : SUBSET (1 .. MaxArrivals)]
    /\ selection \subseteq [row : 1 .. MaxArrivals, entry : 1 .. MaxArrivals,
                            since : 0 .. MaxRelevance]

\* The filtered list is kept up entry by entry instead of being rebuilt: while
\* its signature is current it is what a scan of the buffer would find now,
\* with everything the tab and the device's map have learned since.  (What a
\* refresh published is heard before the next frame.)
CacheIsFresh ==
    updates = Nothing /\ IsCurrent(cache, relevance) =>
        cache.rows = {e.id : e \in {d \in stored :
                         Accepts(filter, d, Known(learned, deviceMap))}}

\* Retention flags lag behind what the tab learned only while it is marked
\* dirty, so the next append can repair them.
FlagsAwaitSync ==
    updates # Nothing \/ dirty \/ \A e \in stored :
        e.matches = (filter # NoFilter /\ Accepts(filter, e, Known(learned, deviceMap)))

\* A filter doubles the buffer to keep what it shows: an entry it accepts by
\* what the tab has heard is given up only when no entry it rejects stays of
\* those stored before.
NothingShownGoesFirst ==
    [][ updates = Nothing /\ filter' = filter /\ filter # NoFilter =>
          LET known == Known(learned', deviceMap')
              left == {e.id : e \in stored'}
          IN  \A d, e \in stored :
                 d.id \notin left /\ e.id \in left /\ Accepts(filter, d, known)
                     => Accepts(filter, e, known) ]_<<stored, arrived, filter>>

\* Rows are selected by index while lines stream in and old ones go: until the
\* tab learns something that bears on the filter, a selected index still holds
\* the entry the user picked.
SelectionIsStable ==
    \A s \in selection :
        updates = Nothing /\ s.since = relevance =>
            s.row <= Len(Rows) /\ Rows[s.row] = s.entry

\* The invariant of the tab: its cached list, its flags and its selection.
ViewInv == TypeOK /\ CacheIsFresh /\ FlagsAwaitSync /\ SelectionIsStable
=============================================================================
