----------------------------- MODULE LogBuffer ------------------------------
(***************************************************************************)
(* The bounded store of a log tab: LogBuffer of lib/utils/log_buffer.dart. *)
(*                                                                         *)
(* An entry is identified by its place in the sequence of all appends, so  *)
(* the queue is a set of entries ordered by id.  A filter is the set of    *)
(* kinds it accepts.                                                       *)
(***************************************************************************)
EXTENDS LogEviction

CONSTANTS
    Kinds,          \* what a filter can tell apart in a log entry
    MaxAppends      \* bound on the number of appends

ASSUME LogBufferAssumption ==
    /\ MaxAppends \in Nat
    /\ \A f \in SUBSET Kinds : f # NoFilter

VARIABLES
    entries,        \* the queue: [id, kind, matches]
    activeFilter,   \* _activeFilter
    evicted,        \* what the last call returned as evicted
    appended        \* appends so far

bufferVars == <<entries, activeFilter, evicted, appended>>

BufferEntry == [id : 1 .. MaxAppends, kind : Kinds, matches : BOOLEAN]

Matches(f, kind) == f # NoFilter /\ kind \in f

Reflagged(es, f) == {[e EXCEPT !.matches = Matches(f, e.kind)] : e \in es}

-----------------------------------------------------------------------------
BufferInit ==
    /\ entries = {}
    /\ activeFilter = NoFilter
    /\ evicted = {}
    /\ appended = 0

\* Deviation: trims to capacity, as when the limit changes.
SetFilterTrims(f) ==
    /\ activeFilter' = f
    /\ LET es == Reflagged(entries, f)
       IN  \E vs \in SUBSET es : /\ AreVictims(vs, es, Target(f), f)
                                 /\ entries' = es \ vs /\ evicted' = vs
    /\ UNCHANGED appended

SetFilter(f) ==
    /\ activeFilter' = f
    /\ LET es == Reflagged(entries, f)
       IN  \E vs \in SUBSET es :
             AreOverflow(vs, es, f) /\ entries' = es \ vs /\ evicted' = vs
    /\ UNCHANGED appended

AppendLog(kind) ==
    /\ appended < MaxAppends
    /\ appended' = appended + 1
    /\ LET es == entries \cup {[id |-> appended + 1, kind |-> kind,
                                matches |-> Matches(activeFilter, kind)]}
       IN  \E vs \in SUBSET es :
             AreOverflow(vs, es, activeFilter) /\ entries' = es \ vs /\ evicted' = vs
    /\ UNCHANGED activeFilter

TrimToCapacity ==
    /\ \E vs \in SUBSET entries :
          /\ AreVictims(vs, entries, Target(activeFilter), activeFilter)
          /\ entries' = entries \ vs
          /\ evicted' = vs
    /\ UNCHANGED <<activeFilter, appended>>

Clear ==
    /\ entries' = {}
    /\ evicted' = {}
    /\ UNCHANGED <<activeFilter, appended>>

BufferNext ==
    \/ \E f \in {NoFilter} \cup SUBSET Kinds : SetFilter(f)
    \/ \E kind \in Kinds : AppendLog(kind)
    \/ TrimToCapacity
    \/ Clear

BufferSpec == BufferInit /\ [][BufferNext]_bufferVars

-----------------------------------------------------------------------------
BufferTypeOK ==
    /\ entries \subseteq BufferEntry /\ IsFiniteSet(entries)
    /\ activeFilter \in {NoFilter} \cup SUBSET Kinds
    /\ evicted \subseteq BufferEntry
    /\ appended \in 0 .. MaxAppends

\* Eviction goes by current flags: an entry is flagged exactly when the active
\* filter accepts it, also the entries stored before the filter was set.
FlagsAreCurrent == \A e \in entries : e.matches = Matches(activeFilter, e.kind)

\* One entry per append, and none from the future.
IdsAreAppends ==
    /\ \A e \in entries : e.id <= appended
    /\ \A d, e \in entries : d.id = e.id => d = e

\* The memory bound the tab's line limit promises: between calls the buffer
\* never holds more than maxBufferedSize entries, whatever filters came and
\* went, a halved capacity included.
SizeIsBounded == Cardinality(entries) <= MaxBufferedSize(activeFilter)

\* The buffer's invariant but for its size.
BufferInv == BufferTypeOK /\ FlagsAreCurrent /\ IdsAreAppends

\* AreVictims says what the loop of _evictUntilSize removes, one entry at a
\* time, from any reachable buffer down to any size, and nothing else.
VictimsAreTheLoops ==
    \A n \in 0 .. Cardinality(entries) :
        {vs \in SUBSET entries : AreVictims(vs, entries, n, activeFilter)}
            = {entries \ EvictLoop(entries, activeFilter)[Cardinality(entries) - n]}

\* What a filter is for: while one is active an entry it accepts is given up
\* only when no entry it rejects is left.
MatchingGoLast ==
    [][ activeFilter' # NoFilter /\ (\E e \in evicted' : e.matches)
          => \A e \in entries' : e.matches ]_bufferVars

\* "Same filter, so capacity is unchanged and this only re-flags -- it never
\* evicts" (_applyRelevantPidPackage of log_controller.dart): replacing a filter
\* by another one gives up no entry.
ReflaggingKeepsAll ==
    [][ \A f \in SUBSET Kinds :
          activeFilter # NoFilter /\ SetFilter(f) => evicted' = {} ]_bufferVars
=============================================================================
