---------------------------- MODULE LogEviction -----------------------------
(***************************************************************************)
(* Which entries a full log buffer gives up (lib/utils/log_buffer.dart):   *)
(* what LogBuffer and LogView share.                                       *)
(*                                                                         *)
(* A buffer is a set of entries with an id, by which they are ordered, and *)
(* a flag, whether the active filter accepts them.                         *)
(***************************************************************************)
EXTENDS Integers, FiniteSets

CONSTANTS
    NoFilter,       \* the null filter
    BaseCapacity    \* baseCapacity, the tab's line limit

ASSUME EvictionAssumption == BaseCapacity \in Nat \ {0}

\* _targetCapacity: baseCapacity, doubled while a filter is active.
Target(f) == IF f = NoFilter THEN BaseCapacity ELSE 2 * BaseCapacity

OverflowAllowance(f) ==
    LET allowance == (Target(f) * 20) \div 100
    IN  IF allowance > 0 THEN allowance ELSE 1

MaxBufferedSize(f) == Target(f) + OverflowAllowance(f)

\* Deviation: oldest first, whatever the filter.
GoesFirstByAge(d, e, f) == d.id < e.id

\* _evictOne takes d before e: while a filter is active non-matching entries
\* go before matching ones; among equals the oldest goes first.
GoesFirst(d, e, f) ==
    IF f # NoFilter /\ d.matches # e.matches THEN e.matches ELSE d.id < e.id

\* _evictUntilSize: vs are the entries its loop removes from es to leave at
\* most n.
AreVictims(vs, es, n, f) ==
    /\ Cardinality(vs) =
          IF Cardinality(es) > n THEN Cardinality(es) - n ELSE 0
    /\ \A d \in vs, e \in es \ vs : GoesFirst(d, e, f)

\* Deviation: one entry more than the allowance.
AreOverflowLate(vs, es, f) ==
    IF Cardinality(es) <= MaxBufferedSize(f) + 1 THEN vs = {}
    ELSE AreVictims(vs, es, Target(f), f)

\* _evictOverflowBatch: nothing up to maxBufferedSize, then down to the target.
AreOverflow(vs, es, f) ==
    IF Cardinality(es) <= MaxBufferedSize(f) THEN vs = {}
    ELSE AreVictims(vs, es, Target(f), f)

-----------------------------------------------------------------------------
(* The loop that finds the victims.                                        *)

\* _evictOne: the oldest non-matching entry while a filter is active, else the
\* oldest entry.
EvictOne(es, f) ==
    LET rejected == {e \in es : ~e.matches}
        pool == IF f # NoFilter /\ rejected # {} THEN rejected ELSE es
    IN  CHOOSE d \in pool : \A e \in pool : d.id <= e.id

\* _evictUntilSize: what each turn of its loop leaves of es.
EvictLoop(es, f) ==
    LET left[k \in 0 .. Cardinality(es)] ==
            IF k = 0 THEN es ELSE left[k - 1] \ {EvictOne(left[k - 1], f)}
    IN  left
=============================================================================
