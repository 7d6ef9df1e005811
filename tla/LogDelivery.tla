----------------------------- MODULE LogDelivery -----------------------------
(***************************************************************************)
(* What docs/LOG_STREAMING.md promises of a log stream, whatever the       *)
(* parser and its timers do: everything the device logged is shown once,   *)
(* in order (guarantees 2 and 3), and nothing is left behind when the tool *)
(* ends.                                                                   *)
(***************************************************************************)
EXTENDS Naturals, Sequences, SequencesExt

CONSTANT Item
VARIABLES accepted, shown, outcome

vars == <<accepted, shown, outcome>>

Init ==
    /\ accepted = <<>>
    /\ shown = <<>>
    /\ outcome = "open"

\* More of what was accepted may be shown, in the order in which it came.
ShowMore(all) == IsPrefix(shown, shown') /\ IsPrefix(shown', all)

Accept ==
    /\ outcome = "open"
    /\ \E x \in Item : accepted' = Append(accepted, x)
    /\ ShowMore(accepted')
    /\ UNCHANGED outcome

Show ==
    /\ outcome = "open"
    /\ ShowMore(accepted)
    /\ UNCHANGED <<accepted, outcome>>

\* The tool has ended: everything it printed is shown.
End ==
    /\ outcome = "open" /\ outcome' = "ended"
    /\ shown' = accepted
    /\ UNCHANGED accepted

\* The listener has left.
Leave ==
    /\ outcome = "open" /\ outcome' = "left"
    /\ UNCHANGED <<accepted, shown>>

Next == Accept \/ Show \/ End \/ Leave

Spec == Init /\ [][Next]_vars
=============================================================================
