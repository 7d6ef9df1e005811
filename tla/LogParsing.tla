----------------------------- MODULE LogParsing -----------------------------
(***************************************************************************)
(* From a log tool's lines to log entries: parseLogLines, with the parser  *)
(* it drives (LogcatParser for Android, IosSyslogParser for iOS).          *)
(*                                                                         *)
(* A line is its position in `fed`, the history of what the source has     *)
(* delivered; what the parser makes of its text is its kind.               *)
(***************************************************************************)
EXTENDS Naturals, Sequences, SequencesExt

CONSTANTS
    Platforms,        \* devices to look at: "android", "ios"
    NoEntry,          \* the null _currentEntry
    MaxFed,           \* bound: lines and errors of the source
    IncompleteTicks   \* logLineIncompleteEntryFlushDelay in idle intervals

ASSUME ParsingAssumption ==
    /\ Platforms \subseteq {"android", "ios"}
    /\ MaxFed \in Nat
    /\ IncompleteTicks \in Nat \ {0}

VARIABLES
    platform,  \* the device's, which decides the parser; never changes
    fed,       \* history: the kind of each line, and the header it belongs to
    owner,     \* history: that header, 0 if a separator came after it
    held,      \* _currentEntry
    flushed,   \* _flushedHeader, 0 for null
    out,       \* the events added to the controller
    timer,     \* idleFlushTimer, sawLineSinceTick and quietTicks
    source,    \* the subscription to the lines
    silence    \* history: ticks since the last line or resume

vars == <<platform, fed, owner, held, flushed, out, timer, source, silence>>

\* How a parser takes a line.  A status line is one idevicesyslog prints
\* itself; in `-v long` output a section separator is shown as a notice.
LineKinds == {"header", "text", "blank"}
             \cup IF platform = "android" THEN {"separator"} ELSE {"status"}

Positions == 1 .. MaxFed
Fed == [kind : LineKinds \cup {"error"}, of : 0 .. MaxFed]

Entry == [of : Positions, resumed : BOOLEAN, lines : Seq(Positions)]

ASSUME NullAssumption == NoEntry \notin Entry

\* An event: an entry, or what a separator or an error became.
Row == [kind : {"entry", "notice", "error"}, of : Positions,
        resumed : BOOLEAN, lines : Seq(Positions)]

TypeOK ==
    /\ platform \in Platforms
    /\ fed \in Seq(Fed) /\ Len(fed) <= MaxFed
    /\ owner \in 0 .. Len(fed)
    /\ held \in Entry \cup {NoEntry}
    /\ flushed \in 0 .. Len(fed)
    /\ out \in Seq(Row)
    /\ timer \in [on : BOOLEAN, saw : BOOLEAN, quiet : 0 .. IncompleteTicks]
    /\ source \in {"open", "paused", "done", "cancelled"}
    /\ silence \in 0 .. IncompleteTicks + 1

Fresh == [on |-> TRUE, saw |-> FALSE, quiet |-> 0]

Init ==
    /\ platform \in Platforms
    /\ fed = <<>> /\ owner = 0
    /\ held = NoEntry /\ flushed = 0
    /\ out = <<>>
    /\ timer = Fresh
    /\ source = "open"
    /\ silence = 0

-----------------------------------------------------------------------------
(* The entry builders.                                                     *)

IsBlank(n) == fed[n].kind = "blank"

\* Where build() cuts the lines: logcat's trailing blank lines go.
IsEnd(lines, end) ==
    IF platform = "android"
    THEN /\ end > 0 => ~IsBlank(lines[end])
         /\ \A k \in DOMAIN lines : k > end => IsBlank(lines[k])
    ELSE end = Len(lines)

\* build() gives null: a late footer under a header already shown.
IsDropped(e) == e.resumed /\ \A k \in DOMAIN e.lines : IsBlank(e.lines[k])

\* What build() makes of e: the one sequence of no or one rows in this set.
Built(e) ==
    IF e = NoEntry THEN {<<>>}
    ELSE IF IsDropped(e) THEN {<<>>}
    ELSE {<<[kind |-> "entry", of |-> e.of, resumed |-> e.resumed,
             lines |-> SubSeq(e.lines, 1, end)]>> :
             end \in {k \in 0 .. Len(e.lines) : IsEnd(e.lines, k)}}

Status ==
    IF held = NoEntry THEN "none"
    ELSE IF platform = "ios" THEN "complete"
    ELSE IF held.lines = <<>> THEN "awaitingBody"
    ELSE IF IsBlank(held.lines[Len(held.lines)]) THEN "complete"
    ELSE "incomplete"

-----------------------------------------------------------------------------
(* The parser: addLine and flush.                                          *)

\* A row that stands for the line or error at n.
Single(kind, n) == [kind |-> kind, of |-> n, resumed |-> FALSE, lines |-> <<>>]

Header(n) ==
    /\ \E rows \in Built(held) : out' = out \o rows
    /\ held' = [of |-> n, resumed |-> FALSE, lines |-> <<>>]
    /\ flushed' = 0

Separator(n) ==
    /\ \E rows \in Built(held) : out' = Append(out \o rows, Single("notice", n))
    /\ held' = NoEntry
    /\ flushed' = 0

\* Deviation: what follows the tool's line may carry on the entry before it.
ToolStatusThenBody ==
    /\ \E rows \in Built(held) : out' = out \o rows
    /\ held' = NoEntry
    /\ flushed' = IF held = NoEntry THEN flushed ELSE held.of

ToolStatus ==
    /\ \E rows \in Built(held) : out' = out \o rows
    /\ held' = NoEntry
    /\ flushed' = 0

\* A body line without an entry carries on the one last flushed, if any.
Body(n) ==
    /\ \/ /\ held # NoEntry
          /\ held' = [held EXCEPT !.lines = Append(@, n)]
       \/ /\ held = NoEntry /\ flushed # 0
          /\ held' = [of |-> flushed, resumed |-> TRUE, lines |-> <<n>>]
       \/ /\ held = NoEntry /\ flushed = 0
          /\ held' = held
    /\ UNCHANGED <<out, flushed>>

\* emitPending: what is held is shown, and after it the rows more.
Flush(more) ==
    /\ \E rows \in Built(held) : out' = out \o rows \o more
    /\ flushed' = IF held = NoEntry THEN flushed ELSE held.of
    /\ held' = NoEntry

-----------------------------------------------------------------------------
(* The driver: parseLogLines.                                              *)

\* The history after a line or an error of the source.
Record(kind) ==
    LET n == Len(fed) + 1
    IN  /\ n <= MaxFed
        /\ owner' = CASE kind = "header" -> n
                      [] kind \in {"separator", "status"} -> 0
                      [] OTHER -> owner
        /\ fed' = Append(fed, [kind |-> kind, of |-> owner'])

AddLine(kind) ==
    LET n == Len(fed) + 1
    IN  /\ source = "open"
        /\ Record(kind)
        /\ \/ kind = "header" /\ Header(n)
           \/ kind = "separator" /\ Separator(n)
           \/ kind = "status" /\ ToolStatus
           \/ kind \in {"text", "blank"} /\ Body(n)
        /\ timer' = [timer EXCEPT !.saw = TRUE]
        /\ silence' = 0
        /\ UNCHANGED <<platform, source>>

SourceError ==
    /\ source = "open"
    /\ Record("error")
    /\ Flush(<<Single("error", Len(fed) + 1)>>)
    /\ UNCHANGED <<platform, timer, source, silence>>

\* Deviation: a header alone is flushed too.
FlushDueHeader(quiet) == Status # "none" /\ quiet >= IncompleteTicks

FlushDue(quiet) ==
    \/ Status = "complete"
    \/ Status = "incomplete" /\ quiet >= IncompleteTicks

\* quietTicks and silence need not be counted past the values that matter.
OneMore(k, most) == IF k < most THEN k + 1 ELSE most

Tick ==
    LET quiet == OneMore(timer.quiet, IncompleteTicks)
    IN  /\ timer.on
        /\ silence' = OneMore(silence, IncompleteTicks + 1)
        /\ \/ /\ timer.saw
              /\ timer' = [timer EXCEPT !.saw = FALSE, !.quiet = 0]
              /\ UNCHANGED <<held, flushed, out>>
           \/ /\ ~timer.saw
              /\ timer' = [timer EXCEPT !.quiet = quiet]
              /\ \/ FlushDue(quiet) /\ Flush(<<>>)
                 \/ ~FlushDue(quiet) /\ UNCHANGED <<held, flushed, out>>
        /\ UNCHANGED <<platform, fed, owner, source>>

\* Deviation: the entry held when the tool ends is forgotten.
DoneDry ==
    /\ source = "open"
    /\ source' = "done"
    /\ timer' = [timer EXCEPT !.on = FALSE]
    /\ held' = NoEntry
    /\ UNCHANGED <<platform, fed, owner, flushed, out, silence>>

Done ==
    /\ source = "open"
    /\ source' = "done"
    /\ timer' = [timer EXCEPT !.on = FALSE]
    /\ Flush(<<>>)
    /\ UNCHANGED <<platform, fed, owner, silence>>

\* A consumer's `await for` pauses the stream while it handles an entry.  The
\* source keeps its lines, its errors and its end for the resume.
Pause ==
    /\ source = "open"
    /\ source' = "paused"
    /\ timer' = [timer EXCEPT !.on = FALSE]
    /\ UNCHANGED <<platform, fed, owner, held, flushed, out, silence>>

Resume ==
    /\ source = "paused"
    /\ source' = "open"
    /\ timer' = Fresh
    /\ silence' = 0
    /\ UNCHANGED <<platform, fed, owner, held, flushed, out>>

Cancel ==
    /\ source \in {"open", "paused"}
    /\ source' = "cancelled"
    /\ timer' = [timer EXCEPT !.on = FALSE]
    /\ UNCHANGED <<platform, fed, owner, held, flushed, out, silence>>

Next ==
    \/ \E kind \in LineKinds : AddLine(kind)
    \/ SourceError \/ Tick \/ Done \/ Pause \/ Resume \/ Cancel

Spec == Init /\ [][Next]_vars

-----------------------------------------------------------------------------
(* Properties.                                                             *)

\* What the stream owes its listener: headers, separators, errors, and the
\* text that follows a header.  A blank line where an entry was split may go,
\* and so may lines that no header claims.
IsOwed(n) ==
    \/ fed[n].kind \in {"header", "separator", "error"}
    \/ fed[n].kind = "text" /\ fed[n].of # 0

\* Guarantees 1 and 4, "blank lines inside it kept" and "two messages are never
\* merged": the lines of a row are consecutive lines of the source, and follow
\* the header the row is shown under with no other header or separator in
\* between.
LinesKeepTheirHeader ==
    \A r \in DOMAIN out : \A k \in DOMAIN out[r].lines :
        /\ fed[out[r].lines[k]].of = out[r].of
        /\ k > 1 => out[r].lines[k] = out[r].lines[k - 1] + 1

\* Guarantee 6, "bounded latency": while the stream is not paused, an entry
\* that looks whole is held for at most one tick without a line, one that
\* looks cut off for at most IncompleteTicks.
LatencyIsBounded ==
    source = "open" =>
        /\ Status = "complete" => silence <= 1
        /\ Status = "incomplete" => silence <= IncompleteTicks

\* The invariant of the parser and its rows.
ParserInv == TypeOK /\ LinesKeepTheirHeader /\ LatencyIsBounded

\* A header whose body has not come is never flushed for being idle, which
\* would show its message as a second row: only another line, an error or the
\* end of the source takes it out of the parser.
HeaderAwaitsItsBody ==
    [][ (Status = "awaitingBody" /\ fed' = fed /\ source' # "done")
        => held' = held ]_vars

\* The lines a row or an entry stands for, in their order.
Items(e) == IF e.resumed THEN e.lines ELSE <<e.of>> \o e.lines

Owed == {n \in DOMAIN fed : IsOwed(n)}

\* What of s is in T, in its order: SelectSeq as a function, which a proof can
\* unfold.
Among(s, T) ==
    LET kept[i \in 0 .. Len(s)] ==
          IF i = 0 THEN <<>>
          ELSE IF s[i] \in T THEN Append(kept[i - 1], s[i]) ELSE kept[i - 1]
    IN  kept[Len(s)]

Accepted == Among([n \in DOMAIN fed |-> n], Owed)

Shown == Among(FlattenSeq([r \in DOMAIN out |-> Items(out[r])]), Owed)

Outcome == CASE source = "done" -> "ended"
             [] source = "cancelled" -> "left"
             [] OTHER -> "open"

\* The stream, blank lines aside, delivers as LogDelivery promises.
Delivery == INSTANCE LogDelivery
    WITH Item <- Positions, accepted <- Accepted, shown <- Shown, outcome <- Outcome

DeliversAsPromised == Delivery!Spec
=============================================================================
