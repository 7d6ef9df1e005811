-------------------------- MODULE LogParsingProofs ---------------------------
(***************************************************************************)
(* For any number of lines of either platform and any delay of the idle    *)
(* flush: the rows of a log keep to their headers, what is held is shown   *)
(* soon, a header waits for its body, and LogParsing implements            *)
(* LogDelivery.                                                            *)
(*                                                                         *)
(* ParserInv is not inductive: a row is built from the entry held, and an  *)
(* entry is carried on from the header last flushed.  So both must belong  *)
(* to the header that owns the next line, and the lines held must end with *)
(* the last line fed.  For the latency, what counts ticks without a line   *)
(* is as large as the silence for as long as something is held.            *)
(*                                                                         *)
(* For the refinement, what was accepted is at all times what is shown     *)
(* followed by what is held (Whole): every step keeps this, shows only     *)
(* what was held or has just come, and the last one holds nothing back.    *)
(***************************************************************************)
EXTENDS LogParsing, SequenceTheorems, WellFoundedInduction, TLAPS

\* Lines of f, one after the other, under one header.
Claims(header, lines, f) ==
    \A k \in 1 .. Len(lines) :
        /\ lines[k] \in 1 .. Len(f) /\ f[lines[k]].of = header
        /\ k > 1 => lines[k] = lines[k - 1] + 1

\* Entries and rows that keep to their header.
EntriesOf(f) == {e \in Entry : Claims(e.of, e.lines, f)}
RowsOf(f)    == {r \in Row : Claims(r.of, r.lines, f)}

Feed ==
    /\ platform \in Platforms
    /\ fed \in Seq(Fed) /\ Len(fed) <= MaxFed /\ owner \in 0 .. Len(fed)
    /\ source \in {"open", "paused", "done", "cancelled"}

Clock ==
    /\ timer \in [on : BOOLEAN, saw : BOOLEAN, quiet : 0 .. IncompleteTicks]
    /\ silence \in 0 .. IncompleteTicks + 1

\* The entry held, and the header last flushed, are those of the next line.
HeldIsCurrent ==
    held # NoEntry =>
        /\ held \in EntriesOf(fed) /\ held.of = owner
        /\ held.lines # <<>> => held.lines[Len(held.lines)] = Len(fed)

FlushedIsCurrent == flushed # 0 => flushed = owner

TimerIsCurrent ==
    source = "open" =>
        /\ timer.saw => silence = 0
        /\ Status = "complete" => silence <= 1
        /\ Status = "incomplete" /\ ~timer.saw =>
              silence <= timer.quiet + 1 /\ timer.quiet < IncompleteTicks

Inv ==
    /\ Feed /\ Clock /\ TimerIsCurrent
    /\ HeldIsCurrent
    /\ flushed \in 0 .. Len(fed) /\ FlushedIsCurrent
    /\ out \in Seq(RowsOf(fed))

-----------------------------------------------------------------------------
(* Lines and rows.                                                         *)

\* What keeps to its header does so when more is fed.
LEMMA ClaimsGrow ==
    ASSUME NEW S, NEW f \in Seq(S), NEW x \in S, NEW header, NEW lines \in Seq(Positions),
           Claims(header, lines, f)
    PROVE  Claims(header, lines, Append(f, x))
<1>1. Len(Append(f, x)) = Len(f) + 1 /\ Len(f) \in Nat
      /\ \A k \in 1 .. Len(f) : Append(f, x)[k] = f[k]
  OBVIOUS
<1>. QED  BY <1>1 DEF Claims

LEMMA RowsGrow ==
    ASSUME NEW S, NEW f \in Seq(S), NEW x \in S
    PROVE  /\ RowsOf(f) \subseteq RowsOf(Append(f, x))
           /\ EntriesOf(f) \subseteq EntriesOf(Append(f, x))
<1>1. \A r \in Row : r.lines \in Seq(Positions)
  BY DEF Row
<1>2. \A e \in Entry : e.lines \in Seq(Positions)
  BY DEF Entry
<1>. QED  BY <1>1, <1>2, ClaimsGrow DEF RowsOf, EntriesOf

\* The next line joins the lines that end with the last one.
LEMMA ClaimsNext ==
    ASSUME NEW S, NEW f \in Seq(S), NEW x \in S, NEW header, NEW lines \in Seq(Positions),
           Claims(header, lines, f), x.of = header,
           lines # <<>> => lines[Len(lines)] = Len(f)
    PROVE  Claims(header, Append(lines, Len(f) + 1), Append(f, x))
<1>. DEFINE g == Append(f, x)
            n == Len(f) + 1
            l == Append(lines, n)
<1>1. Claims(header, lines, g)
  BY ClaimsGrow
<1>2. Len(g) = n /\ g[n] = x /\ n \in Nat /\ n > 0
  OBVIOUS
<1>3. Len(l) = Len(lines) + 1 /\ Len(lines) \in Nat /\ l[Len(lines) + 1] = n
      /\ \A k \in 1 .. Len(lines) : l[k] = lines[k]
  OBVIOUS
<1>4. Len(lines) > 0 => lines[Len(lines)] + 1 = n
  <2>1. Len(lines) > 0 => lines # <<>>
    OBVIOUS
  <2>. QED  BY <2>1
<1>. HIDE DEF g, n, l
<1>5. ASSUME NEW k \in 1 .. Len(l)
      PROVE  l[k] \in 1 .. Len(g) /\ g[l[k]].of = header /\ (k > 1 => l[k] = l[k - 1] + 1)
  <2>1. CASE k <= Len(lines)
    <3>1. k \in 1 .. Len(lines) /\ l[k] = lines[k] /\ (k > 1 => l[k - 1] = lines[k - 1])
      BY <1>3, <2>1
    <3>. QED  BY <1>1, <3>1 DEF Claims
  <2>2. CASE k = Len(lines) + 1
    <3>1. l[k] = n /\ (k > 1 => l[k - 1] = lines[Len(lines)] /\ Len(lines) > 0)
      BY <1>3, <2>2
    <3>. QED  BY <1>2, <1>4, <3>1
  <2>. QED  BY <1>3, <2>1, <2>2
<1>6. Claims(header, l, g)
  BY <1>5 DEF Claims
<1>. QED  BY <1>6 DEF g, n, l

LEMMA OneLine ==
    ASSUME NEW S, NEW f \in Seq(S), NEW x \in S, NEW header, x.of = header
    PROVE  Claims(header, <<Len(f) + 1>>, Append(f, x))
BY DEF Claims

\* build() gives rows of the header whose entry it is given.
LEMMA BuiltRows ==
    ASSUME NEW e, e # NoEntry => e \in EntriesOf(fed), NEW rows \in Built(e)
    PROVE  rows \in Seq(RowsOf(fed))
<1>1. CASE rows = <<>>
  BY <1>1
<1>2. CASE rows # <<>>
  <2>1. e # NoEntry /\ e \in Entry /\ Claims(e.of, e.lines, fed)
    BY <1>2 DEF Built, EntriesOf
  <2>. DEFINE row(end) == [kind |-> "entry", of |-> e.of, resumed |-> e.resumed,
                           lines |-> SubSeq(e.lines, 1, end)]
  <2>2. PICK end \in 0 .. Len(e.lines) : rows = <<row(end)>>
    BY <1>2, <2>1 DEF Built
  <2>3. e.lines \in Seq(Positions) /\ e.of \in Positions /\ e.resumed \in BOOLEAN
    BY <2>1 DEF Entry
  <2>4. /\ SubSeq(e.lines, 1, end) \in Seq(Positions)
        /\ Len(SubSeq(e.lines, 1, end)) = end
        /\ \A k \in 1 .. end : SubSeq(e.lines, 1, end)[k] = e.lines[k]
    BY <2>2, <2>3
  <2>5. Claims(e.of, SubSeq(e.lines, 1, end), fed)
    BY <2>1, <2>2, <2>3, <2>4 DEF Claims
  <2>6. row(end) \in RowsOf(fed)
    BY <2>3, <2>4, <2>5 DEF RowsOf, Row
  <2>. QED  BY <2>2, <2>6
<1>. QED  BY <1>1, <1>2

\* A line that stands for itself has no lines to claim.
LEMMA SingleRow ==
    ASSUME NEW kind \in {"notice", "error"}, NEW n \in Positions, NEW f
    PROVE  Single(kind, n) \in RowsOf(f)
BY DEF Single, RowsOf, Row, Claims

-----------------------------------------------------------------------------
LEMMA InitInv == Init => Inv
<1>. SUFFICES ASSUME Init PROVE Inv
  OBVIOUS
<1>1. Feed
  BY ParsingAssumption DEF Init, Feed
<1>2. Clock
  BY ParsingAssumption DEF Init, Clock, Fresh
<1>3. out \in Seq(RowsOf(fed))
  BY DEF Init
<1>. QED  BY <1>1, <1>2, <1>3
          DEF Init, Inv, TimerIsCurrent, HeldIsCurrent, FlushedIsCurrent, Fresh, Status

\* The source says something: what it is, and whose.
LEMMA Recorded ==
    ASSUME Inv, NEW kind \in LineKinds \cup {"error"}, Record(kind), UNCHANGED <<platform, source>>
    PROVE  /\ Feed' /\ Len(fed') = Len(fed) + 1 /\ fed' # fed
           /\ \E x \in Fed : fed' = Append(fed, x) /\ x.of = owner'
           /\ RowsOf(fed) \subseteq RowsOf(fed') /\ EntriesOf(fed) \subseteq EntriesOf(fed')
           /\ Len(fed) + 1 \in Positions
           /\ kind = "header" => owner' = Len(fed) + 1
           /\ kind \in {"text", "blank", "error"} => owner' = owner
<1>. DEFINE n == Len(fed) + 1
            x == [kind |-> kind, of |-> owner']
<1>1. /\ fed \in Seq(Fed) /\ Len(fed) \in Nat /\ n <= MaxFed /\ MaxFed \in Nat
      /\ owner \in 0 .. Len(fed)
  BY ParsingAssumption DEF Inv, Feed, Record
<1>2. /\ owner' \in {n, 0, owner} /\ (kind = "header" => owner' = n)
      /\ (kind \in {"text", "blank", "error"} => owner' = owner)
      /\ fed' = Append(fed, x)
  BY DEF Record
<1>3. x \in Fed
  BY <1>1, <1>2 DEF Fed
<1>4. RowsOf(fed) \subseteq RowsOf(fed') /\ EntriesOf(fed) \subseteq EntriesOf(fed')
  BY <1>1, <1>2, <1>3, RowsGrow
<1>5. Fed' = Fed
  BY DEF Fed, LineKinds
<1>. HIDE DEF x
<1>6. fed' \in Seq(Fed') /\ Len(fed') = n /\ fed' # fed
  BY <1>1, <1>2, <1>3, <1>5
<1>7. Feed'
  BY <1>1, <1>2, <1>6 DEF Inv, Feed
<1>8. x.of = owner'
  BY DEF x
<1>. QED  BY <1>1, <1>2, <1>3, <1>4, <1>6, <1>7, <1>8 DEF Positions

\* A line comes: it is not silent.
LEMMA LineStep == ASSUME Inv, NEW kind \in LineKinds, AddLine(kind) PROVE Inv'
<1>. DEFINE n == Len(fed) + 1
<1>0. PICK x \in Fed : fed' = Append(fed, x) /\ x.of = owner'
  BY Recorded DEF AddLine
<1>1. /\ Feed' /\ Len(fed') = n /\ n \in Positions /\ fed \in Seq(Fed) /\ Len(fed) \in Nat
      /\ RowsOf(fed) \subseteq RowsOf(fed') /\ EntriesOf(fed) \subseteq EntriesOf(fed')
      /\ kind = "header" => owner' = n
      /\ kind \in {"text", "blank"} => owner' = owner
  BY Recorded DEF AddLine, Inv, Feed
<1>2. Clock' /\ TimerIsCurrent'
  <2>1. timer' = [timer EXCEPT !.saw = TRUE] /\ silence' = 0
    BY DEF AddLine
  <2>2. Clock'
    <3>1. timer' \in [on : BOOLEAN, saw : BOOLEAN, quiet : 0 .. IncompleteTicks]
      BY <2>1 DEF Inv, Clock
    <3>2. silence' \in 0 .. IncompleteTicks + 1
      BY <2>1, ParsingAssumption
    <3>. QED  BY <3>1, <3>2 DEF Clock
  <2>3. timer'.saw
    BY <2>1 DEF Inv, Clock
  <2>. QED  BY <2>1, <2>2, <2>3 DEF TimerIsCurrent
<1>. HIDE DEF n
<1>3. ASSUME NEW rows \in Built(held) PROVE rows \in Seq(RowsOf(fed'))
  <2>1. held # NoEntry => held \in EntriesOf(fed)
    BY DEF Inv, HeldIsCurrent
  <2>2. rows \in Seq(RowsOf(fed))
    BY <2>1, BuiltRows
  <2>. QED  BY <1>1, <2>2
<1>4. out \in Seq(RowsOf(fed'))
  BY <1>1 DEF Inv
<1>5. CASE kind = "header" /\ Header(n)
  <2>1. out' \in Seq(RowsOf(fed'))
    BY <1>3, <1>4, <1>5 DEF Header
  <2>2. held' = [of |-> n, resumed |-> FALSE, lines |-> <<>>] /\ flushed' = 0
    BY <1>5 DEF Header
  <2>3. held' \in EntriesOf(fed')
    BY <1>1, <2>2 DEF EntriesOf, Entry, Claims
  <2>4. HeldIsCurrent'
    BY <1>1, <1>5, <2>2, <2>3 DEF HeldIsCurrent
  <2>. QED  BY <1>1, <1>2, <2>1, <2>2, <2>4 DEF Inv, FlushedIsCurrent
<1>6. CASE Separator(n) \/ ToolStatus
  <2>1. out' \in Seq(RowsOf(fed'))
    <3>1. Single("notice", n) \in RowsOf(fed')
      BY <1>1, SingleRow
    <3>2. CASE Separator(n)
      <4>1. PICK rows \in Built(held) : out' = Append(out \o rows, Single("notice", n))
        BY <3>2 DEF Separator
      <4>2. out \o rows \in Seq(RowsOf(fed'))
        BY <1>3, <1>4
      <4>. QED  BY <3>1, <4>1, <4>2
    <3>3. CASE ToolStatus
      BY <1>3, <1>4, <3>3 DEF ToolStatus
    <3>. QED  BY <1>6, <3>2, <3>3
  <2>2. held' = NoEntry /\ flushed' = 0
    BY <1>6 DEF Separator, ToolStatus
  <2>. QED  BY <1>1, <1>2, <2>1, <2>2 DEF Inv, FlushedIsCurrent, HeldIsCurrent
<1>7. CASE kind \in {"text", "blank"} /\ Body(n)
  <2>1. out' = out /\ flushed' = flushed /\ owner' = owner
    BY <1>1, <1>7 DEF Body
  <2>2. flushed' \in 0 .. Len(fed') /\ FlushedIsCurrent'
    BY <1>1, <2>1 DEF Inv, FlushedIsCurrent, n
  <2>3. HeldIsCurrent'
    <3>1. CASE held # NoEntry
      <4>1. /\ held' = [held EXCEPT !.lines = Append(@, n)]
            /\ held \in Entry /\ Claims(held.of, held.lines, fed) /\ held.of = owner
            /\ held.lines # <<>> => held.lines[Len(held.lines)] = Len(fed)
        BY <1>7, <3>1 DEF Body, Inv, HeldIsCurrent, EntriesOf
      <4>2. held.lines \in Seq(Positions)
        BY <4>1 DEF Entry
      <4>3. /\ held'.lines = Append(held.lines, n) /\ held'.of = owner /\ held' \in Entry
        <5>1. Append(held.lines, n) \in Seq(Positions)
          BY <1>1, <4>2
        <5>2. held' = [of |-> held.of, resumed |-> held.resumed, lines |-> Append(held.lines, n)]
              /\ held.of \in Positions /\ held.resumed \in BOOLEAN
          BY <4>1 DEF Entry
        <5>. QED  BY <4>1, <5>1, <5>2 DEF Entry
      <4>4. Claims(owner, Append(held.lines, n), fed')
        BY <1>0, <1>1, <2>1, <4>1, <4>2, ClaimsNext DEF n
      <4>5. held'.lines[Len(held'.lines)] = Len(fed')
        BY <1>1, <4>2, <4>3
      <4>. QED  BY <2>1, <4>3, <4>4, <4>5 DEF HeldIsCurrent, EntriesOf
    <3>2. CASE held = NoEntry /\ flushed # 0
      <4>1. held' = [of |-> flushed, resumed |-> TRUE, lines |-> <<n>>]
        BY <1>7, <3>2 DEF Body
      <4>2. flushed \in Positions /\ flushed = owner
        BY <1>1, <3>2, ParsingAssumption DEF Inv, FlushedIsCurrent, Positions, n
      <4>3. Claims(owner, <<n>>, fed')
        BY <1>0, <1>1, <2>1, OneLine DEF n
      <4>4. held' \in Entry
        BY <1>1, <4>1, <4>2 DEF Entry
      <4>. QED  BY <1>1, <2>1, <4>1, <4>2, <4>3, <4>4 DEF HeldIsCurrent, EntriesOf
    <3>3. CASE held = NoEntry /\ flushed = 0
      BY <1>7, <3>3 DEF Body, HeldIsCurrent
    <3>. QED  BY <3>1, <3>2, <3>3
  <2>. QED  BY <1>1, <1>2, <1>4, <2>1, <2>2, <2>3 DEF Inv
<1>. QED  BY <1>5, <1>6, <1>7 DEF AddLine, n

\* What is held is shown, and its header is the one to carry on.
LEMMA Flushed ==
    ASSUME Inv, NEW more, Flush(more)
    PROVE  /\ held' = NoEntry
           /\ flushed' \in 0 .. Len(fed) /\ (flushed' # 0 => flushed' = owner)
           /\ \E rows \in Seq(RowsOf(fed)) : out' = out \o rows \o more
<1>1. held # NoEntry => held \in EntriesOf(fed) /\ held.of = owner
  BY DEF Inv, HeldIsCurrent
<1>2. PICK rows \in Built(held) : out' = out \o rows \o more
  BY DEF Flush
<1>3. rows \in Seq(RowsOf(fed))
  BY <1>1, BuiltRows
<1>4. held' = NoEntry /\ flushed' = IF held = NoEntry THEN flushed ELSE held.of
  BY DEF Flush
<1>. QED  BY <1>1, <1>2, <1>3, <1>4 DEF Inv, FlushedIsCurrent, Feed

LEMMA ErrorStep == ASSUME Inv, SourceError PROVE Inv'
<1>. DEFINE more == <<Single("error", Len(fed) + 1)>>
<1>1. /\ Feed' /\ Len(fed') = Len(fed) + 1 /\ Len(fed) + 1 \in Positions
      /\ RowsOf(fed) \subseteq RowsOf(fed') /\ owner' = owner
  BY Recorded DEF SourceError
<1>2. /\ held' = NoEntry
      /\ flushed' \in 0 .. Len(fed) /\ (flushed' # 0 => flushed' = owner)
      /\ \E rows \in Seq(RowsOf(fed)) : out' = out \o rows \o more
  BY Flushed DEF SourceError
<1>3. more \in Seq(RowsOf(fed'))
  BY <1>1, SingleRow
<1>. HIDE DEF more
<1>4. out' \in Seq(RowsOf(fed'))
  <2>1. PICK rows \in Seq(RowsOf(fed)) : out' = out \o rows \o more
    BY <1>2
  <2>2. out \in Seq(RowsOf(fed')) /\ rows \in Seq(RowsOf(fed'))
    BY <1>1 DEF Inv
  <2>. QED  BY <1>3, <2>1, <2>2
<1>5. Clock' /\ TimerIsCurrent'
  <2>1. UNCHANGED <<platform, timer, source, silence>>
    BY DEF SourceError
  <2>2. Status' = "none"
    BY <1>2 DEF Status
  <2>. QED  BY <2>1, <2>2 DEF Inv, Clock, TimerIsCurrent
<1>6. flushed' \in 0 .. Len(fed')
  BY <1>1, <1>2 DEF Inv, Feed
<1>. QED  BY <1>1, <1>2, <1>4, <1>5, <1>6 DEF Inv, HeldIsCurrent, FlushedIsCurrent

\* A flush alone: nothing is fed.
LEMMA FlushStep ==
    ASSUME Inv, Flush(<<>>), UNCHANGED <<platform, fed, owner>>, Feed'
    PROVE  /\ HeldIsCurrent' /\ flushed' \in 0 .. Len(fed') /\ FlushedIsCurrent'
           /\ out' \in Seq(RowsOf(fed')) /\ Status' = "none"
<1>1. /\ held' = NoEntry
      /\ flushed' \in 0 .. Len(fed) /\ (flushed' # 0 => flushed' = owner)
      /\ \E rows \in Seq(RowsOf(fed)) : out' = out \o rows \o <<>>
  BY Flushed
<1>2. out' \in Seq(RowsOf(fed))
  BY <1>1 DEF Inv
<1>. QED  BY <1>1, <1>2 DEF HeldIsCurrent, FlushedIsCurrent, Status

LEMMA TickStep == ASSUME Inv, Tick PROVE Inv'
<1>. DEFINE quiet == OneMore(timer.quiet, IncompleteTicks)
<1>0. IncompleteTicks \in Nat \ {0}
  BY ParsingAssumption
<1>1. /\ timer.saw \in BOOLEAN /\ timer.quiet \in 0 .. IncompleteTicks
      /\ timer = [on |-> timer.on, saw |-> timer.saw, quiet |-> timer.quiet]
      /\ timer.on \in BOOLEAN /\ silence \in 0 .. IncompleteTicks + 1
  BY DEF Inv, Clock
<1>2. /\ quiet \in 0 .. IncompleteTicks
      /\ timer.quiet < IncompleteTicks => quiet = timer.quiet + 1
      /\ silence' \in 0 .. IncompleteTicks + 1 /\ silence' <= silence + 1
  BY <1>0, <1>1 DEF OneMore, Tick
<1>. HIDE DEF quiet
<1>3. UNCHANGED <<platform, fed, owner, source>> /\ Feed'
  BY DEF Tick, Inv, Feed, Fed, LineKinds
<1>4. CASE timer.saw
  <2>1. /\ timer' = [timer EXCEPT !.saw = FALSE, !.quiet = 0]
        /\ UNCHANGED <<held, flushed, out>>
    BY <1>4 DEF Tick
  <2>2. Clock' /\ timer'.quiet = 0
    <3>1. timer' = [on |-> timer.on, saw |-> FALSE, quiet |-> 0]
      BY <1>1, <2>1 DEF Inv, Clock
    <3>2. 0 \in 0 .. IncompleteTicks
      BY <1>0
    <3>3. timer' \in [on : BOOLEAN, saw : BOOLEAN, quiet : 0 .. IncompleteTicks]
      BY <1>1, <3>1, <3>2
    <3>. QED  BY <1>2, <3>1, <3>3 DEF Clock
  <2>3. source = "open" => silence' <= 1
    BY <1>1, <1>2, <1>4 DEF Inv, TimerIsCurrent
  <2>4. ~timer'.saw
    BY <1>1, <2>1 DEF Inv, Clock
  <2>5. silence' \in Nat /\ IncompleteTicks > 0
    BY <1>0, <1>2
  <2>6. TimerIsCurrent'
    BY <1>3, <2>2, <2>3, <2>4, <2>5, <1>0 DEF TimerIsCurrent
  <2>. QED  BY <1>3, <2>1, <2>2, <2>6 DEF Inv, HeldIsCurrent, FlushedIsCurrent
<1>5. CASE ~timer.saw
  <2>1. timer' = [timer EXCEPT !.quiet = quiet]
    BY <1>5 DEF Tick, quiet
  <2>2. Clock' /\ timer'.quiet = quiet /\ ~timer'.saw
    BY <1>1, <1>2, <1>5, <2>1 DEF Clock
  <2>3. CASE FlushDue(quiet) /\ Flush(<<>>)
    <3>1. /\ HeldIsCurrent' /\ flushed' \in 0 .. Len(fed') /\ FlushedIsCurrent'
          /\ out' \in Seq(RowsOf(fed')) /\ Status' = "none"
      BY <1>3, <2>3, FlushStep
    <3>2. TimerIsCurrent'
      BY <2>2, <3>1 DEF TimerIsCurrent
    <3>. QED  BY <1>3, <2>2, <3>1, <3>2 DEF Inv
  <2>4. CASE ~FlushDue(quiet) /\ UNCHANGED <<held, flushed, out>>
    <3>1. Status' = Status
      BY <1>3, <2>4 DEF Status, IsBlank
    <3>2. Status # "complete" /\ (Status = "incomplete" => quiet < IncompleteTicks)
      BY <1>0, <1>2, <2>4 DEF FlushDue
    <3>3. source = "open" /\ Status = "incomplete" => silence' <= quiet + 1
      BY <1>1, <1>2, <1>5 DEF Inv, TimerIsCurrent
    <3>4. TimerIsCurrent'
      BY <1>3, <2>2, <3>1, <3>2, <3>3 DEF TimerIsCurrent
    <3>. QED  BY <1>3, <2>2, <2>4, <3>4 DEF Inv, HeldIsCurrent, FlushedIsCurrent
  <2>. QED  BY <1>5, <2>3, <2>4 DEF Tick, quiet
<1>. QED  BY <1>1, <1>4, <1>5

LEMMA SourceStep == ASSUME Inv, Done \/ Pause \/ Resume \/ Cancel PROVE Inv'
<1>0. UNCHANGED <<platform, fed, owner>>
  BY DEF Done, Pause, Resume, Cancel
<1>1. Feed'
  BY <1>0 DEF Done, Pause, Resume, Cancel, Inv, Feed, Fed, LineKinds
<1>2. Clock'
  <2>1. timer' = [timer EXCEPT !.on = FALSE] \/ timer' = Fresh
    BY DEF Done, Pause, Resume, Cancel
  <2>2. timer' \in [on : BOOLEAN, saw : BOOLEAN, quiet : 0 .. IncompleteTicks]
    <3>1. timer \in [on : BOOLEAN, saw : BOOLEAN, quiet : 0 .. IncompleteTicks]
      BY DEF Inv, Clock
    <3>2. [timer EXCEPT !.on = FALSE] \in [on : BOOLEAN, saw : BOOLEAN, quiet : 0 .. IncompleteTicks]
      BY <3>1
    <3>3. 0 \in 0 .. IncompleteTicks
      BY ParsingAssumption
    <3>4. Fresh \in [on : BOOLEAN, saw : BOOLEAN, quiet : 0 .. IncompleteTicks]
      BY <3>3 DEF Fresh
    <3>. QED  BY <2>1, <3>2, <3>4
  <2>3. silence' = silence \/ silence' = 0
    BY DEF Done, Pause, Resume, Cancel
  <2>4. silence' \in 0 .. IncompleteTicks + 1
    BY <2>3, ParsingAssumption DEF Inv, Clock
  <2>. QED  BY <2>2, <2>4 DEF Clock
<1>3. CASE Done
  <2>1. Flush(<<>>) /\ source' = "done"
    BY <1>3 DEF Done
  <2>2. /\ HeldIsCurrent' /\ flushed' \in 0 .. Len(fed') /\ FlushedIsCurrent'
        /\ out' \in Seq(RowsOf(fed'))
    BY <1>0, <1>1, <2>1, FlushStep
  <2>. QED  BY <1>1, <1>2, <2>1, <2>2 DEF Inv, TimerIsCurrent
<1>4. CASE Pause \/ Cancel
  <2>1. source' # "open" /\ UNCHANGED <<held, flushed, out>>
    BY <1>4 DEF Pause, Cancel
  <2>. QED  BY <1>0, <1>1, <1>2, <2>1 DEF Inv, TimerIsCurrent, HeldIsCurrent, FlushedIsCurrent
<1>5. CASE Resume
  <2>1. /\ ~timer'.saw /\ timer'.quiet = 0 /\ silence' = 0 /\ UNCHANGED <<held, flushed, out>>
    BY <1>5 DEF Resume, Fresh
  <2>2. TimerIsCurrent'
    BY <2>1, ParsingAssumption DEF TimerIsCurrent
  <2>. QED  BY <1>0, <1>1, <1>2, <2>1, <2>2 DEF Inv, HeldIsCurrent, FlushedIsCurrent
<1>. QED  BY <1>3, <1>4, <1>5

LEMMA NextInv == Inv /\ [Next]_vars => Inv'
<1>. SUFFICES ASSUME Inv, [Next]_vars PROVE Inv'
  OBVIOUS
<1>1. CASE UNCHANGED vars
  <2>1. Status' = Status /\ Feed'
    BY <1>1 DEF vars, Status, IsBlank, Inv, Feed, Fed, LineKinds
  <2>. QED  BY <1>1, <2>1 DEF vars, Inv, Clock, TimerIsCurrent, HeldIsCurrent, FlushedIsCurrent
<1>. QED  BY <1>1, LineStep, ErrorStep, TickStep, SourceStep DEF Next

-----------------------------------------------------------------------------
LEMMA Invariance == Spec => []Inv
BY InitInv, NextInv, PTL DEF Spec

\* The parser and its rows are typed, the lines of a row are consecutive and its
\* header's, and what looks whole or cut off is shown in time: for any lines, and
\* any pauses of the consumer between them (parseLogLines and both parsers).
THEOREM ParserIsCorrect == Spec => []ParserInv
<1>1. ASSUME Inv PROVE TypeOK
  <2>1. held \in Entry \cup {NoEntry}
    BY <1>1 DEF Inv, HeldIsCurrent, EntriesOf
  <2>2. out \in Seq(Row)
    BY <1>1 DEF Inv, RowsOf
  <2>. QED  BY <1>1, <2>1, <2>2 DEF Inv, Feed, Clock, TypeOK
<1>2. ASSUME Inv PROVE LinesKeepTheirHeader
  <2>. SUFFICES ASSUME NEW r \in DOMAIN out, NEW k \in DOMAIN out[r].lines
                PROVE  /\ fed[out[r].lines[k]].of = out[r].of
                       /\ k > 1 => out[r].lines[k] = out[r].lines[k - 1] + 1
    BY DEF LinesKeepTheirHeader
  <2>1. out[r] \in RowsOf(fed)
    BY <1>2 DEF Inv
  <2>2. out[r].lines \in Seq(Positions) /\ Claims(out[r].of, out[r].lines, fed)
    BY <2>1 DEF RowsOf, Row
  <2>3. k \in 1 .. Len(out[r].lines)
    BY <2>2
  <2>. QED  BY <2>2, <2>3 DEF Claims
<1>3. ASSUME Inv PROVE LatencyIsBounded
  <2>1. silence \in Nat /\ timer.quiet \in Nat /\ timer.saw \in BOOLEAN /\ IncompleteTicks \in Nat
        /\ timer.quiet <= IncompleteTicks
    BY <1>3, ParsingAssumption DEF Inv, Clock
  <2>. QED  BY <1>3, <2>1, ParsingAssumption DEF Inv, TimerIsCurrent, LatencyIsBounded
<1>4. Inv => ParserInv
  BY <1>1, <1>2, <1>3 DEF ParserInv
<1>. QED  BY <1>4, Invariance, PTL

\* No tick of the idle flush takes out a header that still waits for its body,
\* however long the silence.
THEOREM HeadersWait == Spec => HeaderAwaitsItsBody
<1>1. ASSUME Inv, [Next]_vars
      PROVE  [(Status = "awaitingBody" /\ fed' = fed /\ source' # "done") => held' = held]_vars
  <2>. SUFFICES ASSUME Next, Status = "awaitingBody", fed' = fed, source' # "done"
                PROVE  held' = held
    BY <1>1
  <2>1. ASSUME NEW kind \in LineKinds, AddLine(kind) PROVE FALSE
    BY <1>1, <2>1, Recorded DEF AddLine
  <2>2. CASE SourceError
    BY <1>1, <2>2, Recorded DEF SourceError
  <2>3. CASE Tick
    BY <2>3 DEF Tick, FlushDue
  <2>4. CASE Done \/ Pause \/ Resume \/ Cancel
    BY <2>4 DEF Done, Pause, Resume, Cancel
  <2>. QED  BY <2>1, <2>2, <2>3, <2>4 DEF Next
<1>. QED  BY <1>1, Invariance, PTL DEF Spec, HeaderAwaitsItsBody

-----------------------------------------------------------------------------
(* Lists.  The induction theorems of the library take operators, which the *)
(* provers cannot instantiate; that a set of numbers has a least element   *)
(* they can use, and it is enough.                                         *)

\* Every set of natural numbers has a least element.
LEMMA Least ==
    ASSUME NEW T \in SUBSET Nat, T # {}
    PROVE  \E x \in T : \A y \in T : x <= y
<1>. DEFINE R == OpToRel(<, Nat)
<1>1. \A x, y \in Nat : x < y => <<x, y>> \in R
  BY DEF OpToRel
<1>2. IsWellFoundedOn(R, Nat)
  BY NatLessThanWellFounded
<1>. HIDE DEF R
<1>3. PICK x \in T : \A y \in T : ~(<<y, x>> \in R)
  BY <1>2, WFMin
<1>4. \A y \in T : ~(y < x)
  BY <1>1, <1>3
<1>. QED  BY <1>4

LEMMA Value == ASSUME NEW n, NEW S, NEW f \in [0 .. n -> S], NEW i \in 0 .. n
               PROVE  f[i] \in S
OBVIOUS

LEMMA Element == ASSUME NEW S, NEW s \in Seq(S), NEW i \in 1 .. Len(s)
                 PROVE  s[i] \in S
OBVIOUS

LEMMA EmptyConcat == ASSUME NEW X, NEW q \in Seq(X)
                     PROVE  <<>> \o q = q /\ q \o <<>> = q
OBVIOUS

LEMMA ConcatAppend ==
    \A X : \A p, q \in Seq(X) : \A x \in X : p \o Append(q, x) = Append(p \o q, x)
OBVIOUS

\* A recursion over 1 .. n has a solution.
LEMMA Recursion ==
    ASSUME NEW S, NEW base \in S, NEW n \in Nat, NEW step \in [1 .. n -> [S -> S]]
    PROVE  \E f \in [0 .. n -> S] :
              f[0] = base /\ \A i \in 1 .. n : f[i] = step[i][f[i - 1]]
<1>. DEFINE Solves(f, k) == f[0] = base /\ \A i \in 1 .. k : f[i] = step[i][f[i - 1]]
            T == {k \in 0 .. n : ~\E f \in [0 .. k -> S] : Solves(f, k)}
<1>1. SUFFICES ASSUME T # {} PROVE FALSE
  <2>1. T = {} => \E f \in [0 .. n -> S] : Solves(f, n)
    OBVIOUS
  <2>. QED  BY <2>1
<1>2. PICK x \in T : \A y \in T : x <= y
  <2>1. T \in SUBSET Nat
    OBVIOUS
  <2>. HIDE DEF T
  <2>. QED  BY <1>1, <2>1, Least
<1>3. x # 0
  <2>. DEFINE f == [i \in 0 .. 0 |-> base]
  <2>1. f \in [0 .. 0 -> S] /\ Solves(f, 0)
    OBVIOUS
  <2>. QED  BY <2>1
<1>4. PICK f \in [0 .. x - 1 -> S] : Solves(f, x - 1)
  <2>1. x - 1 \in 0 .. n /\ ~(x <= x - 1)
    BY <1>3
  <2>. QED  BY <1>2, <2>1
<1>. DEFINE g == [i \in 0 .. x |-> IF i = x THEN step[x][f[x - 1]] ELSE f[i]]
<1>5. x \in 1 .. n /\ x - 1 \in 0 .. x - 1
  BY <1>3
<1>6. step[x][f[x - 1]] \in S
  <2>1. step[x] \in [S -> S] /\ f[x - 1] \in S
    BY <1>4, <1>5
  <2>. QED  BY <2>1
<1>7. g \in [0 .. x -> S]
  BY <1>4, <1>5, <1>6
<1>8. g[0] = base
  BY <1>3, <1>4, <1>5
<1>9. ASSUME NEW i \in 1 .. x PROVE g[i] = step[i][g[i - 1]]
  <2>1. g[i - 1] = f[i - 1]
    BY <1>5
  <2>2. CASE i = x
    BY <1>5, <2>1, <2>2
  <2>3. CASE i # x
    <3>1. i \in 1 .. x - 1 /\ g[i] = f[i]
      BY <1>5, <2>3
    <3>. QED  BY <1>4, <2>1, <3>1
  <2>. QED  BY <2>2, <2>3
<1>10. Solves(g, x)
  BY <1>8, <1>9
<1>. HIDE DEF g, Solves
<1>11. x \notin T
  BY <1>7, <1>10
<1>. QED  BY <1>11

-----------------------------------------------------------------------------
(* What is among a set.                                                    *)

\* f counts up what of s is in T.
Counts(f, s, T) ==
    /\ f[0] = <<>>
    /\ \A i \in 1 .. Len(s) :
          f[i] = IF s[i] \in T THEN Append(f[i - 1], s[i]) ELSE f[i - 1]

LEMMA AmongHas ==
    ASSUME NEW X, NEW s \in Seq(X), NEW T
    PROVE  \E f \in [0 .. Len(s) -> Seq(X)] : Counts(f, s, T)
<1>. DEFINE step == [i \in 1 .. Len(s) |->
                       [q \in Seq(X) |-> IF s[i] \in T THEN Append(q, s[i]) ELSE q]]
<1>1. step \in [1 .. Len(s) -> [Seq(X) -> Seq(X)]]
  <2>1. \A i \in 1 .. Len(s) : s[i] \in X
    OBVIOUS
  <2>2. \A i \in 1 .. Len(s) : \A q \in Seq(X) :
           (IF s[i] \in T THEN Append(q, s[i]) ELSE q) \in Seq(X)
    BY <2>1
  <2>. QED  BY <2>2
<1>2. \A i \in 1 .. Len(s) : \A q \in Seq(X) :
         step[i][q] = IF s[i] \in T THEN Append(q, s[i]) ELSE q
  OBVIOUS
<1>3. <<>> \in Seq(X) /\ Len(s) \in Nat
  OBVIOUS
<1>. HIDE DEF step
<1>4. PICK f \in [0 .. Len(s) -> Seq(X)] :
         f[0] = <<>> /\ \A i \in 1 .. Len(s) : f[i] = step[i][f[i - 1]]
  <2>. DEFINE S == Seq(X)
              n == Len(s)
              base == <<>>
  <2>1. base \in S /\ n \in Nat /\ step \in [1 .. n -> [S -> S]]
    BY <1>1, <1>3
  <2>2. SUFFICES \E f \in [0 .. n -> S] :
                    f[0] = base /\ \A i \in 1 .. n : f[i] = step[i][f[i - 1]]
    OBVIOUS
  <2>. HIDE DEF S, n, base
  <2>. QED  BY <2>1, Recursion
<1>5. \A i \in 1 .. Len(s) : f[i - 1] \in Seq(X)
  BY <1>3
<1>. QED  BY <1>2, <1>4, <1>5 DEF Counts

LEMMA AmongIs ==
    ASSUME NEW X, NEW s \in Seq(X), NEW T,
           NEW f \in [0 .. Len(s) -> Seq(X)], Counts(f, s, T)
    PROVE  Among(s, T) = f[Len(s)]
<1>. DEFINE kept(g) == [i \in 0 .. Len(s) |->
                IF i = 0 THEN <<>>
                ELSE IF s[i] \in T THEN Append(g[i - 1], s[i]) ELSE g[i - 1]]
            g == CHOOSE g : g = kept(g)
<1>1. Len(s) \in Nat
  OBVIOUS
<1>2. f = kept(f)
  <2>1. \A i \in 0 .. Len(s) : i # 0 => i \in 1 .. Len(s)
    BY <1>1
  <2>2. \A i \in 0 .. Len(s) : f[i] = kept(f)[i]
    BY <2>1 DEF Counts
  <2>. QED  BY <2>2
<1>3. g = kept(g)
  BY <1>2
<1>4. Among(s, T) = g[Len(s)]
  BY DEF Among
<1>. HIDE DEF g
<1>5. g[0] = <<>> /\ \A i \in 1 .. Len(s) :
         g[i] = IF s[i] \in T THEN Append(g[i - 1], s[i]) ELSE g[i - 1]
  <2>1. \A i \in 0 .. Len(s) : kept(g)[i] = IF i = 0 THEN <<>>
                ELSE IF s[i] \in T THEN Append(g[i - 1], s[i]) ELSE g[i - 1]
    OBVIOUS
  <2>2. \A i \in 1 .. Len(s) : i # 0 /\ i \in 0 .. Len(s)
    BY <1>1
  <2>3. 0 \in 0 .. Len(s)
    BY <1>1
  <2>. HIDE DEF kept
  <2>. QED  BY <1>3, <2>1, <2>2, <2>3
<1>. DEFINE D == {k \in 0 .. Len(s) : g[k] # f[k]}
<1>6. D = {}
  <2>. SUFFICES ASSUME D # {} PROVE FALSE
    OBVIOUS
  <2>1. PICK x \in D : \A y \in D : x <= y
    <3>1. D \in SUBSET Nat
      BY <1>1
    <3>. HIDE DEF D
    <3>. QED  BY <3>1, Least
  <2>2. x # 0
    BY <1>5 DEF Counts
  <2>3. x \in 1 .. Len(s) /\ x - 1 \in 0 .. Len(s) /\ ~(x <= x - 1)
    BY <1>1, <2>2
  <2>4. g[x - 1] = f[x - 1]
    BY <2>1, <2>3
  <2>. QED  BY <1>5, <2>3, <2>4 DEF Counts
<1>. QED  BY <1>1, <1>4, <1>6

LEMMA AmongType ==
    ASSUME NEW X, NEW s \in Seq(X), NEW T
    PROVE  Among(s, T) \in Seq(X)
<1>1. PICK f \in [0 .. Len(s) -> Seq(X)] : Counts(f, s, T)
  BY AmongHas
<1>2. Among(s, T) = f[Len(s)]
  BY <1>1, AmongIs
<1>. QED  BY <1>2

LEMMA AmongEmpty ==
    ASSUME NEW T
    PROVE  Among(<<>>, T) = <<>>
<1>. DEFINE f == [i \in 0 .. 0 |-> <<>>]
<1>1. <<>> \in Seq({}) /\ Len(<<>>) = 0
  OBVIOUS
<1>2. f \in [0 .. Len(<<>>) -> Seq({})]
  OBVIOUS
<1>3. Counts(f, <<>>, T) /\ f[0] = <<>>
  BY DEF Counts
<1>. HIDE DEF f
<1>. QED  BY <1>1, <1>2, <1>3, AmongIs

LEMMA AmongAppend ==
    ASSUME NEW X, NEW s \in Seq(X), NEW x \in X, NEW T
    PROVE  Among(Append(s, x), T) =
              IF x \in T THEN Append(Among(s, T), x) ELSE Among(s, T)
<1>. DEFINE n == Len(s)
            t == Append(s, x)
<1>1. /\ n \in Nat /\ t \in Seq(X) /\ Len(t) = n + 1
      /\ t[n + 1] = x /\ \A i \in 1 .. n : t[i] = s[i]
  OBVIOUS
<1>. HIDE DEF t
<1>2. PICK g \in [0 .. Len(t) -> Seq(X)] : Counts(g, t, T)
  BY <1>1, AmongHas
<1>. DEFINE f == [i \in 0 .. n |-> g[i]]
<1>3. f \in [0 .. Len(s) -> Seq(X)]
  BY <1>1, <1>2
<1>4. Counts(f, s, T)
  <2>1. f[0] = <<>>
    BY <1>1, <1>2 DEF Counts
  <2>2. ASSUME NEW i \in 1 .. Len(s)
        PROVE  f[i] = IF s[i] \in T THEN Append(f[i - 1], s[i]) ELSE f[i - 1]
    <3>1. f[i] = g[i] /\ f[i - 1] = g[i - 1] /\ i \in 1 .. Len(t) /\ t[i] = s[i]
      BY <1>1
    <3>. HIDE DEF f
    <3>. QED  BY <1>2, <3>1 DEF Counts
  <2>. HIDE DEF f
  <2>. QED  BY <2>1, <2>2 DEF Counts
<1>5. f[n] = g[n]
  BY <1>1
<1>. HIDE DEF f
<1>6. Among(s, T) = g[n] /\ Among(t, T) = g[n + 1]
  <2>1. Among(s, T) = f[Len(s)]
    BY <1>3, <1>4, AmongIs
  <2>2. Among(t, T) = g[Len(t)]
    BY <1>1, <1>2, AmongIs
  <2>. QED  BY <1>1, <1>5, <2>1, <2>2
<1>7. g[n + 1] = IF x \in T THEN Append(g[n], x) ELSE g[n]
  <2>1. n + 1 \in 1 .. Len(t) /\ n + 1 - 1 = n
    BY <1>1
  <2>. QED  BY <1>1, <1>2, <2>1 DEF Counts
<1>. QED  BY <1>6, <1>7 DEF t

\* Only membership of what is in s counts.
LEMMA AmongSame ==
    ASSUME NEW X, NEW s \in Seq(X), NEW T, NEW U, \A x \in X : x \in T <=> x \in U
    PROVE  Among(s, T) = Among(s, U)
<1>1. PICK f \in [0 .. Len(s) -> Seq(X)] : Counts(f, s, T)
  BY AmongHas
<1>2. \A i \in 1 .. Len(s) : s[i] \in T <=> s[i] \in U
  OBVIOUS
<1>3. Counts(f, s, U)
  BY <1>1, <1>2 DEF Counts
<1>. QED  BY <1>1, <1>3, AmongIs

LEMMA AmongNone ==
    ASSUME NEW X, NEW s \in Seq(X), NEW T, \A i \in 1 .. Len(s) : s[i] \notin T
    PROVE  Among(s, T) = <<>>
<1>. DEFINE f == [i \in 0 .. Len(s) |-> <<>>]
<1>1. Len(s) \in Nat
  OBVIOUS
<1>2. f \in [0 .. Len(s) -> Seq(X)]
  OBVIOUS
<1>3. \A i \in 0 .. Len(s) : f[i] = <<>>
  OBVIOUS
<1>. HIDE DEF f
<1>4. \A i \in 1 .. Len(s) : i \in 0 .. Len(s) /\ i - 1 \in 0 .. Len(s)
  BY <1>1
<1>5. Counts(f, s, T)
  BY <1>1, <1>3, <1>4 DEF Counts
<1>6. Among(s, T) = f[Len(s)]
  BY <1>2, <1>5, AmongIs
<1>. QED  BY <1>1, <1>3, <1>6

LEMMA AmongConcat ==
    ASSUME NEW X, NEW s \in Seq(X), NEW t \in Seq(X), NEW T
    PROVE  Among(s \o t, T) = Among(s, T) \o Among(t, T)
<1>. DEFINE m == Len(s)
            n == Len(t)
            st == s \o t
<1>1. /\ m \in Nat /\ n \in Nat /\ st \in Seq(X) /\ Len(st) = m + n
      /\ \A i \in 1 .. m : st[i] = s[i]
      /\ \A i \in 1 .. n : st[m + i] = t[i]
  OBVIOUS
<1>. HIDE DEF st
<1>2. PICK f \in [0 .. Len(s) -> Seq(X)] : Counts(f, s, T)
  BY AmongHas
<1>3. PICK g \in [0 .. Len(t) -> Seq(X)] : Counts(g, t, T)
  BY AmongHas
<1>. DEFINE h == [i \in 0 .. m + n |-> IF i <= m THEN f[i] ELSE f[m] \o g[i - m]]
<1>4. h \in [0 .. Len(st) -> Seq(X)]
  <2>1. ASSUME NEW i \in 0 .. m + n
        PROVE  (IF i <= m THEN f[i] ELSE f[m] \o g[i - m]) \in Seq(X)
    <3>1. CASE i <= m
      <4>1. i \in 0 .. Len(s)
        BY <1>1, <3>1
      <4>. QED  BY <3>1, <4>1
    <3>2. CASE ~(i <= m)
      <4>1. i - m \in 0 .. Len(t) /\ m \in 0 .. Len(s)
        BY <1>1, <3>2
      <4>2. g[i - m] \in Seq(X) /\ f[m] \in Seq(X)
        BY <4>1
      <4>. QED  BY <3>2, <4>2
    <3>. QED  BY <3>1, <3>2
  <2>. QED  BY <1>1, <2>1
<1>5. \A i \in 0 .. n : h[m + i] = f[m] \o g[i]
  <2>. TAKE i \in 0 .. n
  <2>1. m + i \in 0 .. m + n /\ (m + i) - m = i /\ m \in 0 .. Len(s)
    BY <1>1
  <2>2. CASE i = 0
    <3>1. h[m + i] = f[m]
      BY <1>1, <2>1, <2>2
    <3>2. g[0] = <<>>
      BY <1>3 DEF Counts
    <3>3. f[m] \in Seq(X)
      BY <2>1, Value
    <3>4. f[m] \o <<>> = f[m]
      BY <3>3, EmptyConcat
    <3>. QED  BY <2>2, <3>1, <3>2, <3>4
  <2>3. CASE i # 0
    BY <1>1, <2>1, <2>3
  <2>. QED  BY <2>2, <2>3
<1>6. \A i \in 0 .. m : h[i] = f[i]
  BY <1>1
<1>. HIDE DEF h
<1>7. Counts(h, st, T)
  <2>1. h[0] = <<>>
    BY <1>1, <1>2, <1>6 DEF Counts
  <2>2. ASSUME NEW i \in 1 .. Len(st)
        PROVE  h[i] = IF st[i] \in T THEN Append(h[i - 1], st[i]) ELSE h[i - 1]
    <3>1. CASE i <= m
      <4>1. i \in 0 .. m /\ i - 1 \in 0 .. m /\ i \in 1 .. Len(s) /\ st[i] = s[i]
        BY <1>1, <3>1
      <4>. QED  BY <1>2, <1>6, <4>1 DEF Counts
    <3>2. CASE ~(i <= m)
      <4>. DEFINE j == i - m
      <4>1. /\ j \in 0 .. n /\ j - 1 \in 0 .. n /\ j \in 1 .. Len(t) /\ st[i] = t[j]
            /\ m + j = i /\ m + (j - 1) = i - 1 /\ m \in 0 .. Len(s)
        BY <1>1, <3>2
      <4>. HIDE DEF j
      <4>2. h[i] = f[m] \o g[j] /\ h[i - 1] = f[m] \o g[j - 1]
        BY <1>5, <4>1
      <4>3. g[j] = IF t[j] \in T THEN Append(g[j - 1], t[j]) ELSE g[j - 1]
        BY <1>3, <4>1 DEF Counts
      <4>4. f[m] \in Seq(X) /\ g[j - 1] \in Seq(X) /\ t[j] \in X
        BY <4>1, Value, Element
      <4>5. f[m] \o Append(g[j - 1], t[j]) = Append(f[m] \o g[j - 1], t[j])
        <5>1. PICK p : p = f[m]  OBVIOUS
        <5>2. PICK q : q = g[j - 1]  OBVIOUS
        <5>3. PICK x : x = t[j]  OBVIOUS
        <5>4. p \in Seq(X) /\ q \in Seq(X) /\ x \in X
          BY <4>4, <5>1, <5>2, <5>3, Zenon
        <5>5. p \o Append(q, x) = Append(p \o q, x)
          BY <5>4, ConcatAppend
        <5>. QED  BY <5>1, <5>2, <5>3, <5>5, Zenon
      <4>. QED  BY <4>1, <4>2, <4>3, <4>5
    <3>. QED  BY <3>1, <3>2
  <2>. QED  BY <2>1, <2>2 DEF Counts
<1>8. /\ Among(st, T) = h[m + n] /\ Among(s, T) = f[m] /\ Among(t, T) = g[n]
      /\ n \in 0 .. n
  <2>1. Among(st, T) = h[Len(st)]
    BY <1>1, <1>4, <1>7, AmongIs
  <2>2. Among(s, T) = f[Len(s)]
    BY <1>2, AmongIs
  <2>3. Among(t, T) = g[Len(t)]
    BY <1>3, AmongIs
  <2>. QED  BY <1>1, <2>1, <2>2, <2>3
<1>9. h[m + n] = f[m] \o g[n]
  BY <1>5, <1>8, Zenon
<1>. QED  BY <1>8, <1>9, Zenon DEF st

-----------------------------------------------------------------------------
(* Sequences of sequences, one after the other.                            *)

Sums(f, s) == f[0] = <<>> /\ \A i \in 1 .. Len(s) : f[i] = f[i - 1] \o s[i]

LEMMA FlatHas ==
    ASSUME NEW X, NEW s \in Seq(Seq(X))
    PROVE  \E f \in [0 .. Len(s) -> Seq(X)] : Sums(f, s)
<1>. DEFINE step == [i \in 1 .. Len(s) |-> [q \in Seq(X) |-> q \o s[i]]]
<1>1. step \in [1 .. Len(s) -> [Seq(X) -> Seq(X)]]
  <2>1. \A i \in 1 .. Len(s) : s[i] \in Seq(X)
    OBVIOUS
  <2>2. \A i \in 1 .. Len(s) : \A q \in Seq(X) : (q \o s[i]) \in Seq(X)
    BY <2>1
  <2>. QED  BY <2>2
<1>2. \A i \in 1 .. Len(s) : \A q \in Seq(X) : step[i][q] = q \o s[i]
  OBVIOUS
<1>3. <<>> \in Seq(X) /\ Len(s) \in Nat
  OBVIOUS
<1>. HIDE DEF step
<1>4. PICK f \in [0 .. Len(s) -> Seq(X)] :
         f[0] = <<>> /\ \A i \in 1 .. Len(s) : f[i] = step[i][f[i - 1]]
  <2>. DEFINE S == Seq(X)
              n == Len(s)
              base == <<>>
  <2>1. base \in S /\ n \in Nat /\ step \in [1 .. n -> [S -> S]]
    BY <1>1, <1>3
  <2>. HIDE DEF S, n, base
  <2>2. \E f \in [0 .. n -> S] :
           f[0] = base /\ \A i \in 1 .. n : f[i] = step[i][f[i - 1]]
    BY <2>1, Recursion, SMTT(60)
  <2>. QED  BY <2>2, Zenon DEF S, n, base
<1>5. \A i \in 1 .. Len(s) : f[i - 1] \in Seq(X)
  <2>1. \A i \in 1 .. Len(s) : i - 1 \in 0 .. Len(s)
    BY <1>3
  <2>. QED  BY <2>1, Value
<1>. QED  BY <1>2, <1>4, <1>5 DEF Sums

LEMMA FlatIs ==
    ASSUME NEW X, NEW s \in Seq(Seq(X)),
           NEW f \in [0 .. Len(s) -> Seq(X)], Sums(f, s)
    PROVE  FlattenSeq(s) = f[Len(s)]
<1>1. Len(s) \in Nat
  OBVIOUS
<1>2. CASE Len(s) = 0
  <2>1. s = <<>> /\ f[0] = <<>>
    BY <1>2 DEF Sums
  <2>2. FlattenSeq(s) = s
    BY <1>2 DEF FlattenSeq
  <2>. QED  BY <1>2, <2>1, <2>2
<1>3. CASE Len(s) # 0
  <2>. DEFINE next(g) == [i \in 1 .. Len(s) |-> IF i = 1 THEN s[i] ELSE g[i - 1] \o s[i]]
              g == CHOOSE g : g = next(g)
              e == [i \in 1 .. Len(s) |-> f[i]]
  <2>1. e = next(e)
    <3>1. ASSUME NEW i \in 1 .. Len(s)
          PROVE  e[i] = IF i = 1 THEN s[i] ELSE e[i - 1] \o s[i]
      <4>1. e[i] = f[i] /\ (i # 1 => e[i - 1] = f[i - 1])
        BY <1>1
      <4>2. f[i] = f[i - 1] \o s[i]
        BY DEF Sums
      <4>3. i = 1 => f[i - 1] = <<>>
        BY DEF Sums
      <4>4. s[i] \in Seq(X)
        BY Element
      <4>5. <<>> \o s[i] = s[i]
        BY <4>4, EmptyConcat
      <4>. HIDE DEF e
      <4>. QED  BY <4>1, <4>2, <4>3, <4>5
    <3>2. \A i \in 1 .. Len(s) : e[i] = next(e)[i]
      BY <3>1
    <3>. QED  BY <3>2
  <2>2. g = next(g)
    BY <2>1
  <2>3. FlattenSeq(s) = g[Len(s)]
    BY <1>3 DEF FlattenSeq
  <2>4. \A i \in 1 .. Len(s) : e[i] = f[i]
    OBVIOUS
  <2>. HIDE DEF g
  <2>5. \A i \in 1 .. Len(s) : g[i] = IF i = 1 THEN s[i] ELSE g[i - 1] \o s[i]
    <3>1. \A i \in 1 .. Len(s) : next(g)[i] = IF i = 1 THEN s[i] ELSE g[i - 1] \o s[i]
      OBVIOUS
    <3>. HIDE DEF next
    <3>. QED  BY <2>2, <3>1
  <2>. DEFINE D == {k \in 1 .. Len(s) : g[k] # f[k]}
  <2>6. D = {}
    <3>. SUFFICES ASSUME D # {} PROVE FALSE
      OBVIOUS
    <3>1. PICK x \in D : \A y \in D : x <= y
      <4>1. D \in SUBSET Nat
        BY <1>1
      <4>. HIDE DEF D
      <4>. QED  BY <4>1, Least
    <3>2. f[x] = f[x - 1] \o s[x]
      BY DEF Sums
    <3>3. CASE x = 1
      <4>1. g[x] = s[x]
        BY <2>5, <3>3
      <4>2. f[x - 1] = <<>>
        BY <3>3 DEF Sums
      <4>3. s[x] \in Seq(X)
        BY Element
      <4>4. <<>> \o s[x] = s[x]
        BY <4>3, EmptyConcat
      <4>5. g[x] # f[x]
        OBVIOUS
      <4>. HIDE DEF D
      <4>. QED  BY <3>2, <4>1, <4>2, <4>4, <4>5
    <3>4. CASE x # 1
      <4>1. x - 1 \in 1 .. Len(s) /\ ~(x <= x - 1)
        BY <1>1, <3>4
      <4>2. g[x - 1] = f[x - 1]
        BY <3>1, <4>1
      <4>. QED  BY <2>5, <3>2, <3>4, <4>2
    <3>. QED  BY <3>3, <3>4
  <2>. QED  BY <1>1, <1>3, <2>3, <2>6
<1>. QED  BY <1>2, <1>3

LEMMA FlatType ==
    ASSUME NEW X, NEW s \in Seq(Seq(X))
    PROVE  FlattenSeq(s) \in Seq(X)
<1>1. PICK f \in [0 .. Len(s) -> Seq(X)] : Sums(f, s)
  BY FlatHas
<1>2. FlattenSeq(s) = f[Len(s)]
  BY <1>1, FlatIs
<1>. QED  BY <1>2

LEMMA FlatAppend ==
    ASSUME NEW X, NEW s \in Seq(Seq(X)), NEW x \in Seq(X)
    PROVE  FlattenSeq(Append(s, x)) = FlattenSeq(s) \o x
<1>. DEFINE n == Len(s)
            t == Append(s, x)
<1>1. /\ n \in Nat /\ t \in Seq(Seq(X)) /\ Len(t) = n + 1
      /\ t[n + 1] = x /\ \A i \in 1 .. n : t[i] = s[i]
  OBVIOUS
<1>. HIDE DEF t
<1>2. PICK g \in [0 .. Len(t) -> Seq(X)] : Sums(g, t)
  BY <1>1, FlatHas
<1>. DEFINE f == [i \in 0 .. n |-> g[i]]
<1>3. f \in [0 .. Len(s) -> Seq(X)]
  BY <1>1, <1>2
<1>4. Sums(f, s)
  <2>1. f[0] = <<>>
    BY <1>1, <1>2 DEF Sums
  <2>2. ASSUME NEW i \in 1 .. Len(s) PROVE f[i] = f[i - 1] \o s[i]
    <3>1. f[i] = g[i] /\ f[i - 1] = g[i - 1] /\ i \in 1 .. Len(t) /\ t[i] = s[i]
      BY <1>1
    <3>. HIDE DEF f
    <3>. QED  BY <1>2, <3>1 DEF Sums
  <2>. HIDE DEF f
  <2>. QED  BY <2>1, <2>2 DEF Sums
<1>5. f[n] = g[n]
  BY <1>1
<1>. HIDE DEF f
<1>6. FlattenSeq(s) = g[n] /\ FlattenSeq(t) = g[n + 1]
  <2>1. FlattenSeq(s) = f[Len(s)]
    BY <1>3, <1>4, FlatIs
  <2>2. FlattenSeq(t) = g[Len(t)]
    BY <1>1, <1>2, FlatIs
  <2>. QED  BY <1>1, <1>5, <2>1, <2>2
<1>7. g[n + 1] = g[n] \o x
  <2>1. n + 1 \in 1 .. Len(t) /\ (n + 1) - 1 = n
    BY <1>1
  <2>2. g[n + 1] = g[(n + 1) - 1] \o t[n + 1]
    BY <1>2, <2>1, Zenon DEF Sums
  <2>. QED  BY <1>1, <2>1, <2>2, Zenon
<1>. QED  BY <1>6, <1>7 DEF t

-----------------------------------------------------------------------------
(* What is delivered.                                                      *)

\* The items of rows, one row after the other.
All(rows) == FlattenSeq([r \in DOMAIN rows |-> Items(rows[r])])

\* Rows of what has been fed.
Told(f) == {r \in RowsOf(f) : r.of \in 1 .. Len(f)}

HeldItems == IF held = NoEntry THEN <<>> ELSE Items(held)

\* What was accepted is what is shown and then what is held; and while nothing
\* can carry on an entry, what comes is not owed.
Whole == Accepted = Shown \o Among(HeldItems, Owed)

NothingSkipped == held = NoEntry /\ flushed = 0 => owner = 0

DInv ==
    /\ Inv /\ Whole /\ NothingSkipped
    /\ out \in Seq(Told(fed))
    /\ timer.on => source = "open"

LEMMA AllAppend ==
    ASSUME NEW X, NEW rows \in Seq(X), NEW r \in X, NEW Y, \A x \in X : Items(x) \in Seq(Y)
    PROVE  All(Append(rows, r)) = All(rows) \o Items(r)
<1>. DEFINE a == [k \in DOMAIN rows |-> Items(rows[k])]
            more == Append(rows, r)
            b == [k \in DOMAIN more |-> Items(more[k])]
<1>1. /\ Len(rows) \in Nat /\ Len(more) = Len(rows) + 1 /\ more[Len(rows) + 1] = r
      /\ \A k \in 1 .. Len(rows) : more[k] = rows[k]
      /\ DOMAIN rows = 1 .. Len(rows) /\ DOMAIN more = 1 .. Len(rows) + 1
  OBVIOUS
<1>. HIDE DEF more
<1>2. \A k \in 1 .. Len(rows) : rows[k] \in X
  BY Element
<1>3. a \in Seq(Seq(Y)) /\ Len(a) = Len(rows)
  BY <1>1, <1>2
<1>4. b = Append(a, Items(r))
  <2>1. /\ Len(Append(a, Items(r))) = Len(rows) + 1
        /\ DOMAIN Append(a, Items(r)) = 1 .. Len(rows) + 1
        /\ Append(a, Items(r))[Len(rows) + 1] = Items(r)
        /\ \A k \in 1 .. Len(rows) : Append(a, Items(r))[k] = a[k]
        /\ Append(a, Items(r)) \in Seq(Seq(Y))
    BY <1>3
  <2>2. \A k \in 1 .. Len(rows) : a[k] = Items(rows[k])
    BY <1>1
  <2>. QED  BY <1>1, <2>1, <2>2
<1>5. Items(r) \in Seq(Y)
  OBVIOUS
<1>. HIDE DEF a, b
<1>6. FlattenSeq(b) = FlattenSeq(a) \o Items(r)
  BY <1>3, <1>4, <1>5, FlatAppend
<1>. QED  BY <1>6 DEF All, a, b, more

LEMMA AllType ==
    ASSUME NEW X, NEW rows \in Seq(X), NEW Y, \A x \in X : Items(x) \in Seq(Y)
    PROVE  All(rows) \in Seq(Y)
<1>. DEFINE a == [k \in DOMAIN rows |-> Items(rows[k])]
<1>1. /\ Len(rows) \in Nat /\ DOMAIN rows = 1 .. Len(rows)
  OBVIOUS
<1>2. \A k \in 1 .. Len(rows) : rows[k] \in X
  BY Element
<1>3. a \in Seq(Seq(Y))
  BY <1>1, <1>2
<1>. HIDE DEF a
<1>4. FlattenSeq(a) \in Seq(Y)
  BY <1>3, FlatType
<1>. QED  BY <1>4 DEF All, a

LEMMA ItemsType ==
    ASSUME NEW f \in Seq(Fed), NEW e, e.lines \in Seq(Positions), e.resumed \in BOOLEAN,
           e.of \in 1 .. Len(f), Claims(e.of, e.lines, f)
    PROVE  Items(e) \in Seq(1 .. Len(f)) /\ e.lines \in Seq(1 .. Len(f))
<1>1. \A k \in 1 .. Len(e.lines) : e.lines[k] \in 1 .. Len(f)
  BY DEF Claims
<1>2. e.lines \in Seq(1 .. Len(f))
  BY <1>1
<1>3. <<e.of>> \o e.lines \in Seq(1 .. Len(f))
  BY <1>2
<1>. QED  BY <1>2, <1>3 DEF Items

LEMMA ToldItems ==
    ASSUME NEW f \in Seq(Fed), NEW r \in Told(f)
    PROVE  Items(r) \in Seq(1 .. Len(f))
BY ItemsType DEF Told, RowsOf, Row

LEMMA ToldGrows ==
    ASSUME NEW f \in Seq(Fed), NEW x \in Fed
    PROVE  Told(f) \subseteq Told(Append(f, x))
<1>1. Len(f) \in Nat /\ Len(Append(f, x)) = Len(f) + 1
  OBVIOUS
<1>2. 1 .. Len(f) \subseteq 1 .. Len(Append(f, x))
  BY <1>1
<1>3. RowsOf(f) \subseteq RowsOf(Append(f, x))
  BY RowsGrow
<1>. QED  BY <1>2, <1>3 DEF Told

LEMMA AmongOne ==
    ASSUME NEW n, NEW T
    PROVE  Among(<<n>>, T) = IF n \in T THEN <<n>> ELSE <<>>
<1>1. <<>> \in Seq({n}) /\ n \in {n} /\ Append(<<>>, n) = <<n>>
  OBVIOUS
<1>2. Among(Append(<<>>, n), T) = IF n \in T THEN Append(Among(<<>>, T), n) ELSE Among(<<>>, T)
  BY <1>1, AmongAppend
<1>. QED  BY <1>1, <1>2, AmongEmpty

\* What build() cuts off is not among a set without blank lines.
LEMMA Cut ==
    ASSUME NEW X, NEW lines \in Seq(X), NEW end \in 0 .. Len(lines), NEW U,
           \A k \in 1 .. Len(lines) : k > end => lines[k] \notin U
    PROVE  SubSeq(lines, 1, end) \in Seq(X) /\ Among(SubSeq(lines, 1, end), U) = Among(lines, U)
<1>. DEFINE s == SubSeq(lines, 1, end)
            t == SubSeq(lines, end + 1, Len(lines))
<1>1. /\ s \in Seq(X) /\ t \in Seq(X) /\ Len(t) = Len(lines) - end /\ Len(s) = end
      /\ \A k \in 1 .. Len(t) : t[k] = lines[end + k]
  <2>1. Len(lines) \in Nat /\ end \in Nat /\ end <= Len(lines)
    OBVIOUS
  <2>. QED  BY <2>1
<1>2. lines = s \o t
  <2>1. Len(lines) \in Nat /\ 1 \in 1 .. Len(lines) + 1
        /\ end \in 1 - 1 .. Len(lines) /\ Len(lines) \in end .. Len(lines)
    OBVIOUS
  <2>2. SubSeq(lines, 1, end) \o SubSeq(lines, end + 1, Len(lines))
           = SubSeq(lines, 1, Len(lines))
    BY <2>1, ConcatAdjacentSubSeq
  <2>3. SubSeq(lines, 1, Len(lines)) = lines
    BY SubSeqFull
  <2>. QED  BY <2>2, <2>3
<1>3. \A k \in 1 .. Len(t) : t[k] \notin U
  BY <1>1
<1>. HIDE DEF s, t
<1>4. Among(t, U) = <<>>
  BY <1>1, <1>3, AmongNone
<1>5. Among(s \o t, U) = Among(s, U) \o Among(t, U)
  BY <1>1, AmongConcat
<1>6. Among(s, U) \in Seq(X)
  BY <1>1, AmongType
<1>7. Among(s, U) \o <<>> = Among(s, U)
  BY <1>6, EmptyConcat
<1>. QED  BY <1>1, <1>2, <1>4, <1>5, <1>7 DEF s

\* build() shows of an entry all that is not blank.
LEMMA BuiltItems ==
    ASSUME NEW f \in Seq(Fed), f = fed, NEW e \in EntriesOf(f), e.of \in 1 .. Len(f), e # NoEntry,
           NEW o \in Seq(Told(f)), NEW rows \in Built(e), NEW U,
           \A k \in 1 .. Len(f) : IsBlank(k) => k \notin U
    PROVE  /\ o \o rows \in Seq(Told(f))
           /\ Among(All(o \o rows), U) = Among(All(o), U) \o Among(Items(e), U)
<1>. DEFINE N == 1 .. Len(f)
            L == e.lines
<1>1. /\ L \in Seq(N) /\ Items(e) \in Seq(N) /\ e.of \in N /\ e.of \in Positions
      /\ L \in Seq(Positions) /\ e.resumed \in BOOLEAN
      /\ \A k \in 1 .. Len(L) : L[k] \in N
  <2>1. e \in Entry /\ Claims(e.of, e.lines, f)
    BY DEF EntriesOf
  <2>2. e.lines \in Seq(Positions) /\ e.resumed \in BOOLEAN /\ e.of \in Positions
    BY <2>1 DEF Entry
  <2>3. L \in Seq(N) /\ Items(e) \in Seq(N)
    BY <2>1, <2>2, ItemsType
  <2>4. \A k \in 1 .. Len(L) : L[k] \in N
    BY <2>1 DEF Claims
  <2>. QED  BY <2>2, <2>3, <2>4
<1>2. \A r \in Told(f) : Items(r) \in Seq(N)
  BY ToldItems
<1>3. All(o) \in Seq(N)
  BY <1>2, AllType
<1>4. Among(All(o), U) \in Seq(N)
  BY <1>3, AmongType
<1>. HIDE DEF N
<1>5. CASE IsDropped(e)
  <2>1. rows = <<>>
    BY <1>5 DEF Built
  <2>2. Items(e) = L /\ \A k \in 1 .. Len(L) : IsBlank(L[k])
    BY <1>1, <1>5 DEF IsDropped, Items
  <2>3. \A k \in 1 .. Len(L) : L[k] \notin U
    BY <1>1, <2>2 DEF N
  <2>4. Among(L, U) = <<>>
    BY <1>1, <2>3, AmongNone
  <2>5. o \o <<>> = o /\ Among(All(o), U) \o <<>> = Among(All(o), U)
    BY <1>4
  <2>. QED  BY <2>1, <2>2, <2>4, <2>5
<1>6. CASE ~IsDropped(e)
  <2>. DEFINE row(end) == [kind |-> "entry", of |-> e.of, resumed |-> e.resumed,
                           lines |-> SubSeq(L, 1, end)]
  <2>1. PICK end \in 0 .. Len(L) : IsEnd(L, end) /\ rows = <<row(end)>>
    BY <1>6 DEF Built
  <2>2. \A k \in 1 .. Len(L) : k > end => L[k] \notin U
    <3>1. ASSUME NEW k \in 1 .. Len(L), k > end PROVE IsBlank(L[k])
      <4>1. DOMAIN L = 1 .. Len(L)
        BY <1>1
      <4>2. CASE platform = "android"
        BY <2>1, <3>1, <4>1, <4>2 DEF IsEnd
      <4>3. CASE platform # "android"
        <5>1. end = Len(L)
          BY <2>1, <4>3 DEF IsEnd
        <5>. QED  BY <1>1, <3>1, <5>1
      <4>. QED  BY <4>2, <4>3
    <3>. QED  BY <1>1, <3>1 DEF N
  <2>. DEFINE s == SubSeq(L, 1, end)
  <2>3. s \in Seq(N) /\ Among(s, U) = Among(L, U)
    BY <1>1, <2>2, Cut
  <2>4. s \in Seq(Positions) /\ Claims(e.of, s, f)
    <3>1. Claims(e.of, L, f)
      BY DEF EntriesOf
    <3>2. /\ s \in Seq(Positions) /\ Len(s) = end
          /\ \A k \in 1 .. end : s[k] = L[k]
      BY <1>1
    <3>. QED  BY <1>1, <3>1, <3>2 DEF Claims
  <2>5. row(end) \in Told(f)
    BY <1>1, <2>4 DEF Told, RowsOf, Row, N
  <2>. DEFINE r == row(end)
  <2>6. r.of = e.of /\ r.resumed = e.resumed /\ r.lines = s
    OBVIOUS
  <2>7. r \in Told(f)
    BY <2>5
  <2>. HIDE DEF r, s, row
  <2>8. Among(Items(r), U) = Among(Items(e), U)
    <3>1. CASE e.resumed
      BY <2>3, <2>6, <3>1 DEF Items
    <3>2. CASE ~e.resumed
      <4>1. Items(r) = <<e.of>> \o s /\ Items(e) = <<e.of>> \o L
        BY <2>6, <3>2 DEF Items
      <4>2. PICK h : h = <<e.of>>
        OBVIOUS
      <4>3. h \in Seq(N)
        BY <1>1, <4>2
      <4>4. Among(h \o s, U) = Among(h, U) \o Among(s, U)
        BY <2>3, <4>3, AmongConcat
      <4>5. PICK l : l = L
        OBVIOUS
      <4>6. l \in Seq(N)
        BY <1>1, <4>5
      <4>7. Among(h \o l, U) = Among(h, U) \o Among(l, U)
        BY <4>3, <4>6, AmongConcat
      <4>. QED  BY <2>3, <4>1, <4>2, <4>4, <4>5, <4>7
    <3>. QED  BY <3>1, <3>2
  <2>9. rows = <<r>>
    BY <2>1 DEF r
  <2>10. o \o rows = Append(o, r)
    BY <2>7, <2>9
  <2>11. All(Append(o, r)) = All(o) \o Items(r)
    BY <1>2, <2>7, AllAppend
  <2>12. Items(r) \in Seq(N)
    BY <1>2, <2>7
  <2>13. Among(All(o) \o Items(r), U) = Among(All(o), U) \o Among(Items(r), U)
    BY <1>3, <2>12, AmongConcat
  <2>14. Append(o, r) \in Seq(Told(f))
    BY <2>7
  <2>. QED  BY <2>8, <2>10, <2>11, <2>13, <2>14
<1>. QED  BY <1>5, <1>6

LEMMA Types ==
    ASSUME DInv
    PROVE  /\ fed \in Seq(Fed) /\ Len(fed) \in Nat
           /\ \A k \in 1 .. Len(fed) : fed[k] \in Fed /\ k \in Positions
           /\ All(out) \in Seq(1 .. Len(fed)) /\ HeldItems \in Seq(1 .. Len(fed))
           /\ Shown = Among(All(out), Owed)
           /\ Shown \in Seq(1 .. Len(fed)) /\ Accepted \in Seq(1 .. Len(fed))
           /\ held # NoEntry => held \in EntriesOf(fed) /\ held.of \in 1 .. Len(fed)
<1>1. fed \in Seq(Fed) /\ Len(fed) \in Nat /\ Len(fed) <= MaxFed /\ owner \in 0 .. Len(fed)
  BY DEF DInv, Inv, Feed
<1>2. \A k \in 1 .. Len(fed) : fed[k] \in Fed /\ k \in Positions
  BY <1>1, ParsingAssumption DEF Positions
<1>3. \A r \in Told(fed) : Items(r) \in Seq(1 .. Len(fed))
  BY <1>1, ToldItems
<1>4. All(out) \in Seq(1 .. Len(fed))
  <2>1. out \in Seq(Told(fed))
    BY DEF DInv
  <2>. QED  BY <1>3, <2>1, AllType
<1>5. held # NoEntry => held \in EntriesOf(fed) /\ held.of \in 1 .. Len(fed)
  <2>. SUFFICES ASSUME held # NoEntry
                PROVE  held \in EntriesOf(fed) /\ held.of \in 1 .. Len(fed)
    OBVIOUS
  <2>1. held \in EntriesOf(fed) /\ held.of = owner
    BY DEF DInv, Inv, HeldIsCurrent
  <2>2. held.of \in Nat \ {0}
    BY <2>1 DEF EntriesOf, Entry, Positions
  <2>. QED  BY <1>1, <2>1, <2>2
<1>6. HeldItems \in Seq(1 .. Len(fed))
  <2>1. CASE held = NoEntry
    BY <2>1 DEF HeldItems
  <2>2. CASE held # NoEntry
    <3>1. held \in Entry /\ Claims(held.of, held.lines, fed) /\ held.of \in 1 .. Len(fed)
      BY <1>5, <2>2 DEF EntriesOf
    <3>2. Items(held) \in Seq(1 .. Len(fed))
      BY <1>1, <3>1, ItemsType DEF Entry
    <3>. QED  BY <2>2, <3>2 DEF HeldItems
  <2>. QED  BY <2>1, <2>2
<1>7. Shown = Among(All(out), Owed)
  BY DEF Shown, All
<1>8. Shown \in Seq(1 .. Len(fed))
  BY <1>4, <1>7, AmongType
<1>9. Accepted \in Seq(1 .. Len(fed))
  <2>1. [k \in DOMAIN fed |-> k] \in Seq(1 .. Len(fed))
    BY <1>1
  <2>. QED  BY <2>1, AmongType DEF Accepted
<1>. QED  BY <1>1, <1>2, <1>4, <1>5, <1>6, <1>7, <1>8, <1>9

\* What is held is emitted whole.
LEMMA Emits ==
    ASSUME DInv, NEW rows \in Built(held), NEW U,
           \A k \in 1 .. Len(fed) : IsBlank(k) => k \notin U
    PROVE  /\ out \o rows \in Seq(Told(fed))
           /\ Among(All(out \o rows), U) = Among(All(out), U) \o Among(HeldItems, U)
<1>1. CASE held = NoEntry
  <2>1. rows = <<>> /\ HeldItems = <<>> /\ out \in Seq(Told(fed))
    BY <1>1 DEF Built, HeldItems, DInv
  <2>2. out \o <<>> = out
    BY <2>1
  <2>3. Among(<<>>, U) = <<>>
    BY AmongEmpty
  <2>4. Among(All(out), U) \in Seq(1 .. Len(fed))
    BY Types, AmongType
  <2>5. Among(All(out), U) \o <<>> = Among(All(out), U)
    BY <2>4, EmptyConcat
  <2>. QED  BY <2>1, <2>2, <2>3, <2>5
<1>2. CASE held # NoEntry
  <2>1. /\ fed \in Seq(Fed) /\ held \in EntriesOf(fed) /\ held.of \in 1 .. Len(fed)
        /\ out \in Seq(Told(fed))
    BY <1>2, Types DEF DInv
  <2>2. HeldItems = Items(held)
    BY <1>2 DEF HeldItems
  <2>. QED  BY <1>2, <2>1, <2>2, BuiltItems
<1>. QED  BY <1>1, <1>2

LEMMA BlankIsNotOwed ==
    ASSUME NEW k, IsBlank(k) PROVE k \notin Owed
BY DEF IsBlank, Owed, IsOwed

\* What the source says is accepted if it is owed; nothing else becomes so.
LEMMA Heard ==
    ASSUME DInv, NEW kind \in LineKinds \cup {"error"}, Record(kind),
           UNCHANGED <<platform, source>>
    PROVE  /\ fed' \in Seq(Fed) /\ Len(fed') = Len(fed) + 1
           /\ Len(fed) + 1 \in Positions /\ Len(fed) + 1 \notin 1 .. Len(fed)
           /\ \A k \in 1 .. Len(fed) : k \in Owed' <=> k \in Owed
           /\ \A k \in 1 .. Len(fed) : IsBlank(k) => k \notin Owed'
           /\ Len(fed) + 1 \in Owed' <=>
                 kind \in {"header", "separator", "error"} \/ (kind = "text" /\ owner' # 0)
           /\ Accepted' = IF Len(fed) + 1 \in Owed' THEN Append(Accepted, Len(fed) + 1)
                          ELSE Accepted
           /\ Told(fed) \subseteq Told(fed')
<1>. DEFINE n == Len(fed) + 1
            x == [kind |-> kind, of |-> owner']
<1>1. /\ fed \in Seq(Fed) /\ Len(fed) \in Nat /\ owner \in 0 .. Len(fed)
      /\ fed' = Append(fed, x) /\ n <= MaxFed
      /\ owner' \in {n, 0, owner}
  BY DEF DInv, Inv, Feed, Record
<1>2. x \in Fed
  <2>1. owner' \in 0 .. MaxFed
    BY <1>1, ParsingAssumption
  <2>. QED  BY <2>1 DEF Fed
<1>3. /\ fed' \in Seq(Fed) /\ Len(fed') = n /\ DOMAIN fed' = 1 .. n /\ DOMAIN fed = 1 .. Len(fed)
      /\ fed'[n] = x /\ \A k \in 1 .. Len(fed) : fed'[k] = fed[k]
  <2>. HIDE DEF x
  <2>. QED  BY <1>1, <1>2
<1>4. /\ n \in Positions /\ n \notin 1 .. Len(fed) /\ n \in 1 .. n
      /\ 1 .. Len(fed) \subseteq 1 .. n
  BY <1>1, ParsingAssumption DEF Positions
<1>5. \A k \in 1 .. Len(fed) : k \in Owed' <=> k \in Owed
  <2>. HIDE DEF x, n
  <2>. QED  BY <1>3, <1>4 DEF Owed, IsOwed
<1>6. \A k \in 1 .. Len(fed) : IsBlank(k) => k \notin Owed'
  BY <1>5, BlankIsNotOwed
<1>7. n \in Owed' <=>
         kind \in {"header", "separator", "error"} \/ (kind = "text" /\ owner' # 0)
  <2>1. x.kind = kind /\ x.of = owner'
    OBVIOUS
  <2>. HIDE DEF x, n
  <2>. QED  BY <1>3, <1>4, <2>1 DEF Owed, IsOwed
<1>8. Accepted' = IF n \in Owed' THEN Append(Accepted, n) ELSE Accepted
  <2>. DEFINE a == [k \in DOMAIN fed |-> k]
              b == [k \in DOMAIN fed' |-> k]
  <2>1. a \in Seq(1 .. Len(fed)) /\ Len(a) = Len(fed)
    BY <1>1
  <2>2. b = Append(a, n)
    BY <1>1, <1>3
  <2>3. Accepted' = Among(b, Owed') /\ Accepted = Among(a, Owed)
    BY DEF Accepted
  <2>4. a \in Seq(1 .. n)
    BY <1>4, <2>1
  <2>. HIDE DEF a, b, n, x
  <2>. DEFINE N == 1 .. n
  <2>t. a \in Seq(N) /\ n \in N
    BY <1>4, <2>4
  <2>. HIDE DEF N
  <2>5. Among(Append(a, n), Owed') = IF n \in Owed' THEN Append(Among(a, Owed'), n)
                                     ELSE Among(a, Owed')
    <3>1. PICK V : V = Owed'
      OBVIOUS
    <3>2. Among(Append(a, n), V) = IF n \in V THEN Append(Among(a, V), n) ELSE Among(a, V)
      BY <2>t, AmongAppend
    <3>. QED  BY <3>1, <3>2, Zenon
  <2>6. Among(a, Owed') = Among(a, Owed)
    BY <1>5, <2>1, AmongSame
  <2>. QED  BY <2>2, <2>3, <2>5, <2>6
<1>9. Told(fed) \subseteq Told(fed')
  BY <1>1, <1>2, ToldGrows
<1>. QED  BY <1>3, <1>4, <1>5, <1>6, <1>7, <1>8, <1>9

\* What becomes of one line matters to no other.
LEMMA StillShown ==
    ASSUME DInv, NEW U, \A k \in 1 .. Len(fed) : k \in U <=> k \in Owed
    PROVE  /\ Among(All(out), U) = Shown
           /\ Among(HeldItems, U) = Among(HeldItems, Owed)
           /\ Among(HeldItems, U) \in Seq(1 .. Len(fed))
<1>. DEFINE N == 1 .. Len(fed)
<1>1. /\ All(out) \in Seq(N) /\ HeldItems \in Seq(N)
      /\ \A k \in N : k \in U <=> k \in Owed
  BY Types
<1>. HIDE DEF N
<1>2. Among(All(out), U) = Among(All(out), Owed)
  BY <1>1, AmongSame
<1>3. Among(HeldItems, U) = Among(HeldItems, Owed)
  BY <1>1, AmongSame
<1>4. Among(HeldItems, U) \in Seq(N)
  BY <1>1, AmongType
<1>. QED  BY <1>2, <1>3, <1>4, Types DEF N

\* After a flush everything accepted before it is shown.
LEMMA AllEmitted ==
    ASSUME DInv, NEW rows \in Built(held), NEW U,
           \A k \in 1 .. Len(fed) : k \in U <=> k \in Owed
    PROVE  out \o rows \in Seq(Told(fed)) /\ Among(All(out \o rows), U) = Accepted
<1>1. \A k \in 1 .. Len(fed) : IsBlank(k) => k \notin U
  BY BlankIsNotOwed
<1>2. /\ out \o rows \in Seq(Told(fed))
      /\ Among(All(out \o rows), U) = Among(All(out), U) \o Among(HeldItems, U)
  BY <1>1, Emits
<1>. QED  BY <1>2, StillShown DEF DInv, Whole

LEMMA PrefixOf ==
    ASSUME NEW X, NEW s \in Seq(X), NEW t \in Seq(X)
    PROVE  IsPrefix(s, s \o t)
<1>1. Len(s) \in Nat /\ Len(s) <= Len(s \o t)
  OBVIOUS
<1>2. SubSeq(s, 1, Len(s)) = SubSeq(s \o t, 1, Len(s))
  OBVIOUS
<1>. QED  BY <1>1, <1>2 DEF IsPrefix

\* A row that stands for a line shows that line.
LEMMA SingleShown ==
    ASSUME NEW f \in Seq(Fed), NEW o \in Seq(Told(f)), NEW n \in 1 .. Len(f), n \in Positions,
           NEW kind \in {"notice", "error"}, NEW U, n \in U
    PROVE  /\ Append(o, Single(kind, n)) \in Seq(Told(f))
           /\ Among(All(Append(o, Single(kind, n))), U) = Among(All(o), U) \o <<n>>
<1>. DEFINE r == Single(kind, n)
            N == 1 .. Len(f)
<1>1. r \in Told(f)
  <2>1. r \in RowsOf(f)
    BY SingleRow
  <2>2. r.of = n
    BY DEF Single
  <2>. QED  BY <2>1, <2>2 DEF Told
<1>2. Items(r) = <<n>>
  BY DEF Items, Single
<1>3. \A x \in Told(f) : Items(x) \in Seq(N)
  BY ToldItems
<1>. HIDE DEF r, N
<1>4. All(Append(o, r)) = All(o) \o Items(r)
  BY <1>1, <1>3, AllAppend
<1>5. All(o) \in Seq(N)
  BY <1>3, AllType
<1>6. Items(r) \in Seq(N)
  BY <1>1, <1>3
<1>7. Among(All(o) \o Items(r), U) = Among(All(o), U) \o Among(Items(r), U)
  BY <1>5, <1>6, AmongConcat
<1>8. Among(<<n>>, U) = <<n>>
  BY AmongOne
<1>9. Append(o, r) \in Seq(Told(f))
  BY <1>1
<1>. QED  BY <1>2, <1>4, <1>7, <1>8, <1>9, Zenon DEF r

\* What a step owes: to keep the invariant and to be a step of the contract.
LEMMA Progress ==
    ASSUME NEW X, Shown \in Seq(X), NEW m \in Seq(X), NEW r \in Seq(X),
           source = "open", source' = "open",
           Shown' = Shown \o m, Accepted' = Shown' \o r,
           Accepted' = Accepted \/ \E x \in Positions : Accepted' = Append(Accepted, x)
    PROVE  Delivery!Next
<1>1. Outcome = "open" /\ Outcome' = "open"
  BY DEF Outcome
<1>2. IsPrefix(Shown, Shown')
  BY PrefixOf
<1>3. IsPrefix(Shown', Accepted')
  <2>1. PICK t : t = Shown'
    OBVIOUS
  <2>2. t \in Seq(X)
    BY <2>1
  <2>3. IsPrefix(t, t \o r)
    BY <2>2, PrefixOf
  <2>. QED  BY <2>1, <2>3
<1>4. Delivery!ShowMore(Accepted')
  BY <1>2, <1>3 DEF Delivery!ShowMore, Delivery!IsPrefix, IsPrefix
<1>5. CASE Accepted' = Accepted
  <2>1. Delivery!ShowMore(Accepted)
    BY <1>4, <1>5 DEF Delivery!ShowMore
  <2>2. Delivery!Show
    BY <1>1, <1>5, <2>1 DEF Delivery!Show
  <2>. QED  BY <2>2 DEF Delivery!Next
<1>6. CASE \E x \in Positions : Accepted' = Append(Accepted, x)
  <2>1. Delivery!Accept
    BY <1>1, <1>4, <1>6 DEF Delivery!Accept
  <2>. QED  BY <2>1 DEF Delivery!Next
<1>. QED  BY <1>5, <1>6

LEMMA LineDelivers ==
    ASSUME DInv, Inv', NEW kind \in LineKinds, AddLine(kind)
    PROVE  DInv' /\ Delivery!Next
<1>. DEFINE n == Len(fed) + 1
            N == 1 .. Len(fed')
<1>1. /\ source = "open" /\ source' = "open" /\ Record(kind) /\ UNCHANGED <<platform, source>>
  BY DEF AddLine
<1>2. /\ fed' \in Seq(Fed) /\ Len(fed') = n /\ n \in Positions
      /\ \A k \in 1 .. Len(fed) : k \in Owed' <=> k \in Owed
      /\ n \in Owed' <=>
            kind \in {"header", "separator", "error"} \/ (kind = "text" /\ owner' # 0)
      /\ Accepted' = IF n \in Owed' THEN Append(Accepted, n) ELSE Accepted
      /\ Told(fed) \subseteq Told(fed')
  BY <1>1, Heard
<1>3. /\ fed \in Seq(Fed) /\ Len(fed) \in Nat /\ Shown \in Seq(1 .. Len(fed))
      /\ Accepted \in Seq(1 .. Len(fed)) /\ HeldItems \in Seq(1 .. Len(fed))
      /\ Shown = Among(All(out), Owed) /\ Accepted = Shown \o Among(HeldItems, Owed)
      /\ held # NoEntry => held \in EntriesOf(fed) /\ held.of \in 1 .. Len(fed)
  BY Types DEF DInv, Whole
<1>4. Shown' = Among(All(out'), Owed')
  BY DEF Shown, All
<1>5. n \in N /\ Seq(1 .. Len(fed)) \subseteq Seq(N)
  BY <1>2, <1>3
<1>6. \A rows \in Built(held) :
         /\ out \o rows \in Seq(Told(fed')) /\ Among(All(out \o rows), Owed') = Accepted
  <2>. TAKE rows \in Built(held)
  <2>1. out \o rows \in Seq(Told(fed)) /\ Among(All(out \o rows), Owed') = Accepted
    BY <1>2, AllEmitted
  <2>. QED  BY <1>2, <2>1
<1>7. /\ Among(All(out), Owed') = Shown
      /\ Among(HeldItems, Owed') = Among(HeldItems, Owed)
      /\ Among(HeldItems, Owed') \in Seq(N)
      /\ out \in Seq(Told(fed'))
  <2>1. /\ Among(All(out), Owed') = Shown
        /\ Among(HeldItems, Owed') = Among(HeldItems, Owed)
        /\ Among(HeldItems, Owed') \in Seq(1 .. Len(fed))
    BY <1>2, StillShown
  <2>2. out \in Seq(Told(fed))
    BY DEF DInv
  <2>. QED  BY <1>2, <1>5, <2>1, <2>2
<1>8. /\ Whole <=> Accepted = Shown \o Among(HeldItems, Owed)
  BY DEF Whole
<1>9. timer'.on => timer.on
  BY DEF AddLine, DInv, Inv, Clock
<1>. HIDE DEF n, N
<1>. DEFINE rest == Among(HeldItems', Owed')
<1>10. SUFFICES
         /\ out' \in Seq(Told(fed')) /\ (held' = NoEntry /\ flushed' = 0 => owner' = 0)
         /\ \E m \in Seq(N) : Shown' = Shown \o m
         /\ rest \in Seq(N) /\ Accepted' = Shown' \o rest
  <2>. HIDE DEF rest
  <2>1. ASSUME /\ out' \in Seq(Told(fed')) /\ (held' = NoEntry /\ flushed' = 0 => owner' = 0)
               /\ \E m \in Seq(N) : Shown' = Shown \o m
               /\ rest \in Seq(N) /\ Accepted' = Shown' \o rest
        PROVE  DInv' /\ Delivery!Next
    <3>1. PICK m \in Seq(N) : Shown' = Shown \o m
      BY <2>1
    <3>2. Shown \in Seq(N)
      BY <1>3, <1>5
    <3>3. PICK r : r = rest
      OBVIOUS
    <3>4. r \in Seq(N) /\ Accepted' = Shown' \o r
      BY <2>1, <3>3
    <3>5. Accepted' = Accepted \/ \E x \in Positions : Accepted' = Append(Accepted, x)
      BY <1>2
    <3>6. Delivery!Next
      BY <1>1, <3>1, <3>2, <3>4, <3>5, Progress
    <3>7. Whole'
      BY <2>1 DEF Whole, rest
    <3>8. NothingSkipped'
      BY <2>1 DEF NothingSkipped
    <3>. QED  BY <1>1, <2>1, <3>6, <3>7, <3>8 DEF DInv
  <2>. QED  BY <2>1
<1>. HIDE DEF rest
<1>11. /\ Accepted \in Seq(N) /\ Shown \in Seq(N) /\ Among(HeldItems, Owed) \in Seq(N)
       /\ <<>> \in Seq(N) /\ <<n>> \in Seq(N)
  BY <1>3, <1>5, <1>7
<1>12. Accepted' = Accepted \o (IF n \in Owed' THEN <<n>> ELSE <<>>)
  <2>1. Append(Accepted, n) = Accepted \o <<n>> /\ Accepted \o <<>> = Accepted
    BY <1>5, <1>11
  <2>. QED  BY <1>2, <2>1
<1>13. CASE kind = "header" /\ Header(n)
  <2>1. PICK rows \in Built(held) : out' = out \o rows
    BY <1>13 DEF Header
  <2>2. held' = [of |-> n, resumed |-> FALSE, lines |-> <<>>]
    BY <1>13 DEF Header
  <2>3. held' \in Entry
    BY <1>2, <2>2 DEF Entry
  <2>4. held' # NoEntry
    BY <2>3, NullAssumption DEF Entry
  <2>5. HeldItems' = <<n>>
    <3>1. Items(held') = <<n>> \o <<>>
      BY <2>2 DEF Items
    <3>2. <<n>> \o <<>> = <<n>>
      OBVIOUS
    <3>. QED  BY <2>4, <3>1, <3>2 DEF HeldItems
  <2>6. n \in Owed'
    BY <1>2, <1>13
  <2>7. rest = <<n>>
    BY <2>5, <2>6, AmongOne DEF rest
  <2>8. Shown' = Accepted
    BY <1>4, <1>6, <2>1
  <2>. QED  BY <1>3, <1>6, <1>11, <1>12, <2>1, <2>4, <2>6, <2>7, <2>8
<1>14. CASE kind = "separator" /\ Separator(n)
  <2>1. PICK rows \in Built(held) : out' = Append(out \o rows, Single("notice", n))
    BY <1>14 DEF Separator
  <2>2. held' = NoEntry /\ flushed' = 0 /\ owner' = 0
    BY <1>1, <1>14 DEF Separator, Record
  <2>3. n \in Owed'
    BY <1>2, <1>14
  <2>4. /\ out' \in Seq(Told(fed'))
        /\ Among(All(out'), Owed') = Among(All(out \o rows), Owed') \o <<n>>
    <3>1. PICK o : o = out \o rows
      OBVIOUS
    <3>2. o \in Seq(Told(fed'))
      BY <1>6, <3>1
    <3>3. n \in 1 .. Len(fed')
      BY <1>5 DEF N
    <3>4. /\ Append(o, Single("notice", n)) \in Seq(Told(fed'))
          /\ Among(All(Append(o, Single("notice", n))), Owed') = Among(All(o), Owed') \o <<n>>
      BY <1>2, <2>3, <3>2, <3>3, SingleShown
    <3>. QED  BY <2>1, <3>1, <3>4
  <2>5. Shown' = Accepted \o <<n>>
    BY <1>4, <1>6, <2>4
  <2>6. Shown' = Shown \o (Among(HeldItems, Owed) \o <<n>>)
    BY <1>3, <1>11, <2>5
  <2>7. Among(HeldItems, Owed) \o <<n>> \in Seq(N)
    BY <1>11
  <2>8. rest = <<>>
    BY <2>2, AmongEmpty DEF HeldItems, rest
  <2>9. Accepted' = Shown' \o <<>>
    <3>1. Accepted \o <<n>> \in Seq(N)
      BY <1>11
    <3>. QED  BY <1>12, <2>3, <2>5, <3>1, EmptyConcat
  <2>. QED  BY <1>11, <2>2, <2>4, <2>6, <2>7, <2>8, <2>9
<1>15. CASE kind = "status" /\ ToolStatus
  <2>1. PICK rows \in Built(held) : out' = out \o rows
    BY <1>15 DEF ToolStatus
  <2>2. held' = NoEntry /\ flushed' = 0 /\ owner' = 0
    BY <1>1, <1>15 DEF ToolStatus, Record
  <2>3. n \notin Owed'
    BY <1>2, <1>15
  <2>4. Shown' = Accepted
    BY <1>4, <1>6, <2>1
  <2>5. rest = <<>>
    BY <2>2, AmongEmpty DEF HeldItems, rest
  <2>6. Accepted' = Shown' \o <<>>
    BY <1>12, <2>3, <2>4
  <2>. QED  BY <1>3, <1>6, <1>11, <2>1, <2>2, <2>4, <2>5, <2>6
<1>16. CASE kind \in {"text", "blank"} /\ Body(n)
  <2>1. out' = out /\ flushed' = flushed /\ owner' = owner
    BY <1>1, <1>16 DEF Body, Record
  <2>2. Shown' = Shown /\ Shown = Shown \o <<>>
    BY <1>4, <1>7, <1>11, <2>1
  <2>3. CASE held # NoEntry
    <3>1. /\ held' = [held EXCEPT !.lines = Append(@, n)] /\ held \in Entry
      BY <1>3, <1>16, <2>3 DEF Body, EntriesOf
    <3>2. held' = [of |-> held.of, resumed |-> held.resumed, lines |-> Append(held.lines, n)]
          /\ held.of \in Positions /\ held.resumed \in BOOLEAN /\ held.lines \in Seq(Positions)
      BY <3>1 DEF Entry
    <3>3. held' \in Entry
      <4>1. Append(held.lines, n) \in Seq(Positions)
        BY <1>2, <3>2
      <4>. QED  BY <3>2, <4>1 DEF Entry
    <3>4. held' # NoEntry
      BY <3>3, NullAssumption DEF Entry
    <3>5. Items(held') = Append(Items(held), n)
      <4>1. CASE held.resumed
        BY <3>2, <4>1 DEF Items
      <4>2. CASE ~held.resumed
        <5>1. <<held.of>> \o Append(held.lines, n) = Append(<<held.of>> \o held.lines, n)
          BY <1>2, <3>2
        <5>. QED  BY <3>2, <4>2, <5>1 DEF Items
      <4>. QED  BY <4>1, <4>2
    <3>6. HeldItems' = Append(HeldItems, n)
      BY <2>3, <3>4, <3>5 DEF HeldItems
    <3>7. HeldItems \in Seq(N)
      BY <1>3, <1>5
    <3>8. rest = IF n \in Owed' THEN Append(Among(HeldItems, Owed'), n)
                 ELSE Among(HeldItems, Owed')
      <4>1. PICK U : U = Owed'
        OBVIOUS
      <4>2. Among(Append(HeldItems, n), U) =
               IF n \in U THEN Append(Among(HeldItems, U), n) ELSE Among(HeldItems, U)
        BY <1>5, <3>7, AmongAppend
      <4>. QED  BY <3>6, <4>1, <4>2 DEF rest
    <3>9. rest \in Seq(N)
      BY <1>5, <1>7, <3>8
    <3>10. Accepted' = Shown \o rest
      <4>1. PICK q : q = Among(HeldItems, Owed)
        OBVIOUS
      <4>2. q \in Seq(N)
        BY <1>11, <4>1
      <4>3. Shown \o Append(q, n) = Append(Shown \o q, n)
        BY <1>5, <1>11, <4>2, ConcatAppend
      <4>4. rest = IF n \in Owed' THEN Append(q, n) ELSE q
        BY <1>7, <3>8, <4>1
      <4>5. Accepted = Shown \o q
        BY <1>3, <4>1
      <4>. QED  BY <1>2, <4>3, <4>4, <4>5, Zenon
    <3>. QED  BY <1>7, <1>11, <2>1, <2>2, <3>4, <3>9, <3>10
  <2>4. CASE held = NoEntry /\ flushed # 0
    <3>1. held' = [of |-> flushed, resumed |-> TRUE, lines |-> <<n>>]
      BY <1>16, <2>4 DEF Body
    <3>2. flushed \in Positions
      BY <1>3, <2>4, ParsingAssumption DEF DInv, Inv, Feed, Positions
    <3>3. held' \in Entry
      BY <1>2, <3>1, <3>2 DEF Entry
    <3>4. held' # NoEntry
      BY <3>3, NullAssumption DEF Entry
    <3>5. HeldItems' = <<n>>
      BY <3>1, <3>4 DEF HeldItems, Items
    <3>6. rest = IF n \in Owed' THEN <<n>> ELSE <<>>
      BY <3>5, AmongOne DEF rest
    <3>7. Accepted = Shown
      <4>1. Among(HeldItems, Owed) = <<>>
        BY <2>4, AmongEmpty DEF HeldItems
      <4>. QED  BY <1>3, <2>2, <4>1
    <3>8. rest \in Seq(N)
      BY <1>11, <3>6
    <3>. QED  BY <1>7, <1>11, <1>12, <2>1, <2>2, <3>4, <3>6, <3>7, <3>8
  <2>5. CASE held = NoEntry /\ flushed = 0
    <3>1. held' = NoEntry
      BY <1>16, <2>5 DEF Body
    <3>2. owner' = 0
      BY <2>1, <2>5 DEF DInv, NothingSkipped
    <3>3. n \notin Owed'
      BY <1>2, <1>16, <3>2
    <3>4. rest = <<>>
      BY <3>1, AmongEmpty DEF HeldItems, rest
    <3>5. Accepted = Shown
      <4>1. Among(HeldItems, Owed) = <<>>
        BY <2>5, AmongEmpty DEF HeldItems
      <4>. QED  BY <1>3, <2>2, <4>1
    <3>6. Accepted' = Accepted
      BY <1>2, <3>3
    <3>. QED  BY <1>7, <1>11, <2>1, <2>2, <3>2, <3>4, <3>5, <3>6
  <2>. QED  BY <2>3, <2>4, <2>5
<1>. QED  BY <1>13, <1>14, <1>15, <1>16 DEF AddLine, n

LEMMA ErrorDelivers ==
    ASSUME DInv, Inv', SourceError
    PROVE  DInv' /\ Delivery!Next
<1>. DEFINE n == Len(fed) + 1
            N == 1 .. Len(fed')
<1>1. /\ source = "open" /\ source' = "open" /\ Record("error") /\ owner' = owner
      /\ UNCHANGED <<platform, source>> /\ timer' = timer
  BY DEF SourceError, Record
<1>2. /\ fed' \in Seq(Fed) /\ Len(fed') = n /\ n \in Positions
      /\ \A k \in 1 .. Len(fed) : k \in Owed' <=> k \in Owed
      /\ n \in Owed' /\ Accepted' = Append(Accepted, n)
      /\ Told(fed) \subseteq Told(fed')
  BY <1>1, Heard
<1>3. /\ Len(fed) \in Nat /\ Shown \in Seq(1 .. Len(fed))
      /\ Accepted \in Seq(1 .. Len(fed)) /\ Accepted = Shown \o Among(HeldItems, Owed)
      /\ held # NoEntry => held.of \in 1 .. Len(fed)
  BY Types DEF DInv, Whole
<1>4. n \in N /\ Seq(1 .. Len(fed)) \subseteq Seq(N)
  BY <1>2, <1>3
<1>5. Among(HeldItems, Owed) \in Seq(1 .. Len(fed))
  BY Types, AmongType
<1>6. PICK rows \in Built(held) : out' = out \o rows \o <<Single("error", n)>>
  BY DEF SourceError, Flush
<1>7. out \o rows \in Seq(Told(fed)) /\ Among(All(out \o rows), Owed') = Accepted
  BY <1>2, AllEmitted
<1>8. out' \in Seq(Told(fed')) /\ Among(All(out'), Owed') = Accepted \o <<n>>
  <2>1. PICK o : o = out \o rows
    OBVIOUS
  <2>2. o \in Seq(Told(fed'))
    BY <1>2, <1>7, <2>1
  <2>3. /\ Append(o, Single("error", n)) \in Seq(Told(fed'))
        /\ Among(All(Append(o, Single("error", n))), Owed') = Among(All(o), Owed') \o <<n>>
    BY <1>2, <1>4, <2>2, SingleShown
  <2>4. out' = Append(o, Single("error", n))
    <3>1. PICK e : e = Single("error", n)
      OBVIOUS
    <3>2. o \o <<e>> = Append(o, e)
      BY <2>2
    <3>. QED  BY <1>6, <2>1, <3>1, <3>2
  <2>. QED  BY <1>7, <2>1, <2>3, <2>4
<1>. HIDE DEF n, N
<1>9. Shown' = Accepted \o <<n>>
  BY <1>8 DEF Shown, All
<1>10. held' = NoEntry /\ flushed' = IF held = NoEntry THEN flushed ELSE held.of
  BY DEF SourceError, Flush
<1>11. NothingSkipped'
  BY <1>1, <1>3, <1>10 DEF DInv, NothingSkipped
<1>12. Among(HeldItems', Owed') = <<>>
  BY <1>10, AmongEmpty DEF HeldItems
<1>13. /\ Accepted \in Seq(N) /\ Shown \in Seq(N) /\ Among(HeldItems, Owed) \in Seq(N)
       /\ <<>> \in Seq(N) /\ <<n>> \in Seq(N)
  BY <1>3, <1>4, <1>5
<1>14. Accepted' = Shown' \o <<>>
  <2>1. Append(Accepted, n) = Accepted \o <<n>> /\ Accepted \o <<n>> \in Seq(N)
    BY <1>4, <1>13
  <2>. QED  BY <1>2, <1>9, <2>1, EmptyConcat
<1>15. Shown' = Shown \o (Among(HeldItems, Owed) \o <<n>>)
  BY <1>3, <1>9, <1>13
<1>16. Among(HeldItems, Owed) \o <<n>> \in Seq(N)
  BY <1>13
<1>17. Delivery!Next
  <2>1. PICK m : m = Among(HeldItems, Owed) \o <<n>>
    OBVIOUS
  <2>2. m \in Seq(N) /\ Shown' = Shown \o m
    BY <1>15, <1>16, <2>1
  <2>. QED  BY <1>1, <1>2, <1>13, <1>14, <2>2, Progress
<1>18. Whole'
  BY <1>12, <1>14 DEF Whole
<1>. QED  BY <1>1, <1>8, <1>11, <1>17, <1>18 DEF DInv

\* Nothing is said: what was accepted stays, and an idle flush shows all of it.
LEMMA NothingHeard ==
    ASSUME fed' = fed
    PROVE  Owed' = Owed /\ Accepted' = Accepted
<1>1. Owed' = Owed
  BY DEF Owed, IsOwed
<1>. QED  BY <1>1 DEF Accepted

LEMMA FlushDelivers ==
    ASSUME DInv, fed' = fed, owner' = owner, Flush(<<>>)
    PROVE  /\ out' \in Seq(Told(fed')) /\ NothingSkipped' /\ Whole'
           /\ Shown' = Accepted /\ Accepted' = Accepted
<1>1. Owed' = Owed /\ Accepted' = Accepted
  BY NothingHeard
<1>2. PICK rows \in Built(held) : out' = out \o rows \o <<>>
  BY DEF Flush
<1>3. out \o rows \in Seq(Told(fed)) /\ Among(All(out \o rows), Owed) = Accepted
  BY AllEmitted
<1>4. out' = out \o rows
  <2>1. PICK o : o = out \o rows
    OBVIOUS
  <2>2. o \in Seq(Told(fed))
    BY <1>3, <2>1
  <2>3. o \o <<>> = o
    BY <2>2
  <2>. QED  BY <1>2, <2>1, <2>3
<1>5. Shown' = Accepted
  BY <1>1, <1>3, <1>4 DEF Shown, All
<1>6. held' = NoEntry /\ flushed' = IF held = NoEntry THEN flushed ELSE held.of
  BY DEF Flush
<1>7. held # NoEntry => held.of \in 1 .. Len(fed)
  BY Types
<1>8. NothingSkipped'
  BY <1>6, <1>7, Types DEF DInv, NothingSkipped
<1>9. Whole'
  <2>1. Among(HeldItems', Owed') = <<>>
    BY <1>6, AmongEmpty DEF HeldItems
  <2>2. Accepted \o <<>> = Accepted
    BY Types, EmptyConcat
  <2>. QED  BY <1>1, <1>5, <2>1, <2>2 DEF Whole
<1>. QED  BY <1>1, <1>3, <1>4, <1>5, <1>8, <1>9

\* Only the parser's own variables matter to the contract.
LEMMA Stutters ==
    ASSUME DInv, UNCHANGED <<platform, fed, owner, held, flushed, out>>
    PROVE  /\ out' \in Seq(Told(fed')) /\ NothingSkipped' /\ Whole'
           /\ Shown' = Shown /\ Accepted' = Accepted
<1>1. Owed' = Owed /\ Accepted' = Accepted
  BY NothingHeard
<1>2. Shown' = Shown /\ HeldItems' = HeldItems
  BY <1>1 DEF Shown, HeldItems
<1>3. out' \in Seq(Told(fed'))
  <2>1. Told(fed') = Told(fed)
    OBVIOUS
  <2>. QED  BY <2>1 DEF DInv
<1>. QED  BY <1>1, <1>2, <1>3 DEF DInv, NothingSkipped, Whole

LEMMA TickDelivers ==
    ASSUME DInv, Inv', Tick
    PROVE  DInv' /\ (Delivery!Next \/ UNCHANGED <<Accepted, Shown, Outcome>>)
<1>1. /\ source = "open" /\ source' = "open" /\ UNCHANGED <<platform, fed, owner>>
  BY DEF Tick, DInv
<1>2. CASE Flush(<<>>)
  <2>1. /\ out' \in Seq(Told(fed')) /\ NothingSkipped' /\ Whole'
        /\ Shown' = Accepted /\ Accepted' = Accepted
    BY <1>1, <1>2, FlushDelivers
  <2>. DEFINE N == 1 .. Len(fed)
  <2>2. /\ Accepted \in Seq(N) /\ Shown \in Seq(N) /\ Among(HeldItems, Owed) \in Seq(N)
        /\ Accepted = Shown \o Among(HeldItems, Owed)
    BY Types, AmongType DEF DInv, Whole
  <2>. HIDE DEF N
  <2>3. <<>> \in Seq(N) /\ Accepted' = Shown' \o <<>>
    BY <2>1, <2>2
  <2>4. PICK m : m = Among(HeldItems, Owed)
    OBVIOUS
  <2>5. m \in Seq(N) /\ Shown' = Shown \o m
    BY <2>1, <2>2, <2>4
  <2>6. Delivery!Next
    BY <1>1, <2>1, <2>2, <2>3, <2>5, Progress
  <2>. QED  BY <1>1, <2>1, <2>6 DEF DInv
<1>3. CASE UNCHANGED <<held, flushed, out>>
  <2>1. /\ out' \in Seq(Told(fed')) /\ NothingSkipped' /\ Whole'
        /\ Shown' = Shown /\ Accepted' = Accepted
    BY <1>1, <1>3, Stutters
  <2>2. Outcome' = Outcome
    BY <1>1 DEF Outcome
  <2>. QED  BY <1>1, <2>1, <2>2 DEF DInv
<1>. QED  BY <1>2, <1>3 DEF Tick

LEMMA SourceDelivers ==
    ASSUME DInv, Inv', Done \/ Pause \/ Resume \/ Cancel
    PROVE  DInv' /\ (Delivery!Next \/ UNCHANGED <<Accepted, Shown, Outcome>>)
<1>0. timer'.on => source' = "open"
  BY DEF Done, Pause, Resume, Cancel, DInv, Inv, Clock
<1>1. CASE Done
  <2>1. /\ out' \in Seq(Told(fed')) /\ NothingSkipped' /\ Whole'
        /\ Shown' = Accepted /\ Accepted' = Accepted
    BY <1>1, FlushDelivers DEF Done
  <2>2. Outcome = "open" /\ Outcome' = "ended"
    BY <1>1 DEF Done, Outcome
  <2>3. Delivery!Next
    BY <2>1, <2>2 DEF Delivery!Next, Delivery!End
  <2>. QED  BY <1>0, <2>1, <2>3 DEF DInv
<1>2. CASE Pause \/ Resume
  <2>1. /\ out' \in Seq(Told(fed')) /\ NothingSkipped' /\ Whole'
        /\ Shown' = Shown /\ Accepted' = Accepted
    BY <1>2, Stutters DEF Pause, Resume
  <2>2. Outcome' = Outcome
    BY <1>2 DEF Pause, Resume, Outcome
  <2>. QED  BY <1>0, <2>1, <2>2 DEF DInv
<1>3. CASE Cancel
  <2>1. /\ out' \in Seq(Told(fed')) /\ NothingSkipped' /\ Whole'
        /\ Shown' = Shown /\ Accepted' = Accepted
    BY <1>3, Stutters DEF Cancel
  <2>2. Outcome = "open" /\ Outcome' = "left"
    BY <1>3 DEF Cancel, Outcome
  <2>3. Delivery!Next
    BY <2>1, <2>2 DEF Delivery!Next, Delivery!Leave
  <2>. QED  BY <1>0, <2>1, <2>3 DEF DInv
<1>. QED  BY <1>1, <1>2, <1>3

LEMMA StepDelivers ==
    DInv /\ [Next]_vars => DInv' /\ [Delivery!Next]_(Delivery!vars)
<1>. SUFFICES ASSUME DInv, [Next]_vars
              PROVE  DInv' /\ (Delivery!Next \/ UNCHANGED <<Accepted, Shown, Outcome>>)
  BY DEF Delivery!vars
<1>1. Inv'
  BY NextInv DEF DInv
<1>2. CASE UNCHANGED vars
  <2>1. /\ out' \in Seq(Told(fed')) /\ NothingSkipped' /\ Whole'
        /\ Shown' = Shown /\ Accepted' = Accepted
    BY <1>2, Stutters DEF vars
  <2>2. Outcome' = Outcome /\ timer' = timer /\ source' = source
    BY <1>2 DEF vars, Outcome
  <2>. QED  BY <1>1, <2>1, <2>2 DEF DInv
<1>. QED  BY <1>1, <1>2, LineDelivers, ErrorDelivers, TickDelivers, SourceDelivers DEF Next

LEMMA InitDelivers == Init => DInv /\ Delivery!Init
<1>. SUFFICES ASSUME Init PROVE DInv /\ Delivery!Init
  OBVIOUS
<1>1. fed = <<>> /\ out = <<>> /\ held = NoEntry /\ owner = 0 /\ source = "open"
  BY DEF Init
<1>2. Inv
  BY InitInv
<1>3. Accepted = <<>>
  <2>1. [n \in DOMAIN fed |-> n] = <<>>
    BY <1>1
  <2>. QED  BY <2>1, AmongEmpty DEF Accepted
<1>4. Shown = <<>>
  <2>1. [r \in DOMAIN out |-> Items(out[r])] = <<>>
    BY <1>1
  <2>2. FlattenSeq(<<>>) = <<>>
    BY DEF FlattenSeq
  <2>. QED  BY <2>1, <2>2, AmongEmpty DEF Shown
<1>5. Whole
  <2>1. Among(HeldItems, Owed) = <<>>
    BY <1>1, AmongEmpty DEF HeldItems
  <2>. QED  BY <1>3, <1>4, <2>1 DEF Whole
<1>6. Outcome = "open"
  BY <1>1 DEF Outcome
<1>7. out \in Seq(Told(fed))
  BY <1>1
<1>. QED  BY <1>1, <1>2, <1>3, <1>4, <1>5, <1>6, <1>7
          DEF DInv, NothingSkipped, Delivery!Init

\* parseLogLines, with either parser, is a log stream as LogDelivery promises:
\* what the tool says is shown once and in order, and all of it when it ends.
THEOREM ParserDelivers == Spec => DeliversAsPromised
<1>. QED  BY InitDelivers, StepDelivers, PTL DEF Spec, DeliversAsPromised, Delivery!Spec
==============================================================================
