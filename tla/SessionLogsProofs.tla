-------------------------- MODULE SessionLogsProofs --------------------------
(***************************************************************************)
(* That the tabs of a session stay in order, that each holds a stream of   *)
(* its own or none, and that the streams share one poll, for any number    *)
(* of tabs, streams and imports and whatever the periods are.              *)
(*                                                                         *)
(* A repository that was disposed of may see a stream open still, which    *)
(* takes the poll up again; what holds on either side of that is that no   *)
(* more consumers are counted than streams are open, and that the poll     *)
(* runs exactly while one is counted.                                      *)
(***************************************************************************)
EXTENDS SessionLogs, FiniteSetTheorems, TLAPS

Counted ==
    /\ consumers <= Cardinality(Open)
    /\ ~closed => consumers = Cardinality(Open)
    /\ poll = Off <=> consumers = 0

Shared == TypeOK /\ Counted

Listed ==
    /\ List!TypeOK /\ List!TabsAreOwned /\ List!ATabRemains
    /\ ToSet(tabs) \subseteq used
    /\ picking + picks <= MaxImports

\* With the streams cancelled: each is on its way out, none is over.
Held == HoldsItsOwn /\ \A s \in cancelled : stream[s] # "idle"

Inv == Shared /\ Listed /\ Held

-----------------------------------------------------------------------------
(* The poll.                                                               *)

LEMMA OpenIsFinite ==
    ASSUME NEW S \in SUBSET Streams
    PROVE  IsFiniteSet(S) /\ Cardinality(S) \in Nat /\ Cardinality(S) <= Cardinality(Streams)
<1>1. IsFiniteSet(Streams)
  BY PidCacheAssumption
<1>. QED  BY <1>1, FS_Subset, FS_CardinalityType

LEMMA OneMoreOpen ==
    ASSUME NEW S \in SUBSET Streams, NEW s \in Streams \ S
    PROVE  Cardinality(S \cup {s}) = Cardinality(S) + 1
BY OpenIsFinite, FS_AddElement

LEMMA OneOpenFewer ==
    ASSUME NEW S \in SUBSET Streams, NEW s \in S
    PROVE  Cardinality(S \ {s}) = Cardinality(S) - 1
BY OpenIsFinite, FS_RemoveElement

LEMMA NoneOpen == ASSUME NEW S \in SUBSET Streams PROVE Cardinality(S) = 0 <=> S = {}
BY OpenIsFinite, FS_EmptySet

LEMMA SharedInit == Init => Shared
<1>. SUFFICES ASSUME Init PROVE Shared
  OBVIOUS
<1>1. Open = {}
  BY DEF Init, Open
<1>2. Cardinality(Open) = 0 /\ Cardinality(Streams) \in Nat
  BY <1>1, FS_EmptySet, OpenIsFinite
<1>3. TypeOK
  <2>1. consumers \in 0 .. Cardinality(Streams) /\ age \in 0 .. MinInterval
        /\ delay \in 0 .. MinInterval
    BY <1>2, PidCacheAssumption DEF Init
  <2>2. {inFlight, requested, closed, unlisted} \subseteq BOOLEAN
    BY DEF Init
  <2>. QED  BY <2>1, <2>2 DEF Init, TypeOK
<1>. QED  BY <1>2, <1>3 DEF Init, Shared, Counted

\* Steps that neither open nor end a stream, nor touch the poll.
LEMMA PollStays ==
    ASSUME Shared, TypeOK', UNCHANGED polling, closed' = closed, Open' = Open
    PROVE  Shared'
BY DEF Shared, Counted, polling

LEMMA OpenStreamStep == ASSUME Shared, NEW s \in Streams, OpenStream(s) PROVE Shared'
<1>1. /\ stream \in [Streams -> {"idle", "starting", "resumed", "open"}]
      /\ stream[s] = "resumed" /\ stream' = [stream EXCEPT ![s] = "open"]
      /\ consumers' = consumers + 1 /\ poll' = IF poll = Off THEN PollPeriod ELSE poll
      /\ UNCHANGED <<cancelled, refresh, age, request, closed>>
  BY DEF Shared, TypeOK, OpenStream, Retain
<1>2. Open' = Open \cup {s} /\ Open \in SUBSET Streams /\ s \in Streams \ Open
      /\ Open' \in SUBSET Streams
  BY <1>1 DEF Open
<1>3. Cardinality(Open') = Cardinality(Open) + 1 /\ Cardinality(Open) \in Nat
      /\ Cardinality(Open') <= Cardinality(Streams) /\ Cardinality(Streams) \in Nat
  BY <1>2, OneMoreOpen, OpenIsFinite
<1>4. consumers \in Nat /\ consumers <= Cardinality(Open)
  BY <1>3 DEF Shared, TypeOK, Counted
<1>5. stream' \in [Streams -> {"idle", "starting", "resumed", "open"}]
  BY <1>1
<1>6. poll' \in 0 .. PollPeriod \cup {Off} /\ poll' # Off
  BY <1>1, PidCacheAssumption DEF Shared, TypeOK
<1>7. TypeOK'
  BY <1>1, <1>3, <1>4, <1>5, <1>6 DEF Shared, TypeOK, refresh, request
<1>8. Counted'
  BY <1>1, <1>3, <1>4, <1>6 DEF Shared, Counted
<1>. QED  BY <1>7, <1>8 DEF Shared

LEMMA EndStreamStep == ASSUME Shared, NEW s \in Streams, EndStream(s) PROVE Shared'
<1>1. /\ stream \in [Streams -> {"idle", "starting", "resumed", "open"}]
      /\ stream[s] = "open" /\ stream' = [stream EXCEPT ![s] = "idle"]
      /\ consumers' = IF consumers > 0 THEN consumers - 1 ELSE 0
      /\ poll' = IF consumers' = 0 THEN Off ELSE poll
      /\ cancelled' = cancelled \ {s}
      /\ UNCHANGED <<refresh, age, request, closed>>
  BY DEF Shared, TypeOK, EndStream, Release
<1>2. Open' = Open \ {s} /\ Open \in SUBSET Streams /\ s \in Open
  BY <1>1 DEF Open
<1>3. Cardinality(Open') = Cardinality(Open) - 1 /\ Cardinality(Open) \in Nat
      /\ Cardinality(Open') \in Nat /\ Cardinality(Streams) \in Nat
  BY <1>2, OneOpenFewer, OpenIsFinite
<1>4. consumers \in 0 .. Cardinality(Streams) /\ consumers <= Cardinality(Open)
  BY <1>3 DEF Shared, TypeOK, Counted
<1>5. stream' \in [Streams -> {"idle", "starting", "resumed", "open"}]
  BY <1>1
<1>6. /\ consumers' \in 0 .. Cardinality(Streams) /\ consumers' <= Cardinality(Open')
      /\ consumers = Cardinality(Open) => consumers' = Cardinality(Open')
  BY <1>1, <1>3, <1>4
<1>7. TypeOK'
  BY <1>1, <1>5, <1>6 DEF Shared, TypeOK, refresh, request
<1>8. consumers' # 0 => consumers # 0
  BY <1>1, <1>3, <1>4
<1>9. Counted'
  BY <1>1, <1>6, <1>8 DEF Shared, Counted
<1>. QED  BY <1>7, <1>9 DEF Shared

\* The other steps of the streams.
LEMMA StreamStep ==
    ASSUME Shared, NEW s \in Streams, StartStream(s) \/ CancelStream(s)
    PROVE  Shared'
<1>1. CASE StartStream(s)
  <2>1. /\ stream[s] = "idle" /\ stream' = [stream EXCEPT ![s] = "starting"]
        /\ UNCHANGED <<cancelled, polling, age, request, closed>>
        /\ inFlight' = TRUE /\ unlisted' = (unlisted /\ inFlight)
    BY <1>1 DEF StartStream, StartOrShare
  <2>2. Open' = Open
    BY <2>1 DEF Open, Shared, TypeOK
  <2>3. stream' \in [Streams -> {"idle", "starting", "resumed", "open"}]
    BY <2>1 DEF Shared, TypeOK
  <2>4. {inFlight', unlisted'} \subseteq BOOLEAN
    BY <2>1 DEF Shared, TypeOK
  <2>5. TypeOK'
    BY <2>1, <2>3, <2>4 DEF Shared, TypeOK, polling, request
  <2>. QED  BY <2>1, <2>2, <2>5, PollStays
<1>2. CASE CancelStream(s)
  <2>1. /\ UNCHANGED <<stream, polling, refresh, age, request, closed>>
        /\ cancelled' \subseteq Streams
    BY <1>2 DEF CancelStream, Shared, TypeOK
  <2>2. TypeOK' /\ Open' = Open
    BY <2>1 DEF Shared, TypeOK, Open, polling, refresh, request
  <2>. QED  BY <2>1, <2>2, PollStays
<1>. QED  BY <1>1, <1>2

LEMMA PsEndsStep == ASSUME Shared, PsEnds PROVE Shared'
<1>1. /\ stream' = [s \in Streams |-> IF stream[s] = "starting" THEN "resumed" ELSE stream[s]]
      /\ inFlight' = FALSE /\ age' = 0 /\ requester' \in {requester, "resumed"}
      /\ UNCHANGED <<cancelled, polling, requested, delay, closed, unlisted>>
  BY DEF PsEnds
<1>2. stream' \in [Streams -> {"idle", "starting", "resumed", "open"}]
  BY <1>1 DEF Shared, TypeOK
<1>3. Open' = Open
  BY <1>1 DEF Open
<1>4. age' \in 0 .. MinInterval
  BY <1>1, PidCacheAssumption
<1>5. TypeOK'
  BY <1>1, <1>2, <1>4 DEF Shared, TypeOK, polling
<1>. QED  BY <1>1, <1>3, <1>5, PollStays

LEMMA PollFiresStep == ASSUME Shared, PollFires PROVE Shared'
<1>1. /\ poll = 0 /\ poll' = PollPeriod
      /\ inFlight' = TRUE /\ unlisted' = (unlisted /\ inFlight)
      /\ UNCHANGED <<stream, cancelled, consumers, age, request, closed>>
  BY DEF PollFires, StartOrShare
<1>2. poll # Off /\ poll' # Off /\ poll' \in 0 .. PollPeriod \cup {Off}
  BY <1>1, PidCacheAssumption
<1>3. {inFlight', unlisted'} \subseteq BOOLEAN
  BY <1>1 DEF Shared, TypeOK
<1>4. TypeOK'
  BY <1>1, <1>2, <1>3 DEF Shared, TypeOK, request
<1>5. Open' = Open
  BY <1>1 DEF Open
<1>. QED  BY <1>1, <1>2, <1>4, <1>5 DEF Shared, Counted

\* What a request that is taken up changes.
LEMMA RequestRuns ==
    ASSUME Shared, RunRequest
    PROVE  {inFlight', requested', unlisted'} \subseteq BOOLEAN
<1>1. CASE closed
  BY <1>1 DEF RunRequest, Shared, TypeOK, refresh
<1>2. CASE ~closed
  <2>1. requested' = FALSE /\ inFlight' = TRUE /\ unlisted' = (unlisted /\ inFlight)
    BY <1>2 DEF RunRequest, StartOrShare
  <2>. QED  BY <2>1 DEF Shared, TypeOK
<1>. QED  BY <1>1, <1>2

LEMMA RequestStep == ASSUME Shared, Request \/ ResumeRequest \/ DelayEnds PROVE Shared'
<1>1. UNCHANGED <<stream, cancelled, polling, age, closed>>
  BY DEF Request, ResumeRequest, DelayEnds
<1>2. Open' = Open
  BY <1>1 DEF Open
<1>3. {inFlight', requested', unlisted'} \subseteq BOOLEAN
  <2>1. CASE Request
    BY <2>1 DEF Request, Shared, TypeOK
  <2>2. CASE ResumeRequest
    BY <2>2, RequestRuns DEF ResumeRequest, Shared, TypeOK, refresh
  <2>3. CASE DelayEnds
    BY <2>3, RequestRuns DEF DelayEnds
  <2>. QED  BY <2>1, <2>2, <2>3
<1>4. requester' \in {"none", "joining", "resumed", "delaying"}
  BY DEF Request, ResumeRequest, DelayEnds, Shared, TypeOK
<1>5. delay' \in 0 .. MinInterval
  <2>1. delay' = delay \/ delay' = MinInterval - age
    BY DEF Request, ResumeRequest, DelayEnds
  <2>. QED  BY <2>1, PidCacheAssumption DEF Shared, TypeOK
<1>6. TypeOK'
  BY <1>1, <1>3, <1>4, <1>5 DEF Shared, TypeOK, polling
<1>. QED  BY <1>1, <1>2, <1>6, PollStays

LEMMA TimeStep == ASSUME Shared, Tick PROVE Shared'
<1>1. /\ poll # 0 /\ poll' = IF poll = Off THEN Off ELSE poll - 1
      /\ UNCHANGED <<stream, cancelled, consumers, refresh, requested, requester, closed>>
  BY DEF Tick
<1>2. poll' \in 0 .. PollPeriod \cup {Off} /\ (poll' = Off <=> poll = Off)
  BY <1>1, PidCacheAssumption DEF Shared, TypeOK
<1>3. age' \in 0 .. MinInterval /\ delay' \in 0 .. MinInterval
  BY PidCacheAssumption DEF Tick, Shared, TypeOK
<1>4. TypeOK'
  BY <1>1, <1>2, <1>3 DEF Shared, TypeOK, refresh
<1>5. Open' = Open
  BY <1>1 DEF Open
<1>. QED  BY <1>1, <1>2, <1>4, <1>5 DEF Shared, Counted

LEMMA DisposeStep == ASSUME Shared, NEW S \in SUBSET Streams, Dispose(S) PROVE Shared'
<1>1. /\ poll' = Off /\ consumers' = 0 /\ closed' = TRUE
      /\ cancelled' \subseteq Streams
      /\ UNCHANGED <<stream, refresh, age, request>>
  BY DEF Dispose, Cancel, Shared, TypeOK
<1>2. Open' = Open /\ Open \in SUBSET Streams
  BY <1>1 DEF Open
<1>3. Cardinality(Open) \in Nat /\ Cardinality(Streams) \in Nat
  BY <1>2, OpenIsFinite
<1>4. closed' \in BOOLEAN /\ consumers' \in 0 .. Cardinality(Streams)
  BY <1>1, <1>3
<1>5. TypeOK'
  BY <1>1, <1>4 DEF Shared, TypeOK, refresh, request
<1>6. Counted'
  BY <1>1, <1>2, <1>3 DEF Counted
<1>. QED  BY <1>5, <1>6 DEF Shared

\* A tab that closes cancels its stream, and no more.
LEMMA CancelsStep ==
    ASSUME Shared, cancelled' \subseteq Streams,
           UNCHANGED <<stream, polling, refresh, age, request, closed>>
    PROVE  Shared'
<1>1. TypeOK' /\ Open' = Open
  BY DEF Shared, TypeOK, Open, polling, refresh, request
<1>. QED  BY <1>1, PollStays

-----------------------------------------------------------------------------
(* The tabs.                                                               *)

\* The list's operators are those of this module.
LEMMA SameOperators ==
    /\ \A s : List!ToSet(s) = ToSet(s)
    /\ \A s : List!IsInjective(s) <=> IsInjective(s)
    /\ \A s, k : List!RemoveAt(s, k) = RemoveAt(s, k)
    /\ \A S : List!Cardinality(S) = Cardinality(S)
<1>1. \A s : List!ToSet(s) = ToSet(s)
  BY DEF List!ToSet, ToSet
<1>2. \A s : List!IsInjective(s) <=> IsInjective(s)
  BY DEF List!IsInjective, IsInjective
<1>3. \A s, k : List!RemoveAt(s, k) = RemoveAt(s, k)
  BY DEF List!RemoveAt, RemoveAt
<1>4. \A S : List!Cardinality(S) = Cardinality(S)
  BY DEF List!Cardinality, Cardinality
<1>. QED  BY <1>1, <1>2, <1>3, <1>4

LEMMA ListedInit == List!Init => Listed
<1>. SUFFICES ASSUME List!Init PROVE Listed
  OBVIOUS
<1>1. /\ kind \in Kinds
      /\ \/ kind = "imports" /\ tabs = <<>>
         \/ kind # "imports" /\ \E t \in Tab : tabs = <<t>>
      /\ imported = {} /\ selected = 0 /\ used = ToSet(tabs) /\ live = ToSet(tabs)
      /\ picking = 0 /\ picks = MaxImports /\ disposed = FALSE
  BY SameOperators DEF List!Init
<1>2. MaxImports \in Nat /\ Kinds \subseteq {"logs", "imports", "terminal"}
  BY TabsAssumption
<1>3. CASE kind = "imports" /\ tabs = <<>>
  <2>1. ToSet(tabs) = {} /\ IsInjective(tabs) /\ tabs \in Seq(Tab)
    BY <1>3 DEF ToSet, IsInjective
  <2>2. List!TypeOK
    <3>1. picking \in 0 .. MaxImports /\ picks \in 0 .. MaxImports /\ selected \in Nat
      BY <1>1, <1>2
    <3>. QED  BY <1>1, <2>1, <3>1, SameOperators DEF List!TypeOK
  <2>3. List!TabsAreOwned
    BY <1>1, <2>1, SameOperators DEF List!TabsAreOwned
  <2>4. List!ATabRemains
    BY <1>1, <1>3, <2>1 DEF List!ATabRemains
  <2>. QED  BY <1>1, <1>2, <2>1, <2>2, <2>3, <2>4 DEF Listed
<1>4. ASSUME NEW t \in Tab, kind # "imports", tabs = <<t>> PROVE Listed
  <2>1. ToSet(tabs) = {t} /\ IsInjective(tabs) /\ tabs \in Seq(Tab) /\ Len(tabs) = 1
        /\ tabs # <<>>
    BY <1>4 DEF ToSet, IsInjective
  <2>2. List!TypeOK
    <3>1. picking \in 0 .. MaxImports /\ picks \in 0 .. MaxImports /\ selected \in Nat
      BY <1>1, <1>2
    <3>. QED  BY <1>1, <2>1, <3>1, SameOperators DEF List!TypeOK
  <2>3. List!TabsAreOwned
    BY <1>1, <2>1, SameOperators DEF List!TabsAreOwned
  <2>4. List!ATabRemains
    BY <1>1, <2>1, SameOperators DEF List!ATabRemains, List!LiveTabs
  <2>. QED  BY <1>1, <1>2, <2>1, <2>2, <2>3, <2>4 DEF Listed
<1>. QED  BY <1>1, <1>3, <1>4

\* A fresh tab at the end.
LEMMA Appending ==
    ASSUME NEW S, NEW s \in Seq(S), NEW t \in S \ ToSet(s), IsInjective(s)
    PROVE  /\ ToSet(Append(s, t)) = ToSet(s) \cup {t}
           /\ IsInjective(Append(s, t))
           /\ Append(s, t) \in Seq(S) /\ Len(Append(s, t)) = Len(s) + 1 /\ Append(s, t) # <<>>
           /\ Len(s) \in Nat
<1>1. /\ Append(s, t) \in Seq(S) /\ Len(Append(s, t)) = Len(s) + 1 /\ Len(s) \in Nat
      /\ DOMAIN Append(s, t) = 1 .. Len(s) + 1 /\ DOMAIN s = 1 .. Len(s)
      /\ Append(s, t)[Len(s) + 1] = t
      /\ \A i \in 1 .. Len(s) : Append(s, t)[i] = s[i]
  OBVIOUS
<1>. DEFINE r == Append(s, t)
<1>. HIDE DEF r
<1>2. /\ r \in Seq(S) /\ Len(r) = Len(s) + 1 /\ Len(s) \in Nat
      /\ DOMAIN r = 1 .. Len(s) + 1 /\ DOMAIN s = 1 .. Len(s) /\ r[Len(s) + 1] = t
      /\ \A i \in 1 .. Len(s) : r[i] = s[i]
  BY <1>1 DEF r
<1>3. ToSet(r) = ToSet(s) \cup {t}
  BY <1>2 DEF ToSet
<1>4. IsInjective(r)
  BY <1>2 DEF ToSet, IsInjective
<1>5. r # <<>>
  BY <1>2
<1>. QED  BY <1>2, <1>3, <1>4, <1>5 DEF r

\* A tab taken out.
LEMMA Removing ==
    ASSUME NEW S, NEW s \in Seq(S), NEW i \in 1 .. Len(s), IsInjective(s)
    PROVE  /\ ToSet(RemoveAt(s, i)) = ToSet(s) \ {s[i]}
           /\ IsInjective(RemoveAt(s, i))
           /\ RemoveAt(s, i) \in Seq(S) /\ Len(RemoveAt(s, i)) = Len(s) - 1
<1>. DEFINE r == RemoveAt(s, i)
<1>. DEFINE a == SubSeq(s, 1, i - 1)
            b == SubSeq(s, i + 1, Len(s))
<1>a. /\ a \in Seq(S) /\ Len(a) = i - 1 /\ \A k \in 1 .. i - 1 : a[k] = s[k]
  OBVIOUS
<1>b. /\ b \in Seq(S) /\ Len(b) = Len(s) - i /\ \A k \in 1 .. Len(s) - i : b[k] = s[k + i]
  OBVIOUS
<1>c. r = a \o b
  BY DEF RemoveAt
<1>. HIDE DEF a, b, r
<1>d. /\ r \in Seq(S) /\ Len(r) = Len(a) + Len(b)
      /\ \A k \in 1 .. Len(a) + Len(b) : r[k] = IF k <= Len(a) THEN a[k] ELSE b[k - Len(a)]
  <2>1. a \in Seq(S) /\ b \in Seq(S)
    BY <1>a, <1>b
  <2>. QED  BY <1>c, <2>1
<1>e. Len(s) \in Nat /\ Len(r) = Len(s) - 1
  BY <1>a, <1>b, <1>d
<1>1. /\ r \in Seq(S) /\ Len(r) = Len(s) - 1 /\ Len(s) \in Nat
      /\ \A k \in 1 .. Len(s) - 1 : r[k] = IF k < i THEN s[k] ELSE s[k + 1]
  <2>1. ASSUME NEW k \in 1 .. Len(s) - 1, k < i PROVE r[k] = s[k]
    <3>1. k \in 1 .. i - 1 /\ k <= Len(a) /\ k \in 1 .. Len(a) + Len(b)
      BY <1>a, <1>b, <1>e, <2>1
    <3>2. r[k] = a[k]
      BY <1>d, <3>1
    <3>. QED  BY <1>a, <3>1, <3>2
  <2>2. ASSUME NEW k \in 1 .. Len(s) - 1, ~(k < i) PROVE r[k] = s[k + 1]
    <3>1. r[k] = b[k - (i - 1)] /\ k - (i - 1) \in 1 .. Len(s) - i
      BY <1>a, <1>b, <1>d, <1>e, <2>2
    <3>2. b[k - (i - 1)] = s[(k - (i - 1)) + i] /\ (k - (i - 1)) + i = k + 1
      BY <1>b, <3>1
    <3>. QED  BY <3>1, <3>2
  <2>. QED  BY <1>d, <1>e, <2>1, <2>2
<1>2. DOMAIN r = 1 .. Len(s) - 1 /\ DOMAIN s = 1 .. Len(s)
  BY <1>1
<1>3. IsInjective(r)
  BY <1>1, <1>2 DEF IsInjective
<1>4. ToSet(r) \subseteq ToSet(s) \ {s[i]}
  BY <1>1, <1>2 DEF IsInjective, ToSet
<1>5. ASSUME NEW k \in 1 .. Len(s), k # i PROVE s[k] \in ToSet(r)
  <2>1. CASE k < i
    <3>1. k \in 1 .. Len(s) - 1 /\ r[k] = s[k]
      BY <1>1, <2>1
    <3>. QED  BY <1>2, <3>1 DEF ToSet
  <2>2. CASE k > i
    <3>1. k - 1 \in 1 .. Len(s) - 1 /\ r[k - 1] = s[k]
      BY <1>1, <2>2
    <3>. QED  BY <1>2, <3>1 DEF ToSet
  <2>. QED  BY <1>5, <2>1, <2>2
<1>6. ToSet(s) \ {s[i]} \subseteq ToSet(r)
  BY <1>2, <1>5 DEF ToSet
<1>. QED  BY <1>1, <1>3, <1>4, <1>6 DEF r

\* What the list's invariant says, in one piece.
Told ==
    /\ kind \in Kinds /\ tabs \in Seq(Tab) /\ imported \subseteq used /\ used \subseteq Tab
    /\ live \subseteq used /\ selected \in Nat
    /\ picking \in 0 .. MaxImports /\ picks \in 0 .. MaxImports
    /\ disposed \in BOOLEAN
    /\ IsInjective(tabs) /\ live = IF disposed THEN {} ELSE ToSet(tabs)
    /\ tabs # <<>> => selected < Len(tabs)
    /\ used # {} => tabs # <<>>
    /\ kind = "logs" => \E t \in ToSet(tabs) : t \notin imported
    /\ ToSet(tabs) \subseteq used
    /\ picking + picks <= MaxImports

LEMMA ListedIsTold == Listed <=> Told
<1>1. List!TabsAreOwned <=> IsInjective(tabs) /\ live = IF disposed THEN {} ELSE ToSet(tabs)
  BY SameOperators DEF List!TabsAreOwned
<1>2. List!LiveTabs # {} <=> \E t \in ToSet(tabs) : t \notin imported
  BY SameOperators DEF List!LiveTabs
<1>. QED  BY <1>1, <1>2 DEF Listed, Told, List!TypeOK, List!ATabRemains

LEMMA ListStays == Told /\ UNCHANGED list => Told'
BY DEF Told, list

LEMMA AppendStep ==
    ASSUME Told, NEW t \in Tab, NEW holdsFile \in BOOLEAN, List!AppendTab(t, holdsFile),
           ~disposed, UNCHANGED <<kind, disposed>>,
           picking' \in 0 .. MaxImports, picks' \in 0 .. MaxImports,
           picking' + picks' <= MaxImports
    PROVE  Told'
<1>1. /\ t \notin used /\ t \notin ToSet(tabs) /\ tabs' = Append(tabs, t) /\ selected' = Len(tabs)
      /\ imported' = IF holdsFile THEN imported \cup {t} ELSE imported
      /\ used' = used \cup {t} /\ live' = live \cup {t}
  BY DEF Told, List!AppendTab
<1>2. tabs \in Seq(Tab) /\ IsInjective(tabs)
  BY DEF Told
<1>3. /\ ToSet(tabs') = ToSet(tabs) \cup {t} /\ IsInjective(tabs')
      /\ tabs' \in Seq(Tab) /\ Len(tabs') = Len(tabs) + 1 /\ tabs' # <<>> /\ Len(tabs) \in Nat
  BY <1>1, <1>2, Appending
<1>4. selected' \in Nat /\ selected' < Len(tabs')
  BY <1>1, <1>3
<1>5. imported' \subseteq used' /\ used' \subseteq Tab /\ live' \subseteq used'
      /\ ToSet(tabs') \subseteq used'
  BY <1>1, <1>3 DEF Told
<1>6. live' = IF disposed' THEN {} ELSE ToSet(tabs')
  BY <1>1, <1>3 DEF Told
<1>7. kind' = "logs" => \E u \in ToSet(tabs') : u \notin imported'
  <2>1. SUFFICES ASSUME kind = "logs" PROVE \E u \in ToSet(tabs') : u \notin imported'
    OBVIOUS
  <2>2. PICK u \in ToSet(tabs) : u \notin imported
    BY <2>1 DEF Told
  <2>. QED  BY <1>1, <1>3, <2>2
<1>8. kind' \in Kinds /\ disposed' \in BOOLEAN
  BY DEF Told
<1>. QED  BY <1>3, <1>4, <1>5, <1>6, <1>7, <1>8 DEF Told

LEMMA AddTabStep == ASSUME Told, NEW t \in Tab, List!AddTab(t) PROVE Told'
<1>1. List!AppendTab(t, FALSE) /\ ~disposed /\ UNCHANGED <<kind, picking, picks, disposed>>
  BY DEF List!AddTab
<1>2. picking' \in 0 .. MaxImports /\ picks' \in 0 .. MaxImports /\ picking' + picks' <= MaxImports
  BY <1>1 DEF Told
<1>. QED  BY <1>1, <1>2, AppendStep

LEMMA ImportLogStep == ASSUME Told, List!ImportLog PROVE Told'
<1>1. /\ picks > 0 /\ picking' = picking + 1 /\ picks' = picks - 1
      /\ UNCHANGED <<kind, tabs, imported, selected, used, live, disposed>>
  BY DEF List!ImportLog
<1>2. picking' \in 0 .. MaxImports /\ picks' \in 0 .. MaxImports /\ picking' + picks' <= MaxImports
  BY <1>1, TabsAssumption DEF Told
<1>. QED  BY <1>1, <1>2 DEF Told

LEMMA FileIsPickedStep == ASSUME Told, NEW t \in Tab, List!FileIsPicked(t) PROVE Told'
<1>1. /\ picking > 0 /\ picking' = picking - 1 /\ UNCHANGED <<kind, picks, disposed>>
  BY DEF List!FileIsPicked
<1>2. picking' \in 0 .. MaxImports /\ picks' \in 0 .. MaxImports /\ picking' + picks' <= MaxImports
  BY <1>1, TabsAssumption DEF Told
<1>3. CASE ~disposed /\ List!AppendTab(t, TRUE)
  BY <1>1, <1>2, <1>3, AppendStep
<1>4. CASE UNCHANGED <<tabs, imported, selected, used, live>>
  BY <1>1, <1>2, <1>4 DEF Told
<1>. QED  BY <1>3, <1>4 DEF List!FileIsPicked

LEMMA SelectTabStep == ASSUME Told, NEW index, List!SelectTab(index) PROVE Told'
<1>1. /\ index \in 0 .. (Len(tabs) - 1) /\ selected' = index
      /\ UNCHANGED <<kind, tabs, imported, used, live, picking, picks, disposed>>
  BY DEF List!SelectTab
<1>2. selected' \in Nat /\ selected' < Len(tabs)
  BY <1>1 DEF Told
<1>. QED  BY <1>1, <1>2 DEF Told

\* Whichever tab may close, another stays; and of a device's logs a live one.
LEMMA AnotherStays ==
    ASSUME Told, NEW index, List!CanClose(index)
    PROVE  /\ index + 1 \in 1 .. Len(tabs) /\ Len(tabs) > 1
           /\ kind = "logs" => \E t \in ToSet(tabs) \ {tabs[index + 1]} : t \notin imported
<1>. DEFINE gone == tabs[index + 1]
            alive == List!LiveTabs
<1>1. /\ index \in 0 .. (Len(tabs) - 1) /\ tabs \in Seq(Tab) /\ Len(tabs) \in Nat
      /\ kind = "imports" => Len(tabs) > 1
      /\ kind = "terminal" => index > 0
      /\ kind = "logs" => gone \in imported \/ Cardinality(alive) > 1
  <2>1. tabs \in Seq(Tab) /\ Len(tabs) \in Nat
    BY DEF Told
  <2>2. index \in 0 .. (Len(tabs) - 1)
    BY DEF List!CanClose
  <2>3. ASSUME kind = "imports" PROVE Len(tabs) > 1
    BY <2>3 DEF List!CanClose
  <2>4. ASSUME kind = "terminal" PROVE index > 0
    BY <2>4 DEF List!CanClose
  <2>5. ASSUME kind = "logs" PROVE gone \in imported \/ Cardinality(alive) > 1
    <3>1. gone \in imported \/ List!Cardinality(alive) > 1
      BY <2>5 DEF List!CanClose, List!At
    <3>. QED  BY <3>1, SameOperators
  <2>. QED  BY <2>1, <2>2, <2>3, <2>4, <2>5
<1>2. index + 1 \in 1 .. Len(tabs) /\ gone \in ToSet(tabs)
  BY <1>1 DEF ToSet
<1>3. kind \in {"imports", "terminal", "logs"}
  BY TabsAssumption DEF Told
<1>4. alive = {t \in ToSet(tabs) : t \notin imported} /\ alive \subseteq Tab
  BY SameOperators DEF List!LiveTabs, Told
<1>5. ASSUME kind = "logs" PROVE \E t \in ToSet(tabs) \ {gone} : t \notin imported
  <2>1. CASE gone \in imported
    BY <1>5, <2>1 DEF Told
  <2>2. CASE Cardinality(alive) > 1
    <3>1. IsFiniteSet(alive)
      BY <1>4, TabsAssumption, FS_Subset
    <3>2. alive # {gone} /\ alive # {}
      <4>1. Cardinality({}) = 0 /\ Cardinality({gone}) = 1
        BY FS_EmptySet, FS_Singleton
      <4>. QED  BY <2>2, <4>1
    <3>3. PICK t \in alive : t # gone
      BY <3>2
    <3>. QED  BY <1>4, <3>3
  <2>. QED  BY <1>1, <1>5, <2>1, <2>2
<1>6. Len(tabs) > 1
  <2>1. CASE kind = "logs"
    <3>1. PICK t \in ToSet(tabs) : t # gone
      BY <1>5, <2>1
    <3>2. PICK k \in 1 .. Len(tabs) : tabs[k] = t
      BY <1>1, <3>1 DEF ToSet
    <3>. QED  BY <1>1, <1>2, <3>1, <3>2
  <2>2. CASE kind = "imports"
    BY <1>1, <2>2
  <2>3. CASE kind = "terminal"
    BY <1>1, <2>3
  <2>. QED  BY <1>3, <2>1, <2>2, <2>3
<1>. QED  BY <1>2, <1>5, <1>6

LEMMA CloseTabStep == ASSUME Told, NEW index, List!CloseTab(index) PROVE Told'
<1>. DEFINE gone == tabs[index + 1]
<1>1. /\ ~disposed /\ List!CanClose(index)
      /\ live' = live \ {gone} /\ tabs' = RemoveAt(tabs, index + 1)
      /\ selected' = IF selected < Len(tabs') THEN selected ELSE Len(tabs') - 1
      /\ UNCHANGED <<kind, imported, used, picking, picks, disposed>>
  BY SameOperators DEF List!CloseTab, List!At
<1>2. /\ index + 1 \in 1 .. Len(tabs) /\ Len(tabs) > 1
      /\ kind = "logs" => \E t \in ToSet(tabs) \ {gone} : t \notin imported
  BY <1>1, AnotherStays
<1>3. tabs \in Seq(Tab) /\ IsInjective(tabs)
  BY DEF Told
<1>4. /\ ToSet(tabs') = ToSet(tabs) \ {gone} /\ IsInjective(tabs')
      /\ tabs' \in Seq(Tab) /\ Len(tabs') = Len(tabs) - 1
  BY <1>1, <1>2, <1>3, Removing
<1>5. tabs' # <<>> /\ Len(tabs') \in Nat /\ Len(tabs') > 0
  BY <1>2, <1>3, <1>4
<1>6. selected' \in Nat /\ selected' < Len(tabs')
  BY <1>1, <1>5 DEF Told
<1>7. live' = IF disposed' THEN {} ELSE ToSet(tabs')
  BY <1>1, <1>4 DEF Told
<1>8. live' \subseteq used' /\ ToSet(tabs') \subseteq used'
  BY <1>1, <1>4 DEF Told
<1>9. kind' = "logs" => \E t \in ToSet(tabs') : t \notin imported'
  BY <1>1, <1>2, <1>4
<1>. QED  BY <1>1, <1>4, <1>5, <1>6, <1>7, <1>8, <1>9 DEF Told

LEMMA ListDisposeStep == ASSUME Told, List!Dispose PROVE Told'
<1>1. /\ ~disposed /\ disposed' = TRUE /\ live' = live \ ToSet(tabs)
      /\ UNCHANGED <<kind, tabs, imported, selected, used, picking, picks>>
  BY SameOperators DEF List!Dispose
<1>2. live' = {} /\ disposed' \in BOOLEAN
  BY <1>1 DEF Told
<1>. QED  BY <1>1, <1>2 DEF Told

-----------------------------------------------------------------------------
(* Streams and their tabs.                                                 *)

StreamTypes == stream \in [Streams -> {"idle", "starting", "resumed", "open"}]

\* While no stream ends, none is cancelled and no tab that may stream goes.
LEMMA HeldStays ==
    ASSUME Held, held' = held, cancelled' = cancelled, cancelled \subseteq Streams,
           \A s \in Streams : stream[s] # "idle" => stream'[s] # "idle",
           Streaming \subseteq Streaming'
    PROVE  Held'
<1>1. held' \in [Tab -> Streams \cup {NoStream}]
  BY DEF Held, HoldsItsOwn
<1>2. ASSUME NEW t \in Tab, held'[t] # NoStream
      PROVE  /\ t \in Streaming'
             /\ stream'[held'[t]] # "idle" /\ held'[t] \notin cancelled'
             /\ \A u \in Tab \ {t} : held'[u] # held'[t]
  <2>1. held[t] \in Streams /\ t \in Streaming /\ stream[held[t]] # "idle"
        /\ held[t] \notin cancelled /\ \A u \in Tab \ {t} : held[u] # held[t]
    BY <1>2 DEF Held, HoldsItsOwn
  <2>. QED  BY <2>1
<1>3. HoldsItsOwn'
  BY <1>1, <1>2 DEF HoldsItsOwn
<1>4. \A s \in cancelled' : stream'[s] # "idle"
  BY DEF Held
<1>. QED  BY <1>3, <1>4 DEF Held

\* A tab that opens takes no other's place.
LEMMA TabOpensStep == ASSUME Inv, Told, TabOpens PROVE Told' /\ Held'
<1>1. UNCHANGED <<stream, cancelled, held>> /\ Held /\ cancelled \subseteq Streams
  BY DEF TabOpens, Inv, vars, Shared, TypeOK
<1>2. CASE \E t \in Tab \ Files : List!AddTab(t)
  <2>1. PICK t \in Tab : List!AddTab(t)
    BY <1>2
  <2>2. Told'
    BY <2>1, AddTabStep
  <2>3. live \subseteq live' /\ UNCHANGED <<kind, imported>>
    BY <2>1 DEF List!AddTab, List!AppendTab
  <2>4. Streaming \subseteq Streaming'
    BY <2>3 DEF Streaming
  <2>. QED  BY <1>1, <2>2, <2>4, HeldStays
<1>3. CASE \E t \in Files : List!FileIsPicked(t)
  <2>1. PICK t \in Tab : List!FileIsPicked(t)
    BY <1>3, TabsAssumption
  <2>2. Told'
    BY <2>1, FileIsPickedStep
  <2>3. /\ kind' = kind /\ live \subseteq live'
        /\ imported' = imported \/ (t \notin used /\ imported' \subseteq imported \cup {t})
    BY <2>1 DEF List!FileIsPicked, List!AppendTab
  <2>4. live \subseteq used
    BY DEF Told
  <2>5. Streaming \subseteq Streaming'
    BY <2>3, <2>4 DEF Streaming
  <2>. QED  BY <1>1, <2>2, <2>5, HeldStays
<1>4. CASE List!ImportLog \/ \E index \in 0 .. Cardinality(Tab) : List!SelectTab(index)
  <2>1. Told'
    BY <1>4, ImportLogStep, SelectTabStep
  <2>2. UNCHANGED <<kind, live, imported>>
    BY <1>4 DEF List!ImportLog, List!SelectTab
  <2>3. Streaming' = Streaming
    BY <2>2 DEF Streaming
  <2>. QED  BY <1>1, <2>1, <2>3, HeldStays
<1>. QED  BY <1>2, <1>3, <1>4 DEF TabOpens

\* A tab that closes cancels the stream it holds, which is no other's.
LEMMA TabClosesStep ==
    ASSUME Inv, Told, NEW index, TabCloses(index)
    PROVE  Shared' /\ Told' /\ Held'
<1>. DEFINE gone == tabs[index + 1]
            S == HeldBy({gone})
<1>1. /\ List!CloseTab(index)
      /\ cancelled' = cancelled \cup {s \in S : stream[s] # "idle"}
      /\ held' = [held EXCEPT ![gone] = NoStream]
      /\ UNCHANGED <<stream, polling, refresh, age, request, closed>>
  BY DEF TabCloses, List!At, Cancel
<1>2. Told'
  BY <1>1, CloseTabStep
<1>3. gone \in Tab
  <2>1. List!CanClose(index) /\ tabs \in Seq(Tab)
    BY <1>1 DEF List!CloseTab, Told
  <2>2. index + 1 \in 1 .. Len(tabs)
    BY <2>1, AnotherStays
  <2>. QED  BY <2>1, <2>2
<1>4. held \in [Tab -> Streams \cup {NoStream}] /\ S = {held[gone]} \ {NoStream}
  BY DEF Inv, Held, HoldsItsOwn, HeldBy
<1>5. Shared'
  <2>1. S \subseteq Streams
    BY <1>3, <1>4
  <2>2. Shared /\ cancelled' \subseteq Streams
    BY <1>1, <2>1 DEF Inv, Shared, TypeOK
  <2>. QED  BY <1>1, <2>2, CancelsStep
<1>6. live' = live \ {gone} /\ UNCHANGED <<kind, imported>>
  BY <1>1 DEF List!CloseTab, List!At
<1>7. Streaming \ {gone} \subseteq Streaming'
  BY <1>6 DEF Streaming
<1>. HIDE DEF gone, S
<1>8. ASSUME NEW t \in Tab, held'[t] # NoStream
      PROVE  /\ t \in Streaming'
             /\ stream'[held'[t]] # "idle" /\ held'[t] \notin cancelled'
             /\ \A u \in Tab \ {t} : held'[u] # held'[t]
  <2>1. t # gone /\ held'[t] = held[t]
    BY <1>1, <1>3, <1>4, <1>8
  <2>2. t \in Streaming /\ stream[held[t]] # "idle"
        /\ held[t] \notin cancelled /\ \A u \in Tab \ {t} : held[u] # held[t]
    BY <1>8, <2>1 DEF Inv, Held, HoldsItsOwn
  <2>3. held[t] \notin S
    BY <1>3, <1>4, <2>1, <2>2
  <2>4. \A u \in Tab : held'[u] = held[u] \/ held'[u] = NoStream
    BY <1>1, <1>4
  <2>. QED  BY <1>1, <1>7, <1>8, <2>1, <2>2, <2>3, <2>4
<1>9. held' \in [Tab -> Streams \cup {NoStream}]
  BY <1>1, <1>4
<1>10. HoldsItsOwn'
  BY <1>8, <1>9 DEF HoldsItsOwn
<1>11. \A s \in cancelled' : stream'[s] # "idle"
  BY <1>1 DEF Inv, Held
<1>. QED  BY <1>2, <1>5, <1>10, <1>11 DEF Held

\* A session that ends cancels all that its tabs hold.
LEMMA SessionEndsStep == ASSUME Inv, Told, SessionEnds PROVE Shared' /\ Told' /\ Held'
<1>1. List!Dispose /\ Shared /\ held' = [t \in Tab |-> NoStream]
  BY DEF SessionEnds, Inv
<1>2. Told'
  BY <1>1, ListDisposeStep
<1>3. HoldsItsOwn'
  BY <1>1 DEF HoldsItsOwn
<1>4. CASE kind # "imports" /\ Dispose(HeldBy(Streaming))
  <2>1. HeldBy(Streaming) \subseteq Streams
    <3>1. Streaming \subseteq Tab
      BY DEF Streaming, Told
    <3>. QED  BY <3>1 DEF HeldBy, Inv, Held, HoldsItsOwn
  <2>2. Shared'
    BY <1>1, <1>4, <2>1, DisposeStep
  <2>3. \A s \in cancelled' : stream'[s] # "idle"
    BY <1>4 DEF Dispose, Cancel, Inv, Held
  <2>. QED  BY <1>2, <1>3, <2>2, <2>3 DEF Held
<1>5. CASE kind = "imports" /\ UNCHANGED vars
  <2>1. UNCHANGED <<stream, cancelled, consumers, poll, inFlight, age, requested,
                    requester, delay, closed, unlisted>>
    BY <1>5 DEF vars
  <2>2. Shared'
    BY <1>1, <2>1 DEF Shared, TypeOK, Counted, Open
  <2>3. \A s \in cancelled' : stream'[s] # "idle"
    BY <2>1 DEF Inv, Held
  <2>. QED  BY <1>2, <1>3, <2>2, <2>3 DEF Held
<1>. QED  BY <1>4, <1>5 DEF SessionEnds

\* A tab attaches a stream that nobody held, whatever it held itself.
LEMMA TabStreamsStep ==
    ASSUME Inv, NEW t \in Tab, NEW s \in Streams, TabStreams(t, s)
    PROVE  Shared' /\ Held'
<1>1. /\ t \in Streaming /\ StartStream(s) /\ held' = [held EXCEPT ![t] = s]
      /\ UNCHANGED list /\ StreamTypes
  BY DEF TabStreams, Inv, Shared, TypeOK, StreamTypes
<1>2. /\ stream[s] = "idle" /\ stream' = [stream EXCEPT ![s] = "starting"]
      /\ cancelled' = cancelled
  BY <1>1 DEF StartStream
<1>3. Shared'
  BY <1>1, StreamStep DEF Inv
<1>4. held \in [Tab -> Streams \cup {NoStream}] /\ Streaming' = Streaming
      /\ s \notin cancelled /\ \A u \in Tab : held[u] # s
  BY <1>1, <1>2, TabsAssumption DEF Inv, Held, HoldsItsOwn, Streaming, list
<1>5. ASSUME NEW u \in Tab, held'[u] # NoStream
      PROVE  /\ u \in Streaming'
             /\ stream'[held'[u]] # "idle" /\ held'[u] \notin cancelled'
             /\ \A v \in Tab \ {u} : held'[v] # held'[u]
  <2>1. CASE u = t
    <3>1. held'[u] = s /\ stream'[s] = "starting"
      BY <1>1, <1>2, <1>4, <2>1 DEF StreamTypes
    <3>2. \A v \in Tab \ {u} : held'[v] = held[v]
      BY <1>1, <1>4, <2>1
    <3>. QED  BY <1>1, <1>2, <1>4, <2>1, <3>1, <3>2
  <2>2. CASE u # t
    <3>1. held'[u] = held[u] /\ held[u] \in Streams
      BY <1>1, <1>4, <1>5, <2>2
    <3>2. u \in Streaming /\ stream[held[u]] # "idle"
          /\ held[u] \notin cancelled /\ \A v \in Tab \ {u} : held[v] # held[u]
      BY <1>5, <3>1 DEF Inv, Held, HoldsItsOwn
    <3>3. stream'[held[u]] = stream[held[u]]
      BY <1>1, <1>2, <1>4, <3>1 DEF StreamTypes
    <3>4. \A v \in Tab \ {u} : held'[v] \in {held[v], s}
      BY <1>1, <1>4
    <3>. QED  BY <1>2, <1>4, <3>1, <3>2, <3>3, <3>4
  <2>. QED  BY <2>1, <2>2
<1>6. held' \in [Tab -> Streams \cup {NoStream}]
  BY <1>1, <1>4
<1>7. HoldsItsOwn'
  BY <1>5, <1>6 DEF HoldsItsOwn
<1>8. \A c \in cancelled' : stream'[c] # "idle"
  <2>1. cancelled \subseteq Streams /\ \A c \in cancelled : stream[c] # "idle" /\ c # s
    BY <1>4 DEF Inv, Held, Shared, TypeOK
  <2>. QED  BY <1>1, <1>2, <2>1 DEF StreamTypes
<1>. QED  BY <1>3, <1>7, <1>8 DEF Held

\* A tab lets go of the stream it held: cancelled, or over.
LEMMA LettingGo ==
    ASSUME Held, NEW s \in Streams, StreamTypes, cancelled \subseteq Streams, UNCHANGED list,
           held' \in [Tab -> Streams \cup {NoStream}],
           \A t \in Tab : held'[t] # s /\ held'[t] \in {held[t], NoStream},
           \A c \in Streams \ {s} : stream'[c] = stream[c] /\ (c \in cancelled' <=> c \in cancelled),
           s \in cancelled' => stream'[s] # "idle", cancelled' \subseteq Streams
    PROVE  Held'
<1>1. Streaming' = Streaming
  BY DEF Streaming, list
<1>2. ASSUME NEW t \in Tab, held'[t] # NoStream
      PROVE  /\ t \in Streaming'
             /\ stream'[held'[t]] # "idle" /\ held'[t] \notin cancelled'
             /\ \A u \in Tab \ {t} : held'[u] # held'[t]
  <2>1. held'[t] = held[t] /\ held[t] \in Streams \ {s}
    BY <1>2
  <2>2. t \in Streaming /\ stream[held[t]] # "idle"
        /\ held[t] \notin cancelled /\ \A u \in Tab \ {t} : held[u] # held[t]
    BY <1>2, <2>1 DEF Held, HoldsItsOwn
  <2>3. \A u \in Tab : held'[u] \in {held[u], NoStream}
    OBVIOUS
  <2>. QED  BY <1>1, <1>2, <2>1, <2>2, <2>3
<1>3. HoldsItsOwn'
  BY <1>2 DEF HoldsItsOwn
<1>4. \A c \in cancelled' : stream'[c] # "idle"
  BY DEF Held
<1>. QED  BY <1>3, <1>4 DEF Held

LEMMA TabStopsStep == ASSUME Inv, NEW t \in Tab, TabStops(t) PROVE Shared' /\ Held'
<1>1. /\ t \in Streaming /\ held[t] # NoStream /\ CancelStream(held[t])
      /\ held' = [held EXCEPT ![t] = NoStream] /\ UNCHANGED list
  BY DEF TabStops
<1>2. held \in [Tab -> Streams \cup {NoStream}] /\ Held /\ Shared /\ StreamTypes
      /\ cancelled \subseteq Streams
  BY DEF Inv, Held, HoldsItsOwn, Shared, TypeOK, StreamTypes
<1>3. PICK s \in Streams : s = held[t]
  BY <1>1, <1>2
<1>4. Shared'
  BY <1>1, <1>2, <1>3, StreamStep
<1>5. stream' = stream /\ stream[s] # "idle" /\ cancelled' = cancelled \cup {s}
  BY <1>1, <1>3 DEF CancelStream
<1>6. \A u \in Tab \ {t} : held[u] # s
  BY <1>1, <1>2, <1>3 DEF Held, HoldsItsOwn
<1>7. held' \in [Tab -> Streams \cup {NoStream}]
      /\ \A u \in Tab : held'[u] # s /\ held'[u] \in {held[u], NoStream}
  BY <1>1, <1>2, <1>6, TabsAssumption
<1>. QED  BY <1>1, <1>2, <1>4, <1>5, <1>7, LettingGo

LEMMA StreamStopsStep == ASSUME Inv, NEW s \in Streams, StreamStops(s) PROVE Shared' /\ Held'
<1>1. /\ EndStream(s) /\ UNCHANGED list
      /\ held' = [t \in Tab |-> IF held[t] = s THEN NoStream ELSE held[t]]
  BY DEF StreamStops
<1>2. held \in [Tab -> Streams \cup {NoStream}] /\ Held /\ Shared /\ StreamTypes
      /\ cancelled \subseteq Streams
  BY DEF Inv, Held, HoldsItsOwn, Shared, TypeOK, StreamTypes
<1>3. Shared'
  BY <1>1, <1>2, EndStreamStep
<1>4. stream' = [stream EXCEPT ![s] = "idle"] /\ cancelled' = cancelled \ {s}
  BY <1>1 DEF EndStream
<1>5. \A c \in Streams \ {s} : stream'[c] = stream[c]
  BY <1>2, <1>4 DEF StreamTypes
<1>6. held' \in [Tab -> Streams \cup {NoStream}]
      /\ \A u \in Tab : held'[u] # s /\ held'[u] \in {held[u], NoStream}
  BY <1>1, <1>2, TabsAssumption
<1>. QED  BY <1>1, <1>2, <1>3, <1>4, <1>5, <1>6, LettingGo

\* The other steps leave the tabs and what they hold alone.
LEMMA StreamsStep ==
    ASSUME Inv, UNCHANGED <<list, held>>,
           \/ \E s \in Streams : StreamOpens(s)
           \/ TabAsks \/ AskResumes \/ AskIsDue
           \/ RefreshEnds \/ PollIsDue \/ TimePasses
    PROVE  Shared' /\ Held'
<1>1. /\ Shared /\ Held /\ stream \in [Streams -> {"idle", "starting", "resumed", "open"}]
      /\ cancelled \subseteq Streams /\ Streaming' = Streaming
  BY DEF Inv, Shared, TypeOK, Streaming, list
<1>2. ASSUME NEW t \in Streams, StreamOpens(t) PROVE Shared' /\ Held'
  <2>1. OpenStream(t)
    BY <1>2 DEF StreamOpens
  <2>2. Shared'
    BY <1>1, <2>1, OpenStreamStep
  <2>3. stream' = [stream EXCEPT ![t] = "open"] /\ cancelled' = cancelled
    BY <2>1 DEF OpenStream
  <2>4. \A s \in Streams : stream[s] # "idle" => stream'[s] # "idle"
    BY <1>1, <2>3
  <2>. QED  BY <1>1, <2>2, <2>3, <2>4, HeldStays
<1>3. CASE TabAsks \/ AskResumes \/ AskIsDue
  <2>1. Request \/ ResumeRequest \/ DelayEnds
    BY <1>3 DEF TabAsks, AskResumes, AskIsDue
  <2>2. Shared'
    BY <1>1, <2>1, RequestStep
  <2>3. UNCHANGED <<stream, cancelled>>
    BY <2>1 DEF Request, ResumeRequest, DelayEnds
  <2>. QED  BY <1>1, <2>2, <2>3, HeldStays
<1>4. CASE RefreshEnds
  <2>1. PsEnds
    BY <1>4 DEF RefreshEnds
  <2>2. Shared'
    BY <1>1, <2>1, PsEndsStep
  <2>3. /\ stream' = [s \in Streams |->
                        IF stream[s] = "starting" THEN "resumed" ELSE stream[s]]
        /\ cancelled' = cancelled
    BY <2>1 DEF PsEnds
  <2>4. \A s \in Streams : stream[s] # "idle" => stream'[s] # "idle"
    BY <2>3
  <2>. QED  BY <1>1, <2>2, <2>3, <2>4, HeldStays
<1>5. CASE PollIsDue \/ TimePasses
  <2>1. PollFires \/ Tick
    BY <1>5 DEF PollIsDue, TimePasses
  <2>2. Shared'
    BY <1>1, <2>1, PollFiresStep, TimeStep
  <2>3. UNCHANGED <<stream, cancelled>>
    BY <2>1 DEF PollFires, Tick
  <2>. QED  BY <1>1, <2>2, <2>3, HeldStays
<1>. QED  BY <1>2, <1>3, <1>4, <1>5

LEMMA SessionStutters == Inv /\ Told /\ UNCHANGED both => Shared' /\ Told' /\ Held'
<1>. SUFFICES ASSUME Inv, Told, UNCHANGED both PROVE Shared' /\ Told' /\ Held'
  OBVIOUS
<1>1. UNCHANGED list /\ UNCHANGED vars /\ held' = held
  BY DEF both
<1>2. UNCHANGED <<stream, cancelled, consumers, poll, inFlight, age, requested,
                  requester, delay, closed, unlisted>>
  BY <1>1 DEF vars
<1>3. Shared'
  BY <1>2 DEF Inv, Shared, TypeOK, Counted, Open
<1>4. Streaming' = Streaming /\ cancelled \subseteq Streams
  BY <1>1 DEF Streaming, list, Inv, Shared, TypeOK
<1>5. Held'
  BY <1>1, <1>2, <1>4, HeldStays DEF Inv
<1>. QED  BY <1>1, <1>3, <1>5, ListStays

-----------------------------------------------------------------------------
(* The whole.                                                              *)

LEMMA SessionInitInv == SessionInit => Inv
<1>. SUFFICES ASSUME SessionInit PROVE Inv
  OBVIOUS
<1>1. Shared /\ Listed
  BY SharedInit, ListedInit DEF SessionInit
<1>2. Held
  BY DEF SessionInit, Init, Held, HoldsItsOwn
<1>. QED  BY <1>1, <1>2 DEF Inv

LEMMA SessionNextInv == Inv /\ Told /\ [SessionNext]_both => Shared' /\ Told' /\ Held'
<1>. SUFFICES ASSUME Inv, Told, [SessionNext]_both
              PROVE  Shared' /\ Told' /\ Held'
  OBVIOUS
<1>1. CASE TabOpens
  <2>1. Shared /\ UNCHANGED vars
    BY <1>1 DEF TabOpens, Inv
  <2>2. UNCHANGED <<stream, cancelled, consumers, poll, inFlight, age, requested,
                    requester, delay, closed, unlisted>>
    BY <2>1 DEF vars
  <2>3. Shared'
    BY <2>1, <2>2 DEF Shared, TypeOK, Counted, Open
  <2>. QED  BY <1>1, <2>3, TabOpensStep
<1>2. ASSUME NEW index \in 0 .. Cardinality(Tab), TabCloses(index)
      PROVE  Shared' /\ Told' /\ Held'
  BY <1>2, TabClosesStep
<1>3. CASE SessionEnds
  BY <1>3, SessionEndsStep
<1>4. ASSUME NEW t \in Tab, TabStops(t) \/ \E s \in Streams : TabStreams(t, s)
      PROVE  Shared' /\ Told' /\ Held'
  <2>1. UNCHANGED list
    BY <1>4 DEF TabStops, TabStreams
  <2>. QED  BY <1>4, <2>1, TabStopsStep, TabStreamsStep, ListStays
<1>5. ASSUME NEW s \in Streams, StreamStops(s) PROVE Shared' /\ Told' /\ Held'
  <2>1. UNCHANGED list
    BY <1>5 DEF StreamStops
  <2>. QED  BY <1>5, <2>1, StreamStopsStep, ListStays
<1>6. CASE \/ \E s \in Streams : StreamOpens(s)
           \/ TabAsks \/ AskResumes \/ AskIsDue
           \/ RefreshEnds \/ PollIsDue \/ TimePasses
  <2>1. UNCHANGED <<list, held>>
    BY <1>6 DEF StreamOpens, TabAsks, AskResumes, AskIsDue, RefreshEnds, PollIsDue, TimePasses
  <2>. QED  BY <1>6, <2>1, StreamsStep, ListStays
<1>7. CASE UNCHANGED both
  BY <1>7, SessionStutters
<1>. QED  BY <1>1, <1>2, <1>3, <1>4, <1>5, <1>6, <1>7 DEF SessionNext

LEMMA InvIsInductive == SessionSpec => []Inv
<1>1. Inv <=> Shared /\ Told /\ Held
  BY ListedIsTold DEF Inv
<1>. QED  BY <1>1, SessionInitInv, SessionNextInv, PTL DEF SessionSpec

\* Whatever opens, closes and asks, in whichever order: a tab is in the list or
\* disposed, the selected index is one of the list, a device's logs keep a live
\* tab, a tab holds a stream of its own or none, and the poll runs exactly
\* while a stream of the session is open, held or forgotten.
THEOREM SessionLogsCorrect == SessionSpec => []SessionLogsInv
<1>1. Inv => SessionLogsInv
  <2>. SUFFICES ASSUME Inv PROVE SessionLogsInv
    OBVIOUS
  <2>1. ATabRemains /\ HoldsItsOwn
    BY DEF Inv, Listed, ATabRemains, List!TabsInv, Held
  <2>2. Open \in SUBSET Streams
    BY DEF Open
  <2>3. Cardinality(Open) = 0 <=> Open = {}
    BY <2>2, NoneOpen
  <2>4. Cardinality(Open) \in Nat /\ consumers \in Nat
    BY <2>2, OpenIsFinite DEF Inv, Shared, TypeOK
  <2>5. PollIsShared
    BY <2>3, <2>4 DEF PollIsShared, Inv, Shared, Counted
  <2>6. NoPollWithoutStream
    BY <2>3, <2>4 DEF NoPollWithoutStream, Inv, Shared, Counted
  <2>. QED  BY <2>1, <2>5, <2>6 DEF SessionLogsInv, PollInv, Inv, Shared
<1>. QED  BY <1>1, InvIsInductive, PTL
==============================================================================
