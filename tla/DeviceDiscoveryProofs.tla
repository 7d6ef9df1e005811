-------------------------- MODULE DeviceDiscoveryProofs --------------------------
(* Theorems about DeviceDiscovery for every set of devices and every period. *)
EXTENDS DeviceDiscovery, TLAPS

USE DiscoveryAssumption

Reload == [phase : {"none", "listing", "describing", "merging", "waiting"},
           retry : BOOLEAN, left : 0..RetryMax,
           found : [Device -> Attachment], named : [Android -> Name],
           pending : SUBSET Android]

\* Only a reload the user watches waits for another attempt, and has one left.
WaitingRetries == reload.phase = "waiting" => reload.retry /\ reload.left > 0

\* What refreshDevices and its finally keep.
Requests ==
    /\ reload \in Reload
    /\ queued \in BOOLEAN /\ isLoading \in BOOLEAN /\ unserved \in BOOLEAN
    /\ ForcedIsPending /\ SpinnerFollowsReload /\ WaitingRetries

\* The inductive invariant.
Inv == TypeOK /\ Requests

-----------------------------------------------------------------------------
(* The parts of a reload.                                                  *)

LEMMA NothingType == Nothing \in Reload
<1>1. 0 \in 0..RetryMax /\ "none" \in Name /\ "absent" \in Attachment
  BY DiscoveryAssumption DEF Name, Attachment
<1>. QED  BY <1>1 DEF Nothing, Reload

\* A reload that begins lists, with all its attempts.
LEMMA BeginType ==
    ASSUME NEW retry \in BOOLEAN
    PROVE  /\ Begin(retry) \in Reload
           /\ Begin(retry).phase = "listing" /\ Begin(retry).retry = retry
<1>1. RetryMax \in 0..RetryMax
  BY DiscoveryAssumption
<1>. QED  BY <1>1, NothingType DEF Begin, Reload

\* refreshDevices keeps what it is asked: it joins the queue of the reload in
\* flight, or begins one.
LEMMA RefreshStep ==
    ASSUME Requests, NEW force \in BOOLEAN, NEW showLoading \in BOOLEAN,
           Refresh(force, showLoading), disposed' = disposed
    PROVE  Requests'
<1>1. CASE /\ InFlight
           /\ queued' = (queued \/ force) /\ unserved' = (unserved \/ force)
           /\ UNCHANGED <<reload, isLoading>>
  BY <1>1 DEF Requests, ForcedIsPending, SpinnerFollowsReload, WaitingRetries, InFlight
<1>2. CASE UNCHANGED <<reload, isLoading, queued, unserved>>
  BY <1>2 DEF Requests, ForcedIsPending, SpinnerFollowsReload, WaitingRetries, InFlight
<1>3. CASE /\ ~InFlight
           /\ reload' = Begin(showLoading) /\ unserved' = FALSE
           /\ isLoading' = (isLoading \/ showLoading)
           /\ UNCHANGED queued
  BY <1>3, BeginType
  DEF Requests, ForcedIsPending, SpinnerFollowsReload, WaitingRetries, InFlight
<1>. QED  BY <1>1, <1>2, <1>3 DEF Refresh

\* The end of a reload takes its spinner down and serves the queue.
LEMMA FinishStep ==
    ASSUME Requests, Finish, disposed' = disposed, disposed \in BOOLEAN
    PROVE  Requests'
<1>1. isLoading' = FALSE /\ queued' = FALSE
  BY DEF Finish, Requests, SpinnerFollowsReload
<1>2. CASE queued /\ ~disposed
  <2>1. reload' = Begin(FALSE) /\ unserved' = FALSE
    BY <1>2 DEF Finish
  <2>. QED  BY <1>1, <2>1, BeginType
       DEF Requests, ForcedIsPending, SpinnerFollowsReload, WaitingRetries, InFlight
<1>3. CASE ~(queued /\ ~disposed)
  <2>1. reload' = Nothing /\ unserved' = unserved
    BY <1>3 DEF Finish
  <2>2. unserved => disposed
    BY <1>3 DEF Requests, ForcedIsPending
  <2>3. reload'.phase = "none"
    BY <2>1 DEF Nothing
  <2>. QED  BY <1>1, <2>1, <2>2, <2>3, NothingType
       DEF Requests, ForcedIsPending, SpinnerFollowsReload, WaitingRetries, InFlight
<1>. QED  BY <1>2, <1>3

\* A reload that only moves on keeps them too.
LEMMA ReloadStep ==
    ASSUME Requests, reload' \in Reload, InFlight, reload'.phase \notin {"none", "waiting"},
           reload'.retry = reload.retry,
           UNCHANGED <<queued, isLoading, unserved, disposed>>
    PROVE  Requests'
BY DEF Requests, ForcedIsPending, SpinnerFollowsReload, WaitingRetries, InFlight

LEMMA IdleStep ==
    ASSUME Requests, UNCHANGED <<reload, queued, isLoading, unserved>>,
           disposed => disposed'
    PROVE  Requests'
BY DEF Requests, ForcedIsPending, SpinnerFollowsReload, WaitingRetries, InFlight

-----------------------------------------------------------------------------
(* The inductive invariant.                                                *)

LEMMA InitInv == Init => Inv
<1>. SUFFICES ASSUME Init PROVE Inv
  OBVIOUS
<1>1. TypeOK
  <2>1. attached \in [Device -> Attachment] /\ reload \in Reload
    BY NothingType DEF Init
  <2>2. /\ known \in [Device -> List!Connection]
        /\ name \in [Android -> Name] /\ cache \in [Android -> Name]
    BY DEF Init, Name, List!Connection
  <2>3. /\ {queued, isLoading, debounce, news, started, disposed, unserved} \subseteq BOOLEAN
        /\ namesKnown \in BOOLEAN
        /\ recent = 0 /\ watcher = "none" /\ restart = Off /\ iosTimer = Off
    BY DEF Init
  <2>5. recent \in 0..MinInterval
    BY <2>3, DiscoveryAssumption
  <2>4. /\ watcher \in {"none", "starting", "on", "ended"}
        /\ restart \in 0..RestartDelay \cup {Off} /\ iosTimer \in 0..IosPeriod \cup {Off}
    BY <2>3
  <2>. QED  BY <2>1, <2>2, <2>3, <2>4, <2>5 DEF TypeOK, Reload
<1>2. Requests
  BY NothingType DEF Init, Requests, Nothing, ForcedIsPending, SpinnerFollowsReload, WaitingRetries, InFlight
<1>. QED  BY <1>1, <1>2 DEF Inv

LEMMA NextRequests ==
    ASSUME Inv, Next
    PROVE  Requests'
<1>. disposed \in BOOLEAN /\ reload \in Reload /\ Requests
  BY DEF Inv, TypeOK, Requests
<1>1. CASE UserRefreshes
  BY <1>1, RefreshStep DEF UserRefreshes, life
<1>2. CASE IosTimerFires
  BY <1>2, RefreshStep DEF IosTimerFires, life
<1>3. CASE DebounceFires
  BY <1>3, RefreshStep DEF DebounceFires, life
<1>4. CASE NamesArrive
  BY <1>4, RefreshStep DEF NamesArrive, life
<1>5. CASE AdbLists
  <2>. DEFINE Found(failed) ==
                 [d \in Device |-> IF d \in Android /\ ~failed THEN attached[d] ELSE "absent"]
              Named(found) == [a \in Android |->
                        IF found[a] = "absent" THEN "none"
                        ELSE IF found[a] = "online" /\ cache[a] = "none" THEN "raw" ELSE cache[a]]
              Pending(found) == {a \in Android : found[a] = "online" /\ cache[a] = "none"}
  <2>1. PICK failed \in BOOLEAN :
          reload' = [reload EXCEPT
            !.phase = "describing", !.found = Found(failed),
            !.named = Named(Found(failed)), !.pending = Pending(Found(failed))]
    BY <1>5 DEF AdbLists
  <2>2. Found(failed) \in [Device -> Attachment]
    BY DEF Inv, TypeOK, Attachment
  <2>3. \A f \in [Device -> Attachment] :
          Named(f) \in [Android -> Name] /\ Pending(f) \in SUBSET Android
    BY DEF Inv, TypeOK, Name
  <2>. HIDE DEF Found, Named, Pending
  <2>4. /\ reload' \in Reload /\ reload'.phase = "describing"
        /\ reload'.retry = reload.retry
    BY <2>1, <2>2, <2>3 DEF Reload
  <2>. QED  BY <1>5, <2>4, ReloadStep DEF AdbLists, InFlight, life
<1>6. CASE \E a \in Android : Describe(a)
  <2>1. PICK a \in Android : Describe(a)
    BY <1>6
  <2>2. PICK model \in Name : reload' = [reload EXCEPT !.pending = @ \ {a}, !.named[a] = model]
    BY <2>1 DEF Describe, Name
  <2>3. /\ reload' \in Reload /\ reload'.phase = reload.phase
        /\ reload'.retry = reload.retry
    BY <2>2 DEF Reload
  <2>. QED  BY <2>1, <2>3, ReloadStep DEF Describe, InFlight, life
<1>7. CASE IosLists
  <2>. DEFINE Found(failed) == [d \in Device |-> IF d \notin Ios THEN reload.found[d]
                                        ELSE IF failed THEN "absent" ELSE attached[d]]
  <2>1. PICK failed \in BOOLEAN :
           reload' = [reload EXCEPT !.phase = "merging",
                                    !.found = Deduplicate(Found(failed), reload.named)]
    BY <1>7 DEF IosLists
  <2>2. Found(failed) \in [Device -> Attachment]
    BY DEF Inv, TypeOK, Reload, Attachment
  <2>3. \A f \in [Device -> Attachment] :
           Deduplicate(f, reload.named) \in [Device -> Attachment]
    BY DEF Deduplicate, Attachment
  <2>. HIDE DEF Found
  <2>4. /\ reload' \in Reload /\ reload'.phase = "merging"
        /\ reload'.retry = reload.retry
    BY <1>7, <2>1, <2>2, <2>3 DEF Reload
  <2>. QED  BY <1>7, <2>4, ReloadStep DEF IosLists, InFlight, life
<1>8. CASE Merge
  <2>1. CASE Finish
    BY <1>8, <2>1, FinishStep DEF Merge, life
  <2>2. CASE /\ reload.retry /\ reload.left > 0
             /\ reload' = [reload EXCEPT !.phase = "waiting"]
             /\ UNCHANGED <<queued, isLoading, unserved>>
    <3>1. /\ reload' \in Reload /\ reload'.phase = "waiting"
          /\ reload'.retry = reload.retry /\ reload'.left = reload.left
      BY <2>2 DEF Reload
    <3>. QED  BY <1>8, <2>2, <3>1
         DEF Merge, life, Requests, ForcedIsPending, SpinnerFollowsReload, WaitingRetries, InFlight
  <2>. QED  BY <1>8, <2>1, <2>2 DEF Merge
<1>9. CASE RetryFires
  <2>1. CASE disposed
    BY <1>9, <2>1, FinishStep DEF RetryFires, life
  <2>2. CASE ~disposed
    <3>1. reload' = [Begin(TRUE) EXCEPT !.left = reload.left - 1] /\ unserved' = FALSE
          /\ UNCHANGED <<queued, isLoading, disposed>>
      BY <1>9, <2>2 DEF RetryFires, life
    <3>2. reload.left - 1 \in 0..RetryMax /\ reload.retry
      BY <1>9 DEF RetryFires, Requests, WaitingRetries, Reload
    <3>3. /\ reload' \in Reload /\ reload'.phase = "listing" /\ reload'.retry = TRUE
      BY <3>1, <3>2, BeginType DEF Reload
    <3>. QED  BY <1>9, <3>1, <3>2, <3>3
         DEF RetryFires, Requests, ForcedIsPending, SpinnerFollowsReload, WaitingRetries, InFlight
  <2>. QED  BY <2>1, <2>2
<1>10. CASE \E immediately \in BOOLEAN : EnsureStarted(immediately)
  <2>1. PICK immediately \in BOOLEAN : EnsureStarted(immediately)
    BY <1>10
  <2>2. CASE Refresh(TRUE, immediately)
    BY <2>1, <2>2, RefreshStep DEF EnsureStarted
  <2>3. CASE UNCHANGED <<reload, queued, isLoading, unserved>>
    BY <2>1, <2>3, IdleStep DEF EnsureStarted
  <2>. QED  BY <2>1, <2>2, <2>3 DEF EnsureStarted
<1>11. CASE Listen \/ WatcherReports \/ WatcherEnds \/ RestartFires \/ Tick
  BY <1>11, IdleStep DEF Listen, WatcherReports, WatcherEnds, RestartFires, Tick, life
<1>12. CASE Dispose \/ \E d \in Device : Change(d)
  BY <1>12, IdleStep DEF Dispose, Change, life
<1>. QED
  BY <1>1, <1>2, <1>3, <1>4, <1>5, <1>6, <1>7, <1>8, <1>9, <1>10, <1>11, <1>12 DEF Next

\* What TypeOK says of the rest of the state.
Rest ==
    /\ attached \in [Device -> Attachment] /\ namesKnown \in BOOLEAN
    /\ known \in [Device -> List!Connection] /\ name \in [Android -> Name]
    /\ cache \in [Android -> Name]
    /\ debounce \in BOOLEAN /\ news \in BOOLEAN /\ started \in BOOLEAN /\ disposed \in BOOLEAN
    /\ recent \in 0..MinInterval
    /\ watcher \in {"none", "starting", "on", "ended"}
    /\ restart \in 0..RestartDelay \cup {Off} /\ iosTimer \in 0..IosPeriod \cup {Off}

LEMMA TypeSplits == TypeOK /\ Requests <=> Requests /\ Rest
BY DEF TypeOK, Rest, Requests, Reload

LEMMA TypeSplitsNext == Requests' /\ Rest' => TypeOK' /\ Requests'
BY DEF TypeOK, Rest, Requests, Reload

LEMMA Periods ==
    /\ MinInterval \in Nat /\ RestartDelay \in Nat /\ IosPeriod \in Nat
    /\ \A bound \in Nat : \A t \in 0..bound \cup {Off} : Less(t) \in 0..bound \cup {Off}
    /\ \A t \in 0..MinInterval : Less(t) \in 0..MinInterval
<1>1. MinInterval \in Nat /\ RestartDelay \in Nat /\ IosPeriod \in Nat /\ Off \notin Nat
  BY DiscoveryAssumption
<1>2. ASSUME NEW bound \in Nat, NEW t \in 0..bound
      PROVE  Less(t) \in 0..bound
  BY <1>1, <1>2 DEF Less
<1>3. Less(Off) = Off
  BY DEF Less
<1>. QED  BY <1>1, <1>2, <1>3

LEMMA NextRest ==
    ASSUME Inv, Next
    PROVE  Rest'
<1>. Rest
  BY TypeSplits DEF Inv
<1>1. CASE UserRefreshes \/ AdbLists \/ IosLists \/ RetryFires
  BY <1>1 DEF UserRefreshes, AdbLists, IosLists, RetryFires, Rest, outside, shown, watching, life
<1>2. CASE IosTimerFires
  <2>1. iosTimer' \in 0..IosPeriod
    BY <1>2, Periods DEF IosTimerFires
  <2>. QED  BY <1>2, <2>1 DEF IosTimerFires, Rest, outside, shown, watching, life
<1>3. CASE DebounceFires
  BY <1>3 DEF DebounceFires, Rest, outside, shown, life
<1>4. CASE NamesArrive
  <2>1. cache' \in [Android -> Name]
    BY <1>4 DEF NamesArrive, Name
  <2>. QED  BY <1>4, <2>1 DEF NamesArrive, Rest, shown, watching, life
<1>5. CASE \E a \in Android : Describe(a)
  <2>1. PICK a \in Android : Describe(a)
    BY <1>5
  <2>2. \E model \in Name : cache' = [cache EXCEPT ![a] = model]
    BY <2>1 DEF Describe, Name
  <2>3. cache' \in [Android -> Name]
    BY <2>2 DEF Rest
  <2>. QED  BY <2>1, <2>3 DEF Describe, Rest, outside, shown, watching, life
<1>6. CASE Merge
  <2>1. known' \in [Device -> List!Connection]
    BY <1>6 DEF Merge, Merged, List!Connection
  <2>2. reload.named \in [Android -> Name]
    BY DEF Inv, Requests, Reload
  <2>3. name' \in [Android -> Name]
    BY <1>6, <2>2 DEF Merge, MergedNames, Rest
  <2>4. recent' \in 0..MinInterval
    BY <1>6, Periods DEF Merge
  <2>. QED  BY <1>6, <2>1, <2>3, <2>4 DEF Merge, Rest, outside, watching, life
<1>7. CASE \E immediately \in BOOLEAN : EnsureStarted(immediately)
  <2>1. /\ iosTimer' \in {iosTimer, IosPeriod} /\ watcher' \in {watcher, "starting"}
        /\ started' = TRUE
        /\ UNCHANGED <<outside, shown, cache, recent, debounce, news, restart, disposed>>
    BY <1>7 DEF EnsureStarted
  <2>. QED  BY <2>1, Periods DEF Rest, outside, shown
<1>8. CASE Listen \/ WatcherReports
  <2>1. news' \in BOOLEAN
    BY <1>8 DEF Listen, WatcherReports, AnyAndroid
  <2>. QED  BY <1>8, <2>1 DEF Listen, WatcherReports, Rest, outside, shown, life
<1>9. CASE WatcherEnds \/ RestartFires
  <2>1. RestartDelay \in 0..RestartDelay
    BY Periods
  <2>2. restart' \in {RestartDelay, Off} /\ news' \in BOOLEAN /\ watcher' \in {"ended", "starting"}
    BY <1>9 DEF WatcherEnds, RestartFires, Rest
  <2>. QED  BY <1>9, <2>1, <2>2 DEF WatcherEnds, RestartFires, Rest, outside, shown, life
<1>10. CASE \E d \in Device : Change(d)
  <2>1. PICK d \in Device : Change(d)
    BY <1>10
  <2>2. PICK to \in Attachment : attached' = [attached EXCEPT ![d] = to]
    BY <2>1 DEF Change
  <2>3. attached' \in [Device -> Attachment]
    BY <2>2 DEF Rest
  <2>4. news' \in BOOLEAN
    BY <2>1 DEF Change, Rest
  <2>. QED  BY <2>1, <2>3, <2>4 DEF Change, Rest, shown, life
<1>11. CASE Dispose
  BY <1>11 DEF Dispose, Rest, outside, shown
<1>12. CASE Tick
  BY <1>12, Periods DEF Tick, Rest, outside, shown, life
<1>. QED
  BY <1>1, <1>2, <1>3, <1>4, <1>5, <1>6, <1>7, <1>8, <1>9, <1>10, <1>11, <1>12 DEF Next

LEMMA StutterInv == Inv /\ UNCHANGED vars => Inv'
<1>. SUFFICES ASSUME Inv, UNCHANGED vars PROVE Inv'
  OBVIOUS
<1>1. Requests'
  BY IdleStep DEF Inv, vars
<1>2. Rest
  BY TypeSplits DEF Inv
<1>3. Rest'
  BY <1>2 DEF Rest, vars
<1>. QED  BY <1>1, <1>3, TypeSplitsNext DEF Inv

\* The invariant holds in every state of every behaviour.
THEOREM Invariance == Spec => []Inv
<1>1. Inv /\ [Next]_vars => Inv'
  BY NextRequests, NextRest, TypeSplitsNext, StutterInv DEF Inv
<1>. QED  BY InitInv, <1>1, PTL DEF Spec

\* Type correctness.
THEOREM TypeCorrect == Spec => []TypeOK
<1>1. Inv => TypeOK
  BY DEF Inv
<1>. QED  BY Invariance, <1>1, PTL

\* A refresh asked for while a reload runs is never lost to it: as long as no
\* listing has begun since, one is queued behind the reload in flight.
THEOREM RefreshIsNotLost == Spec => []ForcedIsPending
<1>1. Inv => ForcedIsPending
  BY DEF Inv, Requests
<1>. QED  BY Invariance, <1>1, PTL

\* The spinner is up exactly while the reload it was asked with runs.
THEOREM SpinnerIsHonest == Spec => []SpinnerFollowsReload
<1>1. Inv => SpinnerFollowsReload
  BY DEF Inv, Requests
<1>. QED  BY Invariance, <1>1, PTL

-----------------------------------------------------------------------------
(* Refinement.                                                             *)

\* Every step replaces the list by one that forgets no device, or leaves it.
LEMMA ListStep == ASSUME [Next]_vars PROVE List!Next \/ UNCHANGED known
<1>1. CASE Merge
  <2>1. known' = Merged(reload.found)
    BY <1>1 DEF Merge
  <2>2. Merged(reload.found) \in [Device -> List!Connection]
    BY DEF Merged, List!Connection
  <2>3. \A d \in Device : known[d] # "unknown" => Merged(reload.found)[d] # "unknown"
    BY DEF Merged
  <2>. QED  BY <2>1, <2>2, <2>3 DEF List!Next, List!Publish
<1>2. CASE ~Merge
  <2>1. CASE UNCHANGED vars
    BY <2>1 DEF vars
  <2>2. CASE Next
    BY <1>2, <2>2
    DEF Next, UserRefreshes, IosTimerFires, DebounceFires, NamesArrive, AdbLists, IosLists,
        RetryFires, Describe, EnsureStarted, Listen, WatcherReports, WatcherEnds,
        RestartFires, Change, Dispose, Tick, shown
  <2>. QED  BY <2>1, <2>2
<1>. QED  BY <1>1, <1>2

\* Discovery implements the list of devices that the sessions rely on: it
\* begins empty and forgets no device, however adb fails and reloads queue.
THEOREM ImplementsDeviceList == Spec => ForgetsNoDevice
<1>1. Init => List!Init
  BY DEF Init, List!Init
<1>2. [Next]_vars => [List!Next]_known
  BY ListStep
<1>. QED  BY <1>1, <1>2, PTL DEF Spec, ForgetsNoDevice, List!Spec
================================================================================
