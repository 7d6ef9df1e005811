---------------------------- MODULE DeviceDiscovery ----------------------------
(***************************************************************************)
(* How the list of devices is kept (DevicesRepository,                     *)
(* lib/services/devices_repository.dart).  One reload at a time reads what *)
(* `adb devices` and usbmuxd list, describes each device, and merges the   *)
(* result into the list, which never forgets a device.  Reloads are asked  *)
(* for by the `adb track-devices` watcher (debounced), by the iOS timer,   *)
(* by the user, and when the list of marketing names arrives.              *)
(*                                                                         *)
(* A step of the program is one turn of the event loop up to its next      *)
(* await.  Timers count ticks; the debounce and the delay between retries  *)
(* are shorter than a tick and hold it up.                                 *)
(***************************************************************************)
EXTENDS Integers, FiniteSets

CONSTANTS
    Android, Ios,       \* device ids
    Serial,             \* the serial number of each Android device
    Mdns,               \* Android ids that are mDNS names; they embed the serial
    Address,            \* Android ids of the form IP:port
    RetryMax,           \* _manualRetryCountMax
    MinInterval,        \* _minimumRefreshInterval, in ticks
    RestartDelay,       \* _androidWatcherRestartDelay, in ticks
    IosPeriod,          \* _iosRefreshInterval, in ticks
    Off,                \* a timer that is not armed
    Worlds              \* bounds: the devices there may be, how often they change,
                        \* adb or usbmuxd fails, its tracker ends and the user refreshes

Device == Android \cup Ios

ASSUME DiscoveryAssumption ==
    /\ IsFiniteSet(Device) /\ Android \cap Ios = {}
    /\ DOMAIN Serial = Android
    /\ Mdns \subseteq Android /\ Address \subseteq Android
    /\ Mdns \cap Address = {}
    /\ RetryMax \in Nat /\ Off \notin Nat
    /\ {MinInterval, RestartDelay, IosPeriod} \subseteq Nat \ {0}
    /\ \A w \in Worlds :
          /\ w.devices \subseteq Device
          /\ {w.changes, w.failures, w.ends, w.refreshes} \subseteq Nat

VARIABLES
    attached,    \* what is plugged in: absent, listed (offline, unauthorized) or online
    namesKnown,  \* the list of marketing names is in memory
    known,       \* _devices: unknown, connected or disconnected
    name,        \* the model each Android device is shown with
    cache,       \* _androidDescriptionCache: the model, with a serial unless it is adb's own
    reload,      \* _refreshInFlight: where it stands and what it has found
    queued,      \* _refreshQueued
    isLoading,   \* _isLoading
    recent,      \* ticks until the minimum interval since _lastRefreshAt is over
    debounce,    \* _androidRefreshTimer is armed
    watcher,     \* the `adb track-devices` stream: none, starting, on or ended
    news,        \* the tracker has lines it has not delivered
    restart,     \* _androidWatcherRestartTimer, in ticks
    iosTimer,    \* _iosRefreshTimer, in ticks
    started, disposed,
    unserved,    \* history: a forced refresh has not been followed by a listing
    budget       \* the world, and what is left of its bounds

vars == <<attached, namesKnown, known, name, cache, reload, queued, isLoading,
          recent, debounce, watcher, news, restart, iosTimer, started, disposed,
          unserved, budget>>

outside  == <<attached, namesKnown>>
shown    == <<known, name>>
watching == <<debounce, watcher, news, restart>>
life     == <<started, disposed>>

List == INSTANCE DeviceList

Attachment == {"absent", "listed", "online"}

\* The model a device is shown with: adb's own of its listing, the one the device
\* describes itself with, or the name it is sold under.
Name == {"none", "raw", "plain", "marketing"}

Nothing == [phase |-> "none", retry |-> FALSE, left |-> 0,
            found |-> [d \in Device |-> "absent"],
            named |-> [a \in Android |-> "none"], pending |-> {}]

Init ==
    /\ budget \in Worlds
    /\ attached \in {f \in [Device -> Attachment] :
                       /\ \A i \in Ios : f[i] # "listed"
                       /\ \A d \in Device \ budget.devices : f[d] = "absent"}
    /\ namesKnown = FALSE
    /\ known = [d \in Device |-> "unknown"] /\ name = [a \in Android |-> "none"]
    /\ cache = [a \in Android |-> "none"]
    /\ reload = Nothing /\ queued = FALSE
    /\ isLoading = FALSE /\ recent = 0
    /\ debounce = FALSE /\ watcher = "none" /\ news = FALSE /\ restart = Off /\ iosTimer = Off
    /\ started = FALSE /\ disposed = FALSE
    /\ unserved = FALSE

Spend(what) ==
    /\ budget[what] > 0
    /\ budget' = [budget EXCEPT ![what] = @ - 1]

-----------------------------------------------------------------------------
(* Asking for a reload.                                                    *)

InFlight == reload.phase # "none"

\* _reloadDevicesWith begins: `adb devices` is under way.
Begin(retry) == [Nothing EXCEPT !.phase = "listing", !.retry = retry, !.left = RetryMax]

\* Deviation: a request that meets a reload is content with it.
RefreshJoining(force, showLoading) ==
    IF InFlight \/ (~force /\ recent > 0)
    THEN UNCHANGED <<reload, isLoading>> /\ UNCHANGED queued /\ unserved' = (unserved \/ force)
    ELSE /\ reload' = Begin(showLoading) /\ unserved' = FALSE
         /\ isLoading' = (isLoading \/ showLoading) /\ UNCHANGED queued

\* Deviation: the spinner is shown before it is known whose reload this is.
RefreshSpinning(force, showLoading) ==
    /\ isLoading' = (isLoading \/ showLoading)
    /\ IF InFlight
       THEN queued' = (queued \/ force) /\ unserved' = (unserved \/ force) /\ UNCHANGED reload
       ELSE /\ IF ~force /\ recent > 0
               THEN UNCHANGED <<reload, unserved>>
               ELSE reload' = Begin(showLoading) /\ unserved' = FALSE
            /\ UNCHANGED queued

\* refreshDevices, of a repository not disposed.
Refresh(force, showLoading) ==
    \/ /\ InFlight
       /\ queued' = (queued \/ force) /\ unserved' = (unserved \/ force)
       /\ UNCHANGED <<reload, isLoading>>
    \/ /\ ~InFlight /\ ~force /\ recent > 0
       /\ UNCHANGED <<reload, isLoading, queued, unserved>>
    \/ /\ ~InFlight /\ (force \/ recent = 0)
       /\ reload' = Begin(showLoading) /\ unserved' = FALSE
       /\ isLoading' = (isLoading \/ showLoading)
       /\ UNCHANGED queued

UserRefreshes ==
    /\ started /\ ~disposed /\ Spend("refreshes")
    /\ \E showLoading \in BOOLEAN : Refresh(TRUE, showLoading)
    /\ UNCHANGED <<outside, shown, cache, recent, watching, iosTimer, life>>

IosTimerFires ==
    /\ iosTimer = 0 /\ ~disposed
    /\ iosTimer' = IosPeriod
    /\ Refresh(FALSE, FALSE)
    /\ UNCHANGED <<outside, shown, cache, recent, watching, life, budget>>

\* _scheduleAndroidRefresh's timer.
DebounceFires ==
    /\ debounce /\ ~disposed
    /\ debounce' = FALSE
    /\ Refresh(TRUE, FALSE)
    /\ UNCHANGED <<outside, shown, cache, recent, watcher, news, restart, iosTimer, life, budget>>

\* Deviation: what was described before the list arrived is kept.
NamesArriveKeeping ==
    /\ ~namesKnown /\ ~disposed
    /\ namesKnown' = TRUE
    /\ UNCHANGED cache
    /\ Refresh(TRUE, FALSE)
    /\ UNCHANGED <<attached, shown, recent, watching, iosTimer, life, budget>>

\* _onAndroidMarketingNamesChanged, also before ensureStarted.
NamesArrive ==
    /\ ~namesKnown /\ ~disposed
    /\ namesKnown' = TRUE
    /\ cache' = [a \in Android |-> "none"]
    /\ Refresh(TRUE, FALSE)
    /\ UNCHANGED <<attached, shown, recent, watching, iosTimer, life, budget>>

-----------------------------------------------------------------------------
(* A reload.                                                               *)

\* getDevices returns what adb lists, or nothing if adb fails.  Devices the
\* cache describes are resolved at once; those online are listed with a model, and
\* asked for theirs.
AdbLists ==
    /\ reload.phase = "listing"
    /\ \E failed \in BOOLEAN :
          LET found == [d \in Device |-> IF d \in Android /\ ~failed THEN attached[d] ELSE "absent"]
          IN  /\ IF failed THEN Spend("failures") ELSE UNCHANGED budget
              /\ reload' = [reload EXCEPT
                    !.phase = "describing", !.found = found,
                    !.named = [a \in Android |->
                        IF found[a] = "absent" THEN "none"
                        ELSE IF found[a] = "online" /\ cache[a] = "none" THEN "raw" ELSE cache[a]],
                    !.pending = {a \in Android : found[a] = "online" /\ cache[a] = "none"}]
    /\ UNCHANGED <<outside, shown, cache, queued, isLoading, recent, watching, iosTimer, life, unserved>>

\* _resolveAndroidDevice past its awaits: a device that does not answer keeps adb's
\* own model, without a serial, and is cached and not asked again all the same.
Describe(a) ==
    /\ reload.phase = "describing" /\ a \in reload.pending
    /\ \E answers \in BOOLEAN :
          LET model == IF ~answers THEN "raw" ELSE IF namesKnown THEN "marketing" ELSE "plain"
          IN  /\ IF answers THEN UNCHANGED budget ELSE Spend("failures")
              /\ reload' = [reload EXCEPT !.pending = @ \ {a}, !.named[a] = model]
              /\ cache' = [cache EXCEPT ![a] = model]
    /\ UNCHANGED <<outside, shown, queued, isLoading, recent, watching, iosTimer, life, unserved>>

\* _deduplicateWirelessAndroid: an address is dropped once it has told its serial
\* and an mDNS entry of that serial is listed, online or not.
Deduplicate(found, named) ==
    [d \in Device |->
        IF /\ d \in Address /\ named[d] \in {"plain", "marketing"}
           /\ \E m \in Mdns : found[m] # "absent" /\ Serial[m] = Serial[d]
        THEN "absent" ELSE found[d]]

\* usbmuxd lists the iOS devices, or none if it fails; describing them takes until
\* the merge.
IosLists ==
    /\ reload.phase = "describing" /\ reload.pending = {}
    /\ \E failed \in BOOLEAN :
          LET found == [d \in Device |-> IF d \notin Ios THEN reload.found[d]
                                        ELSE IF failed THEN "absent" ELSE attached[d]]
          IN  /\ IF failed THEN Spend("failures") ELSE UNCHANGED budget
              /\ reload' = [reload EXCEPT !.phase = "merging",
                                          !.found = Deduplicate(found, reload.named)]
    /\ UNCHANGED <<outside, shown, cache, queued, isLoading, recent, watching, iosTimer, life, unserved>>

\* Deviation: devices that are gone leave the list.
MergedForgetting(found) ==
    [d \in Device |-> IF found[d] = "online" THEN "connected"
                      ELSE IF found[d] = "listed" THEN "disconnected" ELSE "unknown"]

\* _mergeDevices: devices that are gone stay, disconnected.
Merged(found) ==
    [d \in Device |-> IF found[d] = "online" THEN "connected"
                      ELSE IF found[d] = "absent" /\ known[d] = "unknown" THEN "unknown"
                      ELSE "disconnected"]

\* A device is shown with the model of this listing, or of the last that had one.
MergedNames(found, named) ==
    [a \in Android |-> IF found[a] = "absent" \/ named[a] = "none" THEN name[a] ELSE named[a]]

\* refreshDevices' finally: the queued refresh begins at once.
Finish ==
    /\ isLoading' = (isLoading /\ ~reload.retry)
    /\ queued' = FALSE
    /\ IF queued /\ ~disposed THEN reload' = Begin(FALSE) /\ unserved' = FALSE
                              ELSE reload' = Nothing /\ UNCHANGED unserved

\* _reloadDevices ends.  One the user watches is repeated while it finds nothing.
Merge ==
    /\ reload.phase = "merging"
    /\ known' = Merged(reload.found)
    /\ name' = MergedNames(reload.found, reload.named)
    /\ recent' = MinInterval
    /\ IF /\ reload.retry /\ reload.left > 0 /\ ~disposed
          /\ \A d \in Device : known'[d] = "unknown"
       THEN reload' = [reload EXCEPT !.phase = "waiting"] /\ UNCHANGED <<queued, isLoading, unserved>>
       ELSE Finish
    /\ UNCHANGED <<outside, cache, watching, iosTimer, life, budget>>

\* The delay between two attempts.
RetryFires ==
    /\ reload.phase = "waiting"
    /\ IF disposed
       THEN Finish
       ELSE /\ reload' = [Begin(TRUE) EXCEPT !.left = reload.left - 1]
            /\ unserved' = FALSE
            /\ UNCHANGED <<queued, isLoading>>
    /\ UNCHANGED <<outside, shown, cache, recent, watching, iosTimer, life, budget>>

-----------------------------------------------------------------------------
(* The watcher of `adb track-devices`.                                     *)

AnyAndroid == \E a \in Android : attached[a] # "absent"

\* ensureStarted, by the session manager (immediately) or another.
EnsureStarted(immediately) ==
    /\ ~disposed
    /\ started' = TRUE
    /\ IF started
       THEN Spend("refreshes") /\ UNCHANGED <<watcher, iosTimer>>
       ELSE watcher' = "starting" /\ iosTimer' = IosPeriod /\ UNCHANGED budget
    /\ IF immediately \/ (\A d \in Device : known[d] = "unknown")
       THEN Refresh(TRUE, immediately)
       ELSE UNCHANGED <<reload, queued, isLoading, unserved>>
    /\ UNCHANGED <<outside, shown, cache, recent, debounce, news, restart, disposed>>

\* _restartAndroidDeviceWatcher past its awaits.  A tracker begins with the
\* list as it is.
Listen ==
    /\ watcher = "starting"
    /\ IF disposed THEN watcher' = "none" /\ news' = FALSE
                   ELSE watcher' = "on" /\ news' = AnyAndroid
    /\ UNCHANGED <<outside, shown, cache, reload, queued, isLoading, recent,
                   debounce, restart, iosTimer, life, unserved, budget>>

WatcherReports ==
    /\ watcher = "on" /\ news
    /\ news' = FALSE
    /\ debounce' = TRUE
    /\ UNCHANGED <<outside, shown, cache, reload, queued, isLoading, recent,
                   watcher, restart, iosTimer, life, unserved, budget>>

\* The tracker fails or exits, with what it has not said yet.
WatcherEnds ==
    /\ watcher = "on" /\ Spend("ends")
    /\ watcher' = "ended" /\ news' = FALSE
    /\ restart' = RestartDelay
    /\ UNCHANGED <<outside, shown, cache, reload, queued, isLoading, recent,
                   debounce, iosTimer, life, unserved>>

RestartFires ==
    /\ restart = 0
    /\ restart' = Off
    /\ watcher' = "starting"
    /\ UNCHANGED <<outside, shown, cache, reload, queued, isLoading, recent,
                   debounce, news, iosTimer, life, unserved, budget>>

Dispose ==
    /\ started /\ ~disposed
    /\ disposed' = TRUE
    /\ debounce' = FALSE /\ restart' = Off /\ iosTimer' = Off
    /\ watcher' = IF watcher = "starting" THEN "starting" ELSE "none"
    /\ news' = FALSE
    /\ UNCHANGED <<outside, shown, cache, reload, queued, isLoading, recent,
                   started, unserved, budget>>

-----------------------------------------------------------------------------
(* Devices come and go; time passes.                                       *)

Change(d) ==
    /\ d \in budget.devices /\ Spend("changes")
    /\ \E to \in Attachment \ {attached[d]} :
          /\ d \in Ios => to # "listed"
          /\ attached' = [attached EXCEPT ![d] = to]
    /\ news' = (news \/ (watcher = "on" /\ d \in Android))
    /\ UNCHANGED <<namesKnown, shown, cache, reload, queued, isLoading, recent,
                   debounce, watcher, restart, iosTimer, life, unserved>>

Less(t) == IF t = Off \/ t = 0 THEN t ELSE t - 1

Tick ==
    /\ started /\ ~disposed
    /\ ~debounce /\ watcher # "starting" /\ reload.phase # "waiting"
    /\ restart # 0 /\ iosTimer # 0
    /\ recent' = Less(recent) /\ restart' = Less(restart) /\ iosTimer' = Less(iosTimer)
    /\ UNCHANGED <<outside, shown, cache, reload, queued, isLoading, debounce,
                   watcher, news, life, unserved, budget>>

Next ==
    \/ UserRefreshes \/ IosTimerFires \/ DebounceFires \/ NamesArrive
    \/ AdbLists \/ IosLists \/ Merge \/ RetryFires
    \/ \E a \in Android : Describe(a)
    \/ \E immediately \in BOOLEAN : EnsureStarted(immediately)
    \/ Listen \/ WatcherReports \/ WatcherEnds \/ RestartFires
    \/ \E d \in Device : Change(d)
    \/ Dispose \/ Tick

\* adb and usbmuxd answer; timers fire; what is delivered is handled.
Fairness ==
    /\ WF_vars(AdbLists) /\ WF_vars(\E a \in Android : Describe(a)) /\ WF_vars(IosLists)
    /\ WF_vars(Merge) /\ WF_vars(RetryFires)
    /\ WF_vars(IosTimerFires) /\ WF_vars(DebounceFires)
    /\ WF_vars(Listen) /\ WF_vars(WatcherReports) /\ WF_vars(RestartFires)
    /\ WF_vars(Tick)

Spec == Init /\ [][Next]_vars /\ Fairness

-----------------------------------------------------------------------------
(* Properties.                                                             *)

\* The state has the types of its fields.
TypeOK ==
    /\ attached \in [Device -> Attachment] /\ namesKnown \in BOOLEAN
    /\ known \in [Device -> List!Connection] /\ name \in [Android -> Name]
    /\ cache \in [Android -> Name]
    /\ reload \in [phase : {"none", "listing", "describing", "merging", "waiting"},
                   retry : BOOLEAN, left : 0..RetryMax,
                   found : [Device -> Attachment], named : [Android -> Name],
                   pending : SUBSET Android]
    /\ {queued, isLoading, debounce, news, started, disposed, unserved} \subseteq BOOLEAN
    /\ recent \in 0..MinInterval
    /\ watcher \in {"none", "starting", "on", "ended"}
    /\ restart \in 0..RestartDelay \cup {Off} /\ iosTimer \in 0..IosPeriod \cup {Off}

\* A forced refresh that met a reload under way is never forgotten: until a
\* listing begins after it, it waits in the queue of that reload.
ForcedIsPending == unserved => disposed \/ (InFlight /\ queued)

\* The spinner is shown exactly while the reload it was asked with runs, so a
\* reload that retries, fails or outlives the repository takes it down.
SpinnerFollowsReload == isLoading <=> InFlight /\ reload.retry

\* The list forgets no device, connected or not, however its reloads fail or
\* overlap: it is the DeviceList the sessions rely on.
ForgetsNoDevice == List!Spec

\* Once devices, adb and the user are quiet, the list ends up saying what is
\* plugged in, whatever watcher, timer or queue the last change went through.
ListConverges ==
    <>[](started => disposed \/ \A d \in Device \ Address :
                                  known[d] = "connected" <=> attached[d] = "online")

\* The last description of a device failed, and stands until the names arrive.
Undescribed(a) == cache[a] = "raw"

\* A phone reached both by address and by its mDNS name ends up connected
\* under one of them at most: the address goes while the name is listed, even
\* offline, and comes back when it is not.  Only an address whose description
\* failed stays beside the name.
WirelessConverges ==
    <>[](started => disposed \/ \A d \in Address :
            known[d] = "connected" <=>
               /\ attached[d] = "online"
               /\ Undescribed(d) \/ ~ \E m \in Mdns : attached[m] # "absent" /\ Serial[m] = Serial[d])

\* Every connected device ends up with its marketing name, also one described
\* before the names arrived or while they did, unless its description failed.
NamesConverge ==
    <>[](started /\ namesKnown =>
           disposed \/ \A a \in Android :
              known[a] = "connected" => name[a] = "marketing" \/ Undescribed(a))

\* A watcher that ended is restarted.
WatcherReturns == watcher = "ended" ~> watcher = "on" \/ disposed

\* What discovery comes to: a list that is true, under the right names and one entry
\* for each phone but where a description failed, and a watcher to keep it so.
DiscoveryConverges ==
    ListConverges /\ WirelessConverges /\ NamesConverge /\ WatcherReturns

================================================================================
