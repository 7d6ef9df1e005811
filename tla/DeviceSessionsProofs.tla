--------------------------- MODULE DeviceSessionsProofs ---------------------------
(***************************************************************************)
(* Theorems about DeviceSessions for every set of devices and every number *)
(* of notifications and commands: first what they say whatever the order   *)
(* of the tabs, then the tab strip itself.                                 *)
(***************************************************************************)
EXTENDS DeviceSessions, FiniteSetTheorems, SequenceTheorems, TLAPS

USE SessionsAssumption

\* The inductive invariant: who is connected is what the list says, and the
\* controllers alive are those of the sessions.
Inv ==
    /\ known \in [Device -> Devices!Connection]
    /\ sessions \subseteq Id /\ connected \subseteq sessions
    /\ alive \in [Id -> Int] /\ disposed \in BOOLEAN /\ workspace \in BOOLEAN
    /\ ConnectedHasTab /\ ControllersAreOwned /\ WorkspaceIsShown

Parts == <<known, sessions, connected, alive, disposed, workspace>>

LEMMA InitInv == Init => Inv
<1>. SUFFICES ASSUME Init PROVE Inv
  OBVIOUS
<1>1. known \in [Device -> Devices!Connection] /\ \A d \in Device : known[d] = "unknown"
  BY DEF Init, Devices!Init, Devices!Connection
<1>2. sessions = {} /\ connected = {} /\ alive = [i \in Id |-> 0] /\ disposed = FALSE /\ workspace = FALSE
  BY DEF Init
<1>3. connected = {d \in Device : known[d] = "connected"}
  BY <1>1, <1>2
<1>4. ControllersAreOwned /\ alive \in [Id -> Int]
  BY <1>2 DEF ControllersAreOwned
<1>5. WorkspaceIsShown
  BY <1>2 DEF WorkspaceIsShown
<1>. QED  BY <1>1, <1>2, <1>3, <1>4, <1>5 DEF Inv, ConnectedHasTab

\* A notification leaves exactly the connected devices connected, each in a
\* session, and creates a controller for the new sessions only.
LEMMA SyncStep ==
    ASSUME Inv, NEW next \in [Device -> Devices!Connection], ~disposed,
           known' = next, Sync(next), UNCHANGED <<workspace, disposed>>
    PROVE  Inv'
<1>. DEFINE on    == {d \in Device : next[d] = "connected"}
            shown == {d \in Device : next[d] # "unknown"} \ (dismissed \ on)
            new   == shown \ sessions
<1>1. /\ sessions' = sessions \cup new /\ connected' = on \cap shown
      /\ alive' = [i \in Id |-> IF i \in new THEN alive[i] + 1 ELSE alive[i]]
  BY DEF Sync
<1>2. on \subseteq shown /\ shown \subseteq sessions' /\ new \subseteq Device
  BY <1>1
<1>3. connected' = {d \in Device : known'[d] = "connected"} /\ connected' \subseteq sessions'
  BY <1>1, <1>2
<1>4. alive' \in [Id -> Int]
  BY <1>1 DEF Inv
<1>5. ControllersAreOwned'
  BY <1>1, <1>2 DEF Inv, ControllersAreOwned, Id
<1>6. WorkspaceIsShown'
  BY <1>1, <1>2 DEF Inv, WorkspaceIsShown
<1>7. sessions' \subseteq Id
  BY <1>1, <1>2 DEF Inv, Id
<1>. HIDE DEF on, shown, new
<1>. QED  BY <1>3, <1>4, <1>5, <1>6, <1>7 DEF Inv, ConnectedHasTab

LEMMA NextInv == Inv /\ [Next]_vars => Inv'
<1>. SUFFICES ASSUME Inv, [Next]_vars PROVE Inv'
  OBVIOUS
<1>1. CASE Notified
  <2>1. PICK next \in [Device -> Devices!Connection] : known' = next /\ Sync(next)
    BY <1>1 DEF Notified, Devices!Publish
  <2>. QED  BY <1>1, <2>1, SyncStep DEF Notified
<1>2. CASE UNCHANGED Parts
  BY <1>2 DEF Parts, Inv, ConnectedHasTab, ControllersAreOwned, WorkspaceIsShown
<1>3. CASE \E id \in Id : Close(id)
  <2>1. PICK id \in Id : Close(id)
    BY <1>3
  <2>2. /\ id \in sessions \ connected /\ sessions' = sessions \ {id}
        /\ alive' = [alive EXCEPT ![id] = @ - 1]
        /\ workspace' = (workspace /\ id # Imported)
        /\ UNCHANGED <<known, connected, disposed>> /\ ~disposed
    BY <2>1 DEF Close, Command
  <2>3. ControllersAreOwned'
    BY <2>2 DEF Inv, ControllersAreOwned
  <2>4. WorkspaceIsShown' /\ workspace' \in BOOLEAN
    BY <2>2 DEF Inv, WorkspaceIsShown
  <2>5. alive' \in [Id -> Int]
    BY <2>2 DEF Inv
  <2>. QED  BY <2>2, <2>3, <2>4, <2>5 DEF Inv, ConnectedHasTab
<1>4. CASE FileIsRead
  <2>1. CASE UNCHANGED Parts
    BY <1>2, <2>1
  <2>2. CASE ~disposed /\ EnsureImportedWorkspace /\ ~workspace
    <3>1. /\ workspace' = TRUE /\ sessions' = sessions \cup {Imported}
          /\ alive' = [alive EXCEPT ![Imported] = @ + 1]
          /\ UNCHANGED <<known, connected, disposed>>
      BY <1>4, <2>2 DEF FileIsRead, EnsureImportedWorkspace
    <3>2. Imported \in Id \ sessions
      BY <2>2 DEF Inv, WorkspaceIsShown, Id
    <3>3. ControllersAreOwned' /\ alive' \in [Id -> Int]
      BY <2>2, <3>1, <3>2 DEF Inv, ControllersAreOwned
    <3>. QED  BY <3>1, <3>2, <3>3 DEF Inv, ConnectedHasTab, WorkspaceIsShown
  <2>. QED  BY <1>4, <2>1, <2>2 DEF FileIsRead, EnsureImportedWorkspace, Parts
<1>5. CASE Dispose
  <2>1. /\ disposed' = TRUE /\ ~disposed
        /\ alive' = [i \in Id |-> IF i \in sessions THEN alive[i] - 1 ELSE alive[i]]
        /\ UNCHANGED <<known, sessions, connected, workspace>>
    BY <1>5 DEF Dispose
  <2>2. ControllersAreOwned' /\ alive' \in [Id -> Int]
    BY <2>1 DEF Inv, ControllersAreOwned
  <2>. QED  BY <2>1, <2>2 DEF Inv, ConnectedHasTab, WorkspaceIsShown
<1>6. CASE \E id \in Id : Select(id) \/ Reload(id)
  BY <1>2, <1>6 DEF Select, Reload, Command, table, Parts
<1>7. CASE GoHome \/ ImportLog \/ UNCHANGED vars
  BY <1>2, <1>7 DEF GoHome, ImportLog, Command, table, Parts, vars
<1>. QED  BY <1>1, <1>3, <1>4, <1>5, <1>6, <1>7 DEF Next

\* The invariant holds in every state of every behaviour.
THEOREM Invariance == Spec => []Inv
BY InitInv, NextInv, PTL DEF Spec

\* The sessions and the list agree on who is connected, and every connected
\* device has a tab, whatever the user dismissed before.
THEOREM ConnectedDevicesHaveTabs == Spec => [](ConnectedHasTab /\ connected \subseteq sessions)
<1>1. Inv => ConnectedHasTab /\ connected \subseteq sessions
  BY DEF Inv
<1>. QED  BY Invariance, <1>1, PTL

\* No session controller outlives its tab and none is disposed twice.
THEOREM NoControllerLeaks == Spec => []ControllersAreOwned
<1>1. Inv => ControllersAreOwned
  BY DEF Inv
<1>. QED  BY Invariance, <1>1, PTL

\* Imports go to the workspace on screen.
THEOREM ImportsAreShown == Spec => []WorkspaceIsShown
<1>1. Inv => WorkspaceIsShown
  BY DEF Inv
<1>. QED  BY Invariance, <1>1, PTL

\* A dismissed device gets its tab back only by being connected.
THEOREM DismissedUntilReconnected == Spec => DismissedStaysClosed
<1>. DEFINE Step == \A d \in Device \cap dismissed : d \in sessions' => known'[d] = "connected"
            Apart == dismissed \cap sessions = {}
<1>1. Init => Apart
  BY DEF Init
<1>2. Inv /\ Apart /\ [Next]_vars => Apart' /\ (vars' # vars => Step)
  <2>. SUFFICES ASSUME Inv, Apart, [Next]_vars PROVE Apart' /\ (vars' # vars => Step)
    OBVIOUS
  <2>1. CASE Notified
    <3>1. PICK next \in [Device -> Devices!Connection] : known' = next /\ Sync(next)
      BY <2>1 DEF Notified, Devices!Publish
    <3>. DEFINE on    == {d \in Device : next[d] = "connected"}
                shown == {d \in Device : next[d] # "unknown"} \ (dismissed \ on)
    <3>2. dismissed' = dismissed \ on /\ sessions' = sessions \cup (shown \ sessions)
      BY <3>1 DEF Sync
    <3>. QED  BY <3>1, <3>2
  <2>2. CASE \E id \in Id : Close(id)
    BY <2>2 DEF Close
  <2>3. CASE FileIsRead
    BY <2>3 DEF FileIsRead, EnsureImportedWorkspace
  <2>4. CASE \E id \in Id : Select(id) \/ Reload(id)
    BY <2>4 DEF Select, Reload, table
  <2>5. CASE GoHome \/ ImportLog \/ Dispose \/ UNCHANGED vars
    BY <2>5 DEF GoHome, ImportLog, Dispose, table, vars
  <2>. QED  BY <2>1, <2>2, <2>3, <2>4, <2>5 DEF Next
<1>3. Spec => [](Inv /\ Apart)
  BY InitInv, NextInv, <1>1, <1>2, PTL DEF Spec
<1>4. Inv /\ Apart /\ [Next]_vars => [Step]_vars
  BY <1>2
<1>. QED  BY <1>3, <1>4, PTL DEF Spec, DismissedStaysClosed

-----------------------------------------------------------------------------
(* The order of the tabs.                                                  *)

HIDE SessionsAssumption

\* A fresh tab at the end.
LEMMA Appending ==
    ASSUME NEW S, NEW s \in Seq(S), NEW t \in S \ ToSet(s), IsInjective(s)
    PROVE  /\ ToSet(Append(s, t)) = ToSet(s) \cup {t}
           /\ IsInjective(Append(s, t))
           /\ Append(s, t) \in Seq(S) /\ Len(Append(s, t)) = Len(s) + 1 /\ Append(s, t) # <<>>
           /\ Len(s) \in Nat
<1>1. /\ Append(s, t) \in Seq(S) /\ Len(Append(s, t)) = Len(s) + 1 /\ Len(s) \in Nat
      /\ DOMAIN Append(s, t) = 1 .. Len(s) + 1 /\ DOMAIN s = 1 .. Len(s)
      /\ Append(s, t)[Len(s) + 1] = t
      /\ \A i \in 1 .. Len(s) : Append(s, t)[i] = s[i]
  OBVIOUS
<1>. DEFINE r == Append(s, t)
<1>. HIDE DEF r
<1>2. /\ r \in Seq(S) /\ Len(r) = Len(s) + 1 /\ Len(s) \in Nat
      /\ DOMAIN r = 1 .. Len(s) + 1 /\ DOMAIN s = 1 .. Len(s) /\ r[Len(s) + 1] = t
      /\ \A i \in 1 .. Len(s) : r[i] = s[i]
  BY <1>1 DEF r
<1>3. ToSet(r) = ToSet(s) \cup {t}
  BY <1>2 DEF ToSet
<1>4. IsInjective(r)
  BY <1>2 DEF ToSet, IsInjective
<1>5. r # <<>>
  BY <1>2
<1>. QED  BY <1>2, <1>3, <1>4, <1>5 DEF r

\* A tab taken out.
LEMMA Removing ==
    ASSUME NEW S, NEW s \in Seq(S), NEW i \in 1 .. Len(s), IsInjective(s)
    PROVE  /\ ToSet(RemoveAt(s, i)) = ToSet(s) \ {s[i]}
           /\ IsInjective(RemoveAt(s, i))
           /\ RemoveAt(s, i) \in Seq(S) /\ Len(RemoveAt(s, i)) = Len(s) - 1
<1>. DEFINE r == RemoveAt(s, i)
<1>. DEFINE a == SubSeq(s, 1, i - 1)
            b == SubSeq(s, i + 1, Len(s))
<1>a. /\ a \in Seq(S) /\ Len(a) = i - 1 /\ \A k \in 1 .. i - 1 : a[k] = s[k]
  OBVIOUS
<1>b. /\ b \in Seq(S) /\ Len(b) = Len(s) - i /\ \A k \in 1 .. Len(s) - i : b[k] = s[k + i]
  OBVIOUS
<1>c. r = a \o b
  BY DEF RemoveAt
<1>. HIDE DEF a, b, r
<1>d. /\ r \in Seq(S) /\ Len(r) = Len(a) + Len(b)
      /\ \A k \in 1 .. Len(a) + Len(b) : r[k] = IF k <= Len(a) THEN a[k] ELSE b[k - Len(a)]
  <2>1. a \in Seq(S) /\ b \in Seq(S)
    BY <1>a, <1>b
  <2>. QED  BY <1>c, <2>1
<1>e. Len(s) \in Nat /\ Len(r) = Len(s) - 1
  BY <1>a, <1>b, <1>d
<1>1. /\ r \in Seq(S) /\ Len(r) = Len(s) - 1 /\ Len(s) \in Nat
      /\ \A k \in 1 .. Len(s) - 1 : r[k] = IF k < i THEN s[k] ELSE s[k + 1]
  <2>1. ASSUME NEW k \in 1 .. Len(s) - 1, k < i PROVE r[k] = s[k]
    <3>1. k \in 1 .. i - 1 /\ k <= Len(a) /\ k \in 1 .. Len(a) + Len(b)
      BY <1>a, <1>b, <1>e, <2>1
    <3>2. r[k] = a[k]
      BY <1>d, <3>1
    <3>. QED  BY <1>a, <3>1, <3>2
  <2>2. ASSUME NEW k \in 1 .. Len(s) - 1, ~(k < i) PROVE r[k] = s[k + 1]
    <3>1. r[k] = b[k - (i - 1)] /\ k - (i - 1) \in 1 .. Len(s) - i
      BY <1>a, <1>b, <1>d, <1>e, <2>2
    <3>2. b[k - (i - 1)] = s[(k - (i - 1)) + i] /\ (k - (i - 1)) + i = k + 1
      BY <1>b, <3>1
    <3>. QED  BY <3>1, <3>2
  <2>. QED  BY <1>d, <1>e, <2>1, <2>2
<1>2. DOMAIN r = 1 .. Len(s) - 1 /\ DOMAIN s = 1 .. Len(s)
  BY <1>1
<1>3. IsInjective(r)
  BY <1>1, <1>2 DEF IsInjective
<1>4. ToSet(r) \subseteq ToSet(s) \ {s[i]}
  BY <1>1, <1>2 DEF IsInjective, ToSet
<1>5. ASSUME NEW k \in 1 .. Len(s), k # i PROVE s[k] \in ToSet(r)
  <2>1. CASE k < i
    <3>1. k \in 1 .. Len(s) - 1 /\ r[k] = s[k]
      BY <1>1, <2>1
    <3>. QED  BY <1>2, <3>1 DEF ToSet
  <2>2. CASE k > i
    <3>1. k - 1 \in 1 .. Len(s) - 1 /\ r[k - 1] = s[k]
      BY <1>1, <2>2
    <3>. QED  BY <1>2, <3>1 DEF ToSet
  <2>. QED  BY <1>5, <2>1, <2>2
<1>6. ToSet(s) \ {s[i]} \subseteq ToSet(r)
  BY <1>2, <1>5 DEF ToSet
<1>. QED  BY <1>1, <1>3, <1>4, <1>6 DEF r

\* New tabs at the end, in any order.
LEMMA AppendingAll ==
    ASSUME NEW S, NEW s \in Seq(S), IsInjective(s), NEW new, new \subseteq S, IsFiniteSet(new),
           new \cap ToSet(s) = {}, NEW q \in SetToSeqs(new)
    PROVE  s \o q \in Seq(S) /\ IsInjective(s \o q) /\ ToSet(s \o q) = ToSet(s) \cup new
<1>. PICK r : r = s \o q
  OBVIOUS
<1>. DEFINE n == Cardinality(new)
            D == 1 .. n
<1>1. n \in Nat
  BY FS_CardinalityType
<1>2. PICK f \in [D -> new] : r = s \o f /\ \A i, j \in D : i # j => f[i] # f[j]
  BY DEF SetToSeqs, IsInjective
<1>3. \A x \in new : \E i \in D : f[i] = x
  <2>1. f \in Injection(D, new)
    BY <1>2 DEF Injection, IsInjective
  <2>2. IsFiniteSet(D) /\ Cardinality(D) = n
    BY <1>1, FS_Interval
  <2>3. f \in Surjection(D, new)
    BY <2>1, <2>2, FS_Injection
  <2>. QED  BY <2>3 DEF Surjection
<1>. HIDE DEF n
<1>4. f \in Seq(S) /\ Len(f) = n /\ Len(s) \in Nat /\ DOMAIN s = 1 .. Len(s)
  BY <1>1
<1>5. /\ r \in Seq(S) /\ DOMAIN r = 1 .. Len(s) + n
      /\ \A i \in 1 .. Len(s) + n : r[i] = IF i <= Len(s) THEN s[i] ELSE f[i - Len(s)]
  <2>1. /\ s \o f \in Seq(S) /\ Len(s \o f) = Len(s) + Len(f)
        /\ \A i \in 1 .. Len(s) + Len(f) :
              (s \o f)[i] = IF i <= Len(s) THEN s[i] ELSE f[i - Len(s)]
    <3>1. s \in Seq(S) /\ f \in Seq(S)
      BY <1>4
    <3>. QED  BY <3>1, ConcatProperties
  <2>. QED  BY <1>1, <1>2, <1>4, <2>1
<1>6. \A i \in 1 .. Len(s) : i \in DOMAIN r /\ r[i] = s[i]
  BY <1>1, <1>4, <1>5
<1>7. ASSUME NEW i \in D PROVE i + Len(s) \in DOMAIN r /\ r[i + Len(s)] = f[i]
  <2>1. i + Len(s) \in 1 .. Len(s) + n /\ ~(i + Len(s) <= Len(s)) /\ (i + Len(s)) - Len(s) = i
    BY <1>1, <1>4
  <2>. QED  BY <1>5, <2>1
<1>8. ASSUME NEW i \in DOMAIN r
      PROVE  (i \in 1 .. Len(s) /\ r[i] = s[i]) \/ (i - Len(s) \in D /\ r[i] = f[i - Len(s)])
  BY <1>1, <1>4, <1>5
<1>9. ToSet(r) = ToSet(s) \cup new
  <2>1. ToSet(s) \subseteq ToSet(r)
    BY <1>4, <1>6 DEF ToSet
  <2>2. new \subseteq ToSet(r)
    BY <1>3, <1>7 DEF ToSet
  <2>3. ToSet(r) \subseteq ToSet(s) \cup new
    BY <1>2, <1>4, <1>8 DEF ToSet
  <2>. QED  BY <2>1, <2>2, <2>3
<1>10. ASSUME NEW a \in DOMAIN r, NEW b \in DOMAIN r, r[a] = r[b] PROVE a = b
  <2>1. CASE a \in 1 .. Len(s) /\ b \in 1 .. Len(s)
    BY <1>4, <1>6, <1>10, <2>1 DEF IsInjective
  <2>2. CASE a - Len(s) \in D /\ b - Len(s) \in D
    <3>1. f[a - Len(s)] = f[b - Len(s)]
      BY <1>1, <1>4, <1>5, <1>10, <2>2
    <3>2. a - Len(s) = b - Len(s)
      BY <1>2, <2>2, <3>1
    <3>. QED  BY <1>4, <1>5, <3>2
  <2>3. CASE a \in 1 .. Len(s) /\ b - Len(s) \in D
    <3>1. r[a] \in ToSet(s)
      BY <1>4, <1>6, <2>3 DEF ToSet
    <3>2. r[b] \in new
      BY <1>1, <1>2, <1>4, <1>5, <2>3
    <3>. QED  BY <1>10, <3>1, <3>2
  <2>4. CASE a - Len(s) \in D /\ b \in 1 .. Len(s)
    <3>1. r[b] \in ToSet(s)
      BY <1>4, <1>6, <2>4 DEF ToSet
    <3>2. r[a] \in new
      BY <1>1, <1>2, <1>4, <1>5, <2>4
    <3>. QED  BY <1>10, <3>1, <3>2
  <2>. QED  BY <1>8, <2>1, <2>2, <2>3, <2>4
<1>11. IsInjective(r)
  BY <1>10 DEF IsInjective
<1>. QED  BY <1>5, <1>9, <1>11

\* The tabs are the sessions, each once.
Tabs == order \in Seq(Id) /\ OrderIsSessions

\* The selected tab is one of them, and activated.
Use == activated \subseteq sessions /\ selected \in Id \cup {Home} /\ SelectedIsActive

\* An import asked for has taken its command.
Rest ==
    /\ dismissed \subseteq Id /\ {autoDone, acted} \subseteq BOOLEAN
    /\ budget \in [publishes : Nat, commands : Nat]
    /\ importing \in Nat /\ importing + budget.commands <= MaxCommands

\* The invariant of the tab strip.
Strip == Inv /\ Tabs /\ Use /\ Rest

LEMMA StripFollows == Strip => StripInv
<1>. SUFFICES ASSUME Strip PROVE StripInv
  OBVIOUS
<1>1. alive \in [Id -> Nat]
  BY DEF Strip, Inv, ControllersAreOwned
<1>2. importing \in 0 .. MaxCommands
  BY SessionsAssumption DEF Strip, Rest
<1>3. TypeOK
  BY <1>1, <1>2 DEF Strip, Inv, Tabs, Use, Rest, TypeOK
<1>. QED  BY <1>3 DEF Strip, Inv, Tabs, Use, StripInv

LEMMA InitStrip == Init => Strip
<1>. SUFFICES ASSUME Init PROVE Strip
  OBVIOUS
<1>1. Tabs
  BY DEF Init, Tabs, OrderIsSessions, ToSet, IsInjective
<1>2. Use
  BY DEF Init, Use, SelectedIsActive
<1>3. dismissed = {} /\ autoDone = FALSE /\ acted = FALSE
  BY DEF Init
<1>4. /\ budget \in [publishes : Nat, commands : Nat]
      /\ importing \in Nat /\ importing + budget.commands <= MaxCommands
  BY SessionsAssumption DEF Init
<1>5. Rest
  BY <1>3, <1>4 DEF Rest
<1>. QED  BY InitInv, <1>1, <1>2, <1>5 DEF Strip

\* What a notification does to the tabs: new ones at the end.
LEMMA NotifiedView ==
    ASSUME Strip, Notified
    PROVE  /\ \E new \in SUBSET Device :
                 /\ new \cap sessions = {} /\ sessions' = sessions \cup new
                 /\ order' \in {order \o s : s \in SetToSeqs(new)}
           /\ dismissed' \subseteq dismissed
           /\ MaybeAutoSelect(connected')
           /\ budget' = [budget EXCEPT !.publishes = @ - 1] /\ budget.publishes > 0
           /\ UNCHANGED <<importing, acted>>
<1>1. PICK next \in [Device -> Devices!Connection] : Sync(next)
  BY DEF Notified
<1>2. /\ budget' = [budget EXCEPT !.publishes = @ - 1] /\ budget.publishes > 0
      /\ UNCHANGED <<importing, acted>>
  BY DEF Notified
<1>3. MaybeAutoSelect(connected')
  BY <1>1 DEF Sync
<1>. DEFINE on    == {d \in Device : next[d] = "connected"}
            shown == {d \in Device : next[d] # "unknown"} \ (dismissed \ on)
            new   == shown \ sessions
<1>4. /\ dismissed' = dismissed \ on /\ sessions' = sessions \cup new
      /\ order' \in {order \o s : s \in SetToSeqs(new)}
  BY <1>1 DEF Sync, Appended
<1>. QED  BY <1>2, <1>3, <1>4

\* What closing a tab does to the strip.
LEMMA CloseTabs ==
    ASSUME Strip, NEW id \in Id, Close(id)
    PROVE  Tabs'
<1>1. PICK i \in DOMAIN order : order[i] = id /\ order' = RemoveAt(order, i)
  BY DEF Close
<1>2. sessions' = sessions \ {id}
  BY DEF Close
<1>3. order \in Seq(Id) /\ IsInjective(order) /\ ToSet(order) = sessions /\ i \in 1 .. Len(order)
  BY <1>1 DEF Strip, Tabs, OrderIsSessions
<1>4. /\ ToSet(RemoveAt(order, i)) = ToSet(order) \ {order[i]}
      /\ IsInjective(RemoveAt(order, i)) /\ RemoveAt(order, i) \in Seq(Id)
  BY <1>3, Removing
<1>. QED  BY <1>1, <1>2, <1>3, <1>4 DEF Tabs, OrderIsSessions

LEMMA TabsStep == Strip /\ [Next]_vars => Tabs'
<1>. SUFFICES ASSUME Strip, [Next]_vars PROVE Tabs'
  OBVIOUS
<1>1. order \in Seq(Id) /\ IsInjective(order) /\ ToSet(order) = sessions /\ sessions \subseteq Id
  BY DEF Strip, Inv, Tabs, OrderIsSessions
<1>2. CASE Notified
  <2>1. PICK new \in SUBSET Device :
            /\ new \cap sessions = {} /\ sessions' = sessions \cup new
            /\ order' \in {order \o s : s \in SetToSeqs(new)}
    BY <1>2, NotifiedView
  <2>2. IsFiniteSet(new) /\ new \subseteq Id /\ new \cap ToSet(order) = {}
    BY <1>1, <2>1, SessionsAssumption, FS_Subset DEF Id
  <2>3. order' \in Seq(Id) /\ IsInjective(order') /\ ToSet(order') = ToSet(order) \cup new
    <3>1. PICK q \in SetToSeqs(new) : order' = order \o q
      BY <2>1
    <3>2. /\ order \o q \in Seq(Id) /\ IsInjective(order \o q)
          /\ ToSet(order \o q) = ToSet(order) \cup new
      BY <1>1, <2>2, <3>1, AppendingAll
    <3>. QED  BY <3>1, <3>2
  <2>. QED  BY <1>1, <2>1, <2>3 DEF Tabs, OrderIsSessions
<1>3. CASE \E id \in Id : Close(id)
  BY <1>3, CloseTabs
<1>4. CASE UNCHANGED <<order, sessions>>
  BY <1>1, <1>4 DEF Tabs, OrderIsSessions
<1>5. CASE FileIsRead
  <2>1. CASE ~disposed /\ EnsureImportedWorkspace /\ ~workspace
    <3>1. sessions' = sessions \cup {Imported} /\ order' = Append(order, Imported)
      BY <2>1 DEF EnsureImportedWorkspace
    <3>2. Imported \in Id \ ToSet(order)
      BY <1>1, <2>1 DEF Strip, Inv, WorkspaceIsShown, Id
    <3>3. /\ Append(order, Imported) \in Seq(Id) /\ IsInjective(Append(order, Imported))
          /\ ToSet(Append(order, Imported)) = ToSet(order) \cup {Imported}
      BY <1>1, <3>2, Appending
    <3>. QED  BY <1>1, <3>1, <3>3 DEF Tabs, OrderIsSessions
  <2>. QED  BY <1>4, <1>5, <2>1 DEF FileIsRead, EnsureImportedWorkspace
<1>6. CASE \E id \in Id : Select(id) \/ Reload(id)
  BY <1>4, <1>6 DEF Select, Reload, table
<1>7. CASE GoHome \/ ImportLog \/ Dispose \/ UNCHANGED vars
  BY <1>4, <1>7 DEF GoHome, ImportLog, Dispose, table, vars
<1>. QED  BY <1>2, <1>3, <1>5, <1>6, <1>7 DEF Next

\* The last tab is one of the tabs.
LEMMA LastIsATab ==
    ASSUME NEW S, NEW s \in Seq(S), s # <<>>
    PROVE  Last(s) \in ToSet(s)
<1>1. Len(s) \in DOMAIN s
  OBVIOUS
<1>. QED  BY <1>1 DEF Last, ToSet

\* A tab that is closed passes the selection to one that stays, and wakes it.
LEMMA CloseUse ==
    ASSUME Strip, NEW id \in Id, Close(id)
    PROVE  Use'
<1>1. /\ sessions' = sessions \ {id} /\ SelectLast(id) /\ Tabs'
  BY CloseTabs DEF Close
<1>2. /\ activated \subseteq sessions /\ selected \in activated \cup {Home}
      /\ selected \in Id \cup {Home} /\ sessions \subseteq Id
  BY DEF Strip, Inv, Use, SelectedIsActive
<1>3. CASE selected # id
  BY <1>1, <1>2, <1>3 DEF SelectLast, Use, SelectedIsActive
<1>4. CASE selected = id
  <2>1. selected' \in sessions' \cup {Home}
    <3>1. CASE order' = <<>>
      BY <1>1, <1>4, <3>1 DEF SelectLast
    <3>2. CASE order' # <<>>
      <4>1. Last(order') \in ToSet(order')
        BY <1>1, <3>2, LastIsATab DEF Tabs
      <4>. QED  BY <1>1, <1>4, <3>2, <4>1 DEF SelectLast, Tabs, OrderIsSessions
    <3>. QED  BY <3>1, <3>2
  <2>2. activated' = (activated \ {id}) \cup ({selected'} \ {Home})
    BY <1>1, <1>4 DEF SelectLast
  <2>. QED  BY <1>1, <1>2, <2>1, <2>2 DEF Use, SelectedIsActive
<1>. QED  BY <1>3, <1>4

LEMMA UseStep == Strip /\ [Next]_vars => Use'
<1>. SUFFICES ASSUME Strip, [Next]_vars PROVE Use'
  OBVIOUS
<1>1. /\ activated \subseteq sessions /\ selected \in activated \cup {Home}
      /\ selected \in Id \cup {Home} /\ sessions \subseteq Id
  BY DEF Strip, Inv, Use, SelectedIsActive
<1>2. connected' \subseteq sessions' /\ sessions' \subseteq Id /\ (workspace' <=> Imported \in sessions')
  BY NextInv DEF Strip, Inv, WorkspaceIsShown
<1>3. CASE Notified
  <2>1. sessions \subseteq sessions' /\ MaybeAutoSelect(connected')
    BY <1>3, NotifiedView
  <2>2. CASE UNCHANGED <<selected, activated>>
    BY <1>1, <2>1, <2>2 DEF Use, SelectedIsActive
  <2>3. CASE \E only \in connected' : selected' = only /\ activated' = activated \cup {only}
    BY <1>1, <1>2, <2>1, <2>3 DEF Use, SelectedIsActive
  <2>. QED  BY <2>1, <2>2, <2>3 DEF MaybeAutoSelect
<1>4. CASE \E id \in Id : Close(id)
  BY <1>4, CloseUse
<1>5. CASE \E id \in Id : Select(id)
  BY <1>1, <1>5 DEF Select, SelectAndActivate, table, Use, SelectedIsActive
<1>6. CASE \E id \in Id : Reload(id)
  <2>1. PICK id \in Id : Reload(id)
    BY <1>6
  <2>2. /\ id \in sessions /\ UNCHANGED <<sessions, selected>>
        /\ activated' = IF selected = id THEN activated \cup {id} ELSE activated \ {id}
    BY <2>1 DEF Reload, table
  <2>. QED  BY <1>1, <2>2 DEF Use, SelectedIsActive
<1>7. CASE FileIsRead
  <2>1. CASE UNCHANGED <<sessions, activated, selected>>
    BY <1>1, <2>1 DEF Use, SelectedIsActive
  <2>2. CASE /\ EnsureImportedWorkspace /\ SelectAndActivate(Imported)
             /\ activated' = activated \cup {Imported}
    <3>1. workspace' /\ sessions \subseteq sessions' /\ selected' = Imported
      BY <2>2 DEF EnsureImportedWorkspace, SelectAndActivate
    <3>. QED  BY <1>1, <1>2, <2>2, <3>1 DEF Use, SelectedIsActive
  <2>. QED  BY <1>7, <2>1, <2>2 DEF FileIsRead
<1>8. CASE GoHome
  BY <1>1, <1>8 DEF GoHome, table, Use, SelectedIsActive
<1>9. CASE ImportLog \/ Dispose \/ UNCHANGED vars
  <2>1. UNCHANGED <<sessions, activated, selected>>
    BY <1>9 DEF ImportLog, Dispose, table, vars
  <2>. QED  BY <1>1, <2>1 DEF Use, SelectedIsActive
<1>. QED  BY <1>3, <1>4, <1>5, <1>6, <1>7, <1>8, <1>9 DEF Next

LEMMA RestStep == Strip /\ [Next]_vars => Rest'
<1>. SUFFICES ASSUME Strip, [Next]_vars PROVE Rest'
  OBVIOUS
<1>1. Rest /\ sessions \subseteq Id
  BY DEF Strip, Inv
<1>2. CASE Notified
  <2>1. /\ dismissed' \subseteq dismissed /\ UNCHANGED <<importing, acted>>
        /\ budget' = [budget EXCEPT !.publishes = @ - 1] /\ budget.publishes > 0
        /\ MaybeAutoSelect(connected')
    BY <1>2, NotifiedView
  <2>2. autoDone' \in BOOLEAN
    BY <1>1, <2>1 DEF MaybeAutoSelect, Rest
  <2>3. /\ budget' \in [publishes : Nat, commands : Nat] /\ importing' \in Nat
        /\ importing' + budget'.commands <= MaxCommands
    BY <1>1, <2>1, SessionsAssumption DEF Rest
  <2>. QED  BY <1>1, <2>1, <2>2, <2>3 DEF Rest
<1>3. ASSUME Command, importing' \in {importing, importing + 1}
      PROVE  /\ budget' \in [publishes : Nat, commands : Nat] /\ importing' \in Nat
             /\ importing' + budget'.commands <= MaxCommands
  BY <1>1, <1>3, SessionsAssumption DEF Rest, Command
<1>4. CASE \E id \in Id : Close(id)
  <2>1. PICK id \in Id : Close(id)
    BY <1>4
  <2>2. dismissed' = dismissed \cup {id} /\ acted' = TRUE /\ UNCHANGED <<autoDone, importing>> /\ Command
    BY <2>1 DEF Close
  <2>. QED  BY <1>1, <1>3, <2>2 DEF Rest
<1>5. CASE (\E id \in Id : Select(id)) \/ GoHome
  <2>1. dismissed' = dismissed /\ acted' = TRUE /\ autoDone' = TRUE /\ importing' = importing /\ Command
    BY <1>5 DEF Select, SelectAndActivate, GoHome
  <2>. QED  BY <1>1, <1>3, <2>1 DEF Rest
<1>6. CASE (\E id \in Id : Reload(id)) \/ ImportLog
  <2>1. /\ dismissed' = dismissed /\ acted' = TRUE /\ autoDone' = autoDone
        /\ importing' \in {importing, importing + 1} /\ Command
    BY <1>6 DEF Reload, ImportLog
  <2>. QED  BY <1>1, <1>3, <2>1 DEF Rest
<1>7. CASE FileIsRead
  <2>1. budget' = budget /\ importing > 0 /\ importing' = importing - 1
    BY <1>7 DEF FileIsRead
  <2>2. dismissed' \subseteq dismissed /\ acted' \in {acted, TRUE} /\ autoDone' \in {autoDone, TRUE}
    BY <1>7 DEF FileIsRead, EnsureImportedWorkspace, SelectAndActivate
  <2>3. importing' \in Nat /\ importing' + budget'.commands <= MaxCommands
    BY <1>1, <2>1, SessionsAssumption DEF Rest
  <2>. QED  BY <1>1, <2>1, <2>2, <2>3 DEF Rest
<1>8. CASE Dispose \/ UNCHANGED vars
  <2>1. UNCHANGED <<dismissed, autoDone, acted, budget, importing>>
    BY <1>8 DEF Dispose, vars
  <2>. QED  BY <1>1, <2>1 DEF Rest
<1>. QED  BY <1>2, <1>4, <1>5, <1>6, <1>7, <1>8 DEF Next

LEMMA NextStrip == Strip /\ [Next]_vars => Strip'
BY NextInv, TabsStep, UseStep, RestStep DEF Strip

\* The tab strip shows every session exactly once, the selected tab is one of
\* them and activated, also after it took over from a closed one, and imports
\* go to a tab that is there.
THEOREM TabStripIsWhole == Spec => []StripInv
BY InitStrip, NextStrip, StripFollows, PTL DEF Spec

\* A change of the list takes nobody off a tab: it moves the selection only
\* away from Home, to the one device that is connected.
THEOREM SelectionStays == Spec => SelectionIsTheUsers
<1>. DEFINE Moved == known' # known /\ selected' # selected
                       => selected = Home /\ connected' = {selected'} /\ ~autoDone
<1>1. Strip /\ [Next]_vars => [Moved]_vars
  <2>. SUFFICES ASSUME Strip, [Next]_vars PROVE Moved
    OBVIOUS
  <2>1. CASE Notified
    <3>1. CASE UNCHANGED selected
      BY <3>1
    <3>2. CASE selected' # selected
      <4>1. PICK only \in connected' : selected' = only
        BY <2>1, <3>2, NotifiedView DEF MaybeAutoSelect
      <4>2. ~autoDone /\ selected = Home /\ Cardinality(connected') = 1
        BY <2>1, <3>2, NotifiedView DEF MaybeAutoSelect
      <4>3. IsFiniteSet(connected')
        <5>1. sessions' \subseteq Id /\ connected' \subseteq sessions'
          BY NextInv DEF Strip, Inv
        <5>2. IsFiniteSet(Id)
          BY SessionsAssumption, FS_AddElement DEF Id
        <5>. QED  BY <5>1, <5>2, FS_Subset
      <4>4. PICK x : connected' = {x}
        BY <4>2, <4>3, FS_Singleton
      <4>. QED  BY <4>1, <4>2, <4>4
    <3>. QED  BY <3>1, <3>2
  <2>2. CASE \E id \in Id : Select(id) \/ Close(id) \/ Reload(id)
    BY <2>2 DEF Select, Close, Reload, Command
  <2>3. CASE GoHome \/ ImportLog \/ FileIsRead \/ Dispose \/ UNCHANGED vars
    BY <2>3 DEF GoHome, ImportLog, FileIsRead, Dispose, Command, vars
  <2>. QED  BY <2>1, <2>2, <2>3 DEF Next
<1>. QED  BY InitStrip, NextStrip, <1>1, PTL DEF Spec, SelectionIsTheUsers
================================================================================
