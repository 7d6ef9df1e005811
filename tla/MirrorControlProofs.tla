------------------------- MODULE MirrorControlProofs -------------------------
(***************************************************************************)
(* What a screen mirror keeps however its starts and stops overlap, for    *)
(* any number of mirrors, calls and automatic restarts.                    *)
(*                                                                         *)
(* The invariant is one of a world: the controller, the mirrors and the    *)
(* calls, which a step takes from one to the next as a whole.  It has four *)
(* parts: how the fields of calls, mirrors and controller belong together  *)
(* (Base), what the code keeps of its promises (Told), who answers for     *)
(* each mirror (Owned), and that mirrors are left for the calls that will  *)
(* need one (Room).                                                        *)
(***************************************************************************)
EXTENDS MirrorControl, FiniteSetTheorems, TLAPS

Stops == {"clearing", "stopping", "givingUp", "discarding", "failing"}

Worlds == [ctl : Controller, mirror : [Mirror -> Mirrors], task : [Task -> Tasks]]

OnAndroid(w) == w.ctl.platform = "android"
Says(w)      == w.ctl.state \in {"running", "starting"}

-----------------------------------------------------------------------------
(* What calls are about.                                                   *)

\* A start that nothing keeps from bringing its mirror up.
Starts(w, t) ==
    \/ w.task[t].at = "clearing"
    \/ w.task[t].current
    \/ OnAndroid(w) /\ w.task[t].at = "connecting"

\* A call that reports when its stop returns.
Ends(w, t) == w.task[t].at \in {"stopping", "givingUp"}

Works(w, t) == Starts(w, t) \/ Ends(w, t)

-----------------------------------------------------------------------------
(* How the fields belong together.                                         *)

Sits(w, t) ==
    LET k == w.task[t]
    IN  /\ k.stops # None <=> k.at \in Stops
        /\ k.next # None => k.at \in Stops
        /\ k.stops # None => w.mirror[k.stops].life \in {"stopping", "stopped"}
        /\ k.next # None =>
             /\ w.mirror[k.next].life \in {"live", "exited", "stopping", "stopped"}
             /\ k.next # w.ctl.session
        /\ k.at = "connecting" =>
             /\ k.mirror # None
             /\ w.mirror[k.mirror].life \in {"connecting", "stopping", "stopped"}
        /\ k.current => k.at \in {"probing", "connecting", "failing"} /\ ~OnAndroid(w)
        /\ OnAndroid(w) => k.at \notin {"asking", "answered", "probing", "failing"}
        /\ k.at = "answered" => ~w.ctl.disposed /\ w.ctl.wanted

\* One start of an iPhone counts, and no two calls start the same mirror.
Apart(w, t, u) ==
    /\ ~(w.task[t].current /\ w.task[u].current)
    /\ w.task[t].at = "connecting" /\ w.task[u].at = "connecting" =>
           w.task[t].mirror # w.task[u].mirror

\* An iPhone's pane offers no quality, and nothing restarts it.
HolderSits(w) ==
    /\ w.ctl.session # None => w.mirror[w.ctl.session].life = "live"
    /\ ~OnAndroid(w) =>
         /\ ~w.ctl.quality
         /\ \A m \in Mirror : ~w.mirror[m].quality /\ w.mirror[m].watch # "settling"

Base(w) ==
    /\ w \in Worlds /\ HolderSits(w)
    /\ \A t \in Task : Sits(w, t)
    /\ \A t, u \in Task : t # u => Apart(w, t, u)

-----------------------------------------------------------------------------
(* What the code keeps of its promises.                                    *)

\* A start: it is wanted or was overtaken; and unless it was crossed, no mirror
\* is held yet, it has its device, the state says that it starts, and its
\* mirror has the quality that was picked.
StartTold(w, t) ==
    LET k == w.task[t]
    IN  Starts(w, t) =>
          /\ w.ctl.wanted \/ k.overtaken
          /\ \/ k.crossed
             \/ /\ w.ctl.session = None
                /\ OnAndroid(w) => w.ctl.connected
                /\ k.at # "clearing" => w.ctl.state = "starting"
                /\ OnAndroid(w) /\ k.at = "connecting" =>
                      w.mirror[k.mirror].quality = w.ctl.quality

\* The same of the mirror that is held.
HolderTold(w) ==
    LET m == w.mirror[w.ctl.session]
    IN  w.ctl.session # None =>
          /\ w.ctl.wanted \/ m.overtaken
          /\ \/ m.crossed
             \/ /\ \A t \in Task : ~Works(w, t)
                /\ w.ctl.state = "running"
                /\ OnAndroid(w) => w.ctl.connected
                /\ m.quality = w.ctl.quality

\* What is said to start or run, and is not there, is in the hands of a call.
Answered(w) ==
    Says(w) /\ w.ctl.session = None => \E t \in Task : Works(w, t)

\* A start is alone among those that work, or crossed.
Alone(w) ==
    \A t, u \in Task : t # u /\ Starts(w, t) /\ Works(w, u) => w.task[t].crossed

Told(w) ==
    IF w.ctl.disposed
    THEN w.ctl.session = None /\ \A t \in Task : ~w.task[t].current
    ELSE /\ \A t \in Task : StartTold(w, t)
         /\ Alone(w) /\ HolderTold(w) /\ Answered(w)

-----------------------------------------------------------------------------
(* Who answers for a mirror, and the mirrors that are left.                *)

Runs(w, m) == w.mirror[m].life = "live" /\ ~w.mirror[m].crossed

Owned(w) ==
    \A m \in Mirror :
        Runs(w, m) => \/ w.ctl.session = m
                      \/ \E t \in Task : m \in {w.task[t].stops, w.task[t].next}

Used(w)  == {m \in Mirror : w.mirror[m].life # "none"}
Needs(w) == {t \in Task : w.task[t].at \in {"asking", "answered", "clearing", "probing"}}
Room(w)  == Cardinality(Used(w)) + Cardinality(Needs(w)) <= MaxMirrors

Safe(w) == Base(w) /\ Told(w) /\ Owned(w) /\ Room(w)

Inv == Safe(World)

\* A mirror that comes to be held was wanted, or its start was overtaken.
Heeds == \A m \in Mirror :
             (ctl'.session = m /\ ctl.session # m)
                 => ctl.wanted \/ mirror'[m].overtaken

-----------------------------------------------------------------------------
(* What the pieces of a step do to a world, field by field.                *)

LEMMA Parts ==
    ASSUME NEW w \in Worlds
    PROVE  /\ w = [ctl |-> w.ctl, mirror |-> w.mirror, task |-> w.task]
           /\ w.ctl \in Controller /\ w.mirror \in [Mirror -> Mirrors]
           /\ w.task \in [Task -> Tasks]
           /\ \A m \in Mirror : w.mirror[m] \in Mirrors
           /\ \A t \in Task : w.task[t] \in Tasks
BY DEF Worlds

\* A world whose parts are of the right sort is one.
LEMMA Whole ==
    ASSUME NEW c \in Controller, NEW mi \in [Mirror -> Mirrors], NEW ta \in [Task -> Tasks]
    PROVE  [ctl |-> c, mirror |-> mi, task |-> ta] \in Worlds
BY DEF Worlds

LEMMA NotNone == None \notin Mirror /\ IdleTask \in Tasks
<1>1. None \notin Mirror
  BY MirrorAssumption DEF Mirror
<1>2. IdleTask \in Tasks
  BY DEF IdleTask, Tasks, Awaits
<1>. QED  BY <1>1, <1>2

LEMMA IdleIs ==
    /\ IdleTask.at = "idle" /\ IdleTask.mirror = None /\ IdleTask.stops = None
    /\ IdleTask.next = None /\ ~IdleTask.current
    /\ ~IdleTask.overtaken /\ ~IdleTask.crossed
BY DEF IdleTask

\* The fields that starting and stopping a mirror leave alone.
Keeps(c, d) ==
    /\ d.platform = c.platform /\ d.quality = c.quality
    /\ d.connected = c.connected /\ d.disposed = c.disposed /\ d.wanted = c.wanted

\* A call that stands where it stood, with what is known of it.
Stands(k, l) == l.at = k.at /\ l.mirror = k.mirror /\ l.stops = k.stops /\ l.next = k.next
Marked(k, l) == l.overtaken = k.overtaken /\ l.crossed = k.crossed

\* A call that stands where it stood; it may have been overtaken.
Follows(k, l) ==
    /\ Stands(k, l) /\ (l.current => k.current)
    /\ k.overtaken => l.overtaken
    /\ k.crossed => l.crossed

\* A mirror that was started as it was.
Likes(a, b) == b.quality = a.quality /\ Marked(a, b)

LEMMA FollowsItself ==
    ASSUME NEW k
    PROVE  Follows(k, k)
BY DEF Follows, Stands

\* A world whose task t and mirror m changed.
Changed(w, m, mi, t, ta) == [w EXCEPT !.mirror[m] = mi, !.task[t] = ta]

LEMMA WorldExcept ==
    ASSUME NEW w \in Worlds, NEW m \in Mirror, NEW mi \in Mirrors, NEW t \in Task,
           NEW ta \in Tasks, NEW v, v = Changed(w, m, mi, t, ta)
    PROVE  /\ v \in Worlds /\ v.ctl = w.ctl
           /\ v.mirror[m] = mi /\ \A n \in Mirror \ {m} : v.mirror[n] = w.mirror[n]
           /\ v.task[t] = ta /\ \A u \in Task \ {t} : v.task[u] = w.task[u]
<1>1. v \in Worlds /\ v.ctl = w.ctl /\ v.mirror = [w.mirror EXCEPT ![m] = mi]
      /\ v.task = [w.task EXCEPT ![t] = ta]
  BY DEF Worlds, Changed
<1>. QED  BY <1>1, Parts

WithMirror(w, m, mi) == [w EXCEPT !.mirror[m] = mi]
WithTask(w, t, k)    == [w EXCEPT !.task[t] = k]

LEMMA MirrorExcept ==
    ASSUME NEW w \in Worlds, NEW m \in Mirror, NEW mi \in Mirrors,
           NEW v, v = WithMirror(w, m, mi)
    PROVE  /\ v \in Worlds /\ v.ctl = w.ctl /\ v.task = w.task
           /\ v.mirror[m] = mi /\ \A n \in Mirror \ {m} : v.mirror[n] = w.mirror[n]
<1>1. v \in Worlds /\ v.ctl = w.ctl /\ v.mirror = [w.mirror EXCEPT ![m] = mi]
      /\ v.task = w.task
  BY DEF Worlds, WithMirror
<1>. QED  BY <1>1, Parts

LEMMA TaskExcept ==
    ASSUME NEW w \in Worlds, NEW t \in Task, NEW k \in Tasks,
           NEW v, v = WithTask(w, t, k)
    PROVE  /\ v \in Worlds /\ v.ctl = w.ctl /\ v.mirror = w.mirror
           /\ v.task[t] = k /\ \A u \in Task \ {t} : v.task[u] = w.task[u]
<1>1. v \in Worlds /\ v.ctl = w.ctl /\ v.task = [w.task EXCEPT ![t] = k]
      /\ v.mirror = w.mirror
  BY DEF Worlds, WithTask
<1>. QED  BY <1>1, Parts

Awaiting(k, at, m, next) == [k EXCEPT !.at = at, !.stops = m, !.next = next]

LEMMA TaskAwaits ==
    ASSUME NEW k \in Tasks, NEW at \in Awaits, NEW m \in Mirror,
           NEW next \in Mirror \cup {None},
           NEW r, r = Awaiting(k, at, m, next)
    PROVE  /\ r \in Tasks /\ r.at = at /\ r.stops = m /\ r.next = next
           /\ r.mirror = k.mirror /\ r.current = k.current /\ Marked(k, r)
BY DEF Tasks, Awaiting, Marked

LEMMA MirrorStops ==
    ASSUME NEW k \in Mirrors, NEW r, r = [k EXCEPT !.life = "stopping", !.watch = "off"]
    PROVE  r \in Mirrors /\ r.life = "stopping" /\ r.watch = "off" /\ Likes(k, r)
BY DEF Mirrors, Likes, Marked

\* A call that awaits the stop of m.
LEMMA StopMirrorView ==
    ASSUME NEW w \in Worlds, NEW t \in Task, NEW at \in Awaits, NEW m \in Mirror,
           NEW next \in Mirror \cup {None}, NEW v, v = StopMirror(w, t, at, m, next)
    PROVE  /\ v \in Worlds /\ v.ctl = w.ctl
           /\ \A n \in Mirror \ {m} : v.mirror[n] = w.mirror[n]
           /\ v.mirror[m].life = "stopping" /\ v.mirror[m].watch = "off"
           /\ Likes(w.mirror[m], v.mirror[m])
           /\ \A u \in Task \ {t} : v.task[u] = w.task[u]
           /\ v.task[t].at = at /\ v.task[t].stops = m /\ v.task[t].next = next
           /\ v.task[t].mirror = w.task[t].mirror
           /\ v.task[t].current = w.task[t].current /\ Marked(w.task[t], v.task[t])
<1>. DEFINE mi == [w.mirror[m] EXCEPT !.life = "stopping", !.watch = "off"]
            ta == Awaiting(w.task[t], at, m, next)
<1>1. /\ mi \in Mirrors /\ mi.life = "stopping" /\ mi.watch = "off"
      /\ Likes(w.mirror[m], mi)
  BY Parts, MirrorStops
<1>3. v = Changed(w, m, mi, t, ta)
  BY DEF StopMirror, Changed, Awaiting
<1>. HIDE DEF mi
<1>2. /\ ta \in Tasks /\ ta.at = at /\ ta.stops = m /\ ta.next = next
      /\ ta.mirror = w.task[t].mirror /\ ta.current = w.task[t].current
      /\ Marked(w.task[t], ta)
  <2>1. w.task[t] \in Tasks
    BY Parts
  <2>. QED  BY <2>1, TaskAwaits
<1>. HIDE DEF ta
<1>4. /\ v \in Worlds /\ v.ctl = w.ctl
      /\ v.mirror[m] = mi /\ \A n \in Mirror \ {m} : v.mirror[n] = w.mirror[n]
      /\ v.task[t] = ta /\ \A u \in Task \ {t} : v.task[u] = w.task[u]
  BY <1>1, <1>2, <1>3, WorldExcept
<1>. QED  BY <1>1, <1>2, <1>4

LEMMA ReportView ==
    ASSUME NEW w \in Worlds, NEW s \in {"stopped", "starting", "running", "error"},
           NEW v, v = Report(w, s)
    PROVE  /\ v \in Worlds /\ v.mirror = w.mirror /\ v.task = w.task /\ Keeps(w.ctl, v.ctl)
           /\ v.ctl.session = w.ctl.session
           /\ v.ctl.state = IF w.ctl.disposed THEN w.ctl.state ELSE s
<1>1. CASE w.ctl.disposed
  BY <1>1 DEF Report, Keeps
<1>2. CASE ~w.ctl.disposed
  BY <1>2 DEF Report, Keeps, Worlds, Controller
<1>. QED  BY <1>1, <1>2

LEMMA ReturnView ==
    ASSUME NEW w \in Worlds, NEW t \in Task, NEW v, v = Return(w, t)
    PROVE  /\ v \in Worlds /\ v.ctl = w.ctl /\ v.mirror = w.mirror /\ v.task[t] = IdleTask
           /\ \A u \in Task \ {t} : v.task[u] = w.task[u]
<1>1. v = WithTask(w, t, IdleTask)
  BY DEF Return, WithTask
<1>. QED  BY <1>1, NotNone, TaskExcept

LEMMA OvertakeView ==
    ASSUME NEW w \in Worlds, NEW v, v = Overtake(w)
    PROVE  /\ v \in Worlds /\ v.ctl = w.ctl /\ v.mirror = w.mirror
           /\ \A u \in Task : /\ Stands(w.task[u], v.task[u]) /\ ~v.task[u].current
                              /\ Marked(w.task[u], v.task[u])
                              /\ Follows(w.task[u], v.task[u])
<1>. DEFINE ta == [u \in Task |-> [w.task[u] EXCEPT !.current = FALSE]]
<1>1. ASSUME NEW u \in Task
      PROVE  /\ ta[u] \in Tasks /\ Stands(w.task[u], ta[u]) /\ ~ta[u].current
             /\ Marked(w.task[u], ta[u]) /\ Follows(w.task[u], ta[u])
  BY Parts DEF Tasks, Stands, Marked, Follows
<1>2. ta \in [Task -> Tasks] /\ v = [w EXCEPT !.task = ta]
  BY <1>1 DEF Overtake
<1>. HIDE DEF ta
<1>3. v \in Worlds /\ v.ctl = w.ctl /\ v.mirror = w.mirror /\ v.task = ta
  BY <1>2 DEF Worlds
<1>. QED  BY <1>1, <1>3

\* What a call that comes in marks.
LEMMA CrossView ==
    ASSUME NEW w \in Worlds, NEW t \in Task, OnAndroid(w) <=> Android,
           NEW v, v = Cross(w, t)
    PROVE  /\ v \in Worlds /\ v.ctl = w.ctl /\ v.mirror = w.mirror
           /\ \A u \in Task \ {t} :
                /\ Follows(w.task[u], v.task[u])
                /\ v.task[u].current = w.task[u].current
                /\ ~w.ctl.disposed /\ w.task[u].at \in Unguarded =>
                      v.task[u].overtaken /\ v.task[u].crossed /\ v.task[t].crossed
           /\ Stands(w.task[t], v.task[t]) /\ v.task[t].current = w.task[t].current
           /\ v.task[t].overtaken = w.task[t].overtaken
<1>. DEFINE open == {u \in Task \ {t} : w.task[u].at \in Unguarded}
            Mark(u) == [w.task[u] EXCEPT !.overtaken = @ \/ u \in open,
                                         !.crossed = @ \/ u \in open \cup {t}]
            ta == [u \in Task |-> Mark(u)]
<1>1. CASE w.ctl.disposed \/ open = {}
  <2>1. v = w
    BY <1>1 DEF Cross
  <2>. QED  BY <1>1, <2>1, FollowsItself DEF Stands
<1>2. CASE ~(w.ctl.disposed \/ open = {})
  <2>1. v = [w EXCEPT !.task = ta]
    BY <1>2 DEF Cross
  <2>2. ASSUME NEW u \in Task
        PROVE  /\ ta[u] \in Tasks /\ Stands(w.task[u], ta[u])
               /\ ta[u].current = w.task[u].current
               /\ ta[u].overtaken = (w.task[u].overtaken \/ u \in open)
               /\ ta[u].crossed = (w.task[u].crossed \/ u \in open \cup {t})
    <3>1. w.task[u] \in Tasks
      BY Parts
    <3>. HIDE DEF open
    <3>2. ta[u] = Mark(u)
      OBVIOUS
    <3>. QED  BY <3>1, <3>2 DEF Tasks, Stands
  <2>4. ASSUME NEW u \in Task \ {t} PROVE Follows(w.task[u], ta[u])
    <3>. HIDE DEF open, ta
    <3>. QED  BY <2>2 DEF Follows
  <2>5. ta \in [Task -> Tasks]
    BY <2>2
  <2>6. \A u \in Task \ {t} : w.task[u].at \in Unguarded => u \in open
    OBVIOUS
  <2>. HIDE DEF open, ta
  <2>7. v \in Worlds /\ v.ctl = w.ctl /\ v.mirror = w.mirror /\ v.task = ta
    BY <2>1, <2>5 DEF Worlds
  <2>8. v.task[t].overtaken = w.task[t].overtaken
    <3>1. t \notin open
      BY DEF open
    <3>2. w.task[t].overtaken \in BOOLEAN
      BY Parts DEF Tasks
    <3>. QED  BY <2>2, <2>7, <3>1, <3>2
  <2>. QED  BY <2>2, <2>4, <2>6, <2>7, <2>8
<1>. QED  BY <1>1, <1>2

\* stop forgets what it is about to stop.
LEMMA ForgettingView ==
    ASSUME NEW w \in Worlds, NEW v, v = Forgetting(w)
    PROVE  /\ v \in Worlds /\ v.mirror = w.mirror /\ v.task = w.task /\ Keeps(w.ctl, v.ctl)
           /\ v.ctl.session = None /\ v.ctl.state = w.ctl.state
<1>. DEFINE c == w.ctl
            d == [c EXCEPT !.session = None, !.iosStarting = None]
<1>1. c \in Controller /\ d = [c EXCEPT !.session = None, !.iosStarting = None]
      /\ v = [w EXCEPT !.ctl = d]
  BY Parts DEF Forgetting
<1>2. /\ d \in Controller /\ Keeps(c, d) /\ d.state = c.state /\ d.session = None
  BY <1>1 DEF Controller, Keeps
<1>. HIDE DEF d
<1>3. v \in Worlds /\ v.mirror = w.mirror /\ v.task = w.task /\ v.ctl = d
  BY <1>1, <1>2 DEF Worlds
<1>. QED  BY <1>2, <1>3

At(w, t, at) == [w EXCEPT !.task[t].at = at]

LEMMA AtView ==
    ASSUME NEW w \in Worlds, NEW t \in Task, NEW at \in Awaits, NEW v, v = At(w, t, at)
    PROVE  /\ v \in Worlds /\ v.ctl = w.ctl /\ v.mirror = w.mirror
           /\ v.task[t].at = at /\ v.task[t].mirror = w.task[t].mirror
           /\ v.task[t].stops = w.task[t].stops /\ v.task[t].next = w.task[t].next
           /\ v.task[t].current = w.task[t].current /\ Marked(w.task[t], v.task[t])
           /\ \A u \in Task \ {t} : v.task[u] = w.task[u]
<1>1. w.task[t] \in Tasks
  BY Parts
<1>. DEFINE k == [w.task[t] EXCEPT !.at = at]
<1>2. /\ k \in Tasks /\ k.at = at /\ k.mirror = w.task[t].mirror
      /\ k.stops = w.task[t].stops /\ k.next = w.task[t].next
      /\ k.current = w.task[t].current /\ Marked(w.task[t], k)
  BY <1>1 DEF Tasks, Marked
<1>3. v = WithTask(w, t, k)
  BY DEF At, WithTask
<1>. HIDE DEF k
<1>. QED  BY <1>2, <1>3, TaskExcept


-----------------------------------------------------------------------------
(* Room for mirrors.                                                       *)

LEMMA Counting ==
    ASSUME NEW w \in Worlds
    PROVE  /\ IsFiniteSet(Used(w)) /\ Cardinality(Used(w)) \in Nat
           /\ IsFiniteSet(Needs(w)) /\ Cardinality(Needs(w)) \in Nat
           /\ IsFiniteSet(Mirror) /\ Cardinality(Mirror) = MaxMirrors
<1>1. MaxMirrors \in Nat /\ MaxTasks \in Nat /\ MaxMirrors >= 1 /\ MaxTasks >= 1
  BY MirrorAssumption
<1>2. /\ IsFiniteSet(Mirror) /\ Cardinality(Mirror) = MaxMirrors
      /\ IsFiniteSet(Task)
  BY <1>1, FS_Interval DEF Mirror, Task
<1>3. Used(w) \subseteq Mirror /\ Needs(w) \subseteq Task
  BY DEF Used, Needs
<1>. QED  BY <1>2, <1>3, FS_Subset, FS_CardinalityType

\* There is a mirror to create as long as not all are used.
LEMMA FreshIs ==
    ASSUME NEW w \in Worlds, Cardinality(Used(w)) < MaxMirrors
    PROVE  Fresh(w) \in Mirror /\ w.mirror[Fresh(w)].life = "none"
<1>1. Used(w) # Mirror
  BY Counting, MirrorAssumption
<1>2. \E m \in Mirror : w.mirror[m].life = "none"
  BY <1>1 DEF Used
<1>. QED  BY <1>2 DEF Fresh

\* A mirror for t, besides those the others need.
Spare(w, t) == Cardinality(Used(w)) + Cardinality(Needs(w) \ {t}) < MaxMirrors

LEMMA RoomStays ==
    ASSUME NEW w \in Worlds, NEW v \in Worlds, Room(w),
           Used(v) \subseteq Used(w), Needs(v) \subseteq Needs(w)
    PROVE  Room(v)
<1>1. Cardinality(Used(v)) <= Cardinality(Used(w)) /\ Cardinality(Needs(v)) <= Cardinality(Needs(w))
  BY Counting, FS_Subset
<1>. QED  BY <1>1, Counting, MirrorAssumption DEF Room

LEMMA SpareStays ==
    ASSUME NEW w \in Worlds, NEW v \in Worlds, NEW t, Spare(w, t),
           Used(v) \subseteq Used(w), Needs(v) \ {t} \subseteq Needs(w)
    PROVE  Spare(v, t)
<1>1. Needs(v) \ {t} \subseteq Needs(w) \ {t}
  OBVIOUS
<1>2. IsFiniteSet(Needs(w) \ {t})
  BY Counting, FS_Subset
<1>3. /\ Cardinality(Used(v)) <= Cardinality(Used(w))
      /\ Cardinality(Needs(v) \ {t}) <= Cardinality(Needs(w) \ {t})
      /\ Cardinality(Needs(v) \ {t}) \in Nat /\ Cardinality(Needs(w) \ {t}) \in Nat
  BY <1>1, <1>2, Counting, FS_Subset, FS_CardinalityType
<1>. QED  BY <1>3, Counting, MirrorAssumption DEF Spare

\* What a call that needs a mirror has set aside for it.
LEMMA NeedIsSpare ==
    ASSUME NEW w \in Worlds, NEW t \in Needs(w), Room(w)
    PROVE  Spare(w, t)
<1>1. Cardinality(Needs(w) \ {t}) = Cardinality(Needs(w)) - 1
  BY Counting, FS_RemoveElement
<1>. QED  BY <1>1, Counting, MirrorAssumption DEF Room, Spare

\* The mirror set aside is created, or stays aside.
LEMMA SpareIsRoom ==
    ASSUME NEW w \in Worlds, NEW v \in Worlds, NEW t, NEW m, Spare(w, t),
           \/ Used(v) \subseteq Used(w) \cup {m} /\ Needs(v) \subseteq Needs(w) \ {t}
           \/ Used(v) \subseteq Used(w) /\ Needs(v) \subseteq (Needs(w) \ {t}) \cup {t}
    PROVE  Room(v)
<1>1. /\ IsFiniteSet(Needs(w) \ {t}) /\ Cardinality(Needs(w) \ {t}) \in Nat
      /\ IsFiniteSet(Used(w) \cup {m}) /\ IsFiniteSet((Needs(w) \ {t}) \cup {t})
  BY Counting, FS_Subset, FS_CardinalityType, FS_AddElement
<1>2. /\ Cardinality(Used(w) \cup {m}) <= Cardinality(Used(w)) + 1
      /\ Cardinality((Needs(w) \ {t}) \cup {t}) <= Cardinality(Needs(w) \ {t}) + 1
      /\ Cardinality(Used(w) \cup {m}) \in Nat
      /\ Cardinality((Needs(w) \ {t}) \cup {t}) \in Nat
  <2>1. Cardinality(Used(w) \cup {m}) \in {Cardinality(Used(w)), Cardinality(Used(w)) + 1}
    BY Counting, FS_AddElement
  <2>2. Cardinality((Needs(w) \ {t}) \cup {t}) = Cardinality(Needs(w) \ {t}) + 1
    BY <1>1, FS_AddElement
  <2>. QED  BY <1>1, <2>1, <2>2, Counting
<1>3. CASE Used(v) \subseteq Used(w) \cup {m} /\ Needs(v) \subseteq Needs(w) \ {t}
  <2>1. /\ Cardinality(Used(v)) <= Cardinality(Used(w) \cup {m})
        /\ Cardinality(Needs(v)) <= Cardinality(Needs(w) \ {t})
    BY <1>1, <1>3, FS_Subset
  <2>. QED  BY <1>1, <1>2, <2>1, Counting, MirrorAssumption DEF Spare, Room
<1>4. CASE Used(v) \subseteq Used(w) /\ Needs(v) \subseteq (Needs(w) \ {t}) \cup {t}
  <2>1. /\ Cardinality(Used(v)) <= Cardinality(Used(w))
        /\ Cardinality(Needs(v)) <= Cardinality((Needs(w) \ {t}) \cup {t})
    BY <1>1, <1>4, Counting, FS_Subset
  <2>. QED  BY <1>1, <1>2, <2>1, Counting, MirrorAssumption DEF Spare, Room
<1>. QED  BY <1>3, <1>4

-----------------------------------------------------------------------------
(* A step that changes one call and one mirror.                            *)

\* What the fields of others still fit: a mirror goes down, or comes up for the
\* call that started it.
Ages(a, b) ==
    /\ a \in {"stopping", "stopped"} => b \in {"stopping", "stopped"}
    /\ a \in {"live", "exited"} => b \in {"live", "exited", "stopping", "stopped"}
    /\ a = "connecting" => b \in {"connecting", "stopping", "stopped"}

LEMMA AgesNot ==
    ASSUME NEW a
    PROVE  Ages(a, a)
BY DEF Ages

LEMMA OtherSits ==
    ASSUME NEW w \in Worlds, NEW v \in Worlds, NEW u \in Task, Sits(w, u),
           Follows(w.task[u], v.task[u]), v.ctl.platform = w.ctl.platform,
           v.ctl.session # None =>
               v.ctl.session = w.ctl.session \/ w.mirror[v.ctl.session].life = "connecting",
           \A n \in Mirror :
               \/ Ages(w.mirror[n].life, v.mirror[n].life)
               \/ /\ w.mirror[n].life = "connecting"
                  /\ ~(w.task[u].at = "connecting" /\ w.task[u].mirror = n)
               \/ w.mirror[n].life = "none",
           w.task[u].at = "answered" => ~v.ctl.disposed /\ v.ctl.wanted
    PROVE  Sits(v, u)
<1>. DEFINE k == w.task[u]
            l == v.task[u]
<1>1. /\ l.at = k.at /\ l.mirror = k.mirror /\ l.stops = k.stops /\ l.next = k.next
      /\ l.current => k.current
  BY DEF Follows, Stands
<1>2. k \in Tasks /\ k.stops \in Mirror \cup {None} /\ k.next \in Mirror \cup {None}
      /\ k.mirror \in Mirror \cup {None}
  BY Parts DEF Tasks
<1>. HIDE DEF k, l
<1>3. l.stops # None => v.mirror[l.stops].life \in {"stopping", "stopped"}
  BY <1>1, <1>2 DEF Sits, Ages, k
<1>4. l.next # None =>
        /\ v.mirror[l.next].life \in {"live", "exited", "stopping", "stopped"}
        /\ l.next # v.ctl.session
  BY <1>1, <1>2 DEF Sits, Ages, k
<1>5. l.at = "connecting" =>
        /\ l.mirror # None
        /\ v.mirror[l.mirror].life \in {"connecting", "stopping", "stopped"}
  BY <1>1, <1>2 DEF Sits, Ages, k
<1>6. OnAndroid(v) <=> OnAndroid(w)
  BY DEF OnAndroid
<1>7. /\ l.stops # None <=> l.at \in Stops
      /\ l.next # None => l.at \in Stops
      /\ l.current => l.at \in {"probing", "connecting", "failing"} /\ ~OnAndroid(v)
      /\ OnAndroid(v) => l.at \notin {"asking", "answered", "probing", "failing"}
      /\ l.at = "answered" => ~v.ctl.disposed /\ v.ctl.wanted
  BY <1>1, <1>6 DEF Sits, k
<1>. QED  BY <1>3, <1>4, <1>5, <1>7 DEF Sits, l

LEMMA BaseMoves ==
    ASSUME NEW w \in Worlds, NEW v \in Worlds, NEW t \in Task,
           \A u \in Task \ {t} : Sits(w, u),
           \A a, b \in Task : a # b => Apart(w, a, b),
           v.ctl.platform = w.ctl.platform,
           v.ctl.session # None =>
               v.ctl.session = w.ctl.session \/ w.mirror[v.ctl.session].life = "connecting",
           \A u \in Task \ {t} :
               /\ Follows(w.task[u], v.task[u])
               /\ w.task[u].at = "answered" => ~v.ctl.disposed /\ v.ctl.wanted,
           \A n \in Mirror :
               \/ Ages(w.mirror[n].life, v.mirror[n].life)
               \/ /\ w.mirror[n].life = "connecting"
                  /\ w.task[t].at = "connecting" /\ w.task[t].mirror = n
               \/ w.mirror[n].life = "none",
           HolderSits(v), Sits(v, t), \A u \in Task \ {t} : Apart(v, t, u)
    PROVE  Base(v)
<1>1. ASSUME NEW u \in Task \ {t} PROVE Sits(v, u)
  <2>1. ASSUME NEW n \in Mirror, w.task[t].at = "connecting", w.task[t].mirror = n
        PROVE  ~(w.task[u].at = "connecting" /\ w.task[u].mirror = n)
    <3>1. Apart(w, t, u)
      OBVIOUS
    <3>. QED  BY <2>1, <3>1 DEF Apart
  <2>2. \A n \in Mirror :
            \/ Ages(w.mirror[n].life, v.mirror[n].life)
            \/ /\ w.mirror[n].life = "connecting"
               /\ ~(w.task[u].at = "connecting" /\ w.task[u].mirror = n)
            \/ w.mirror[n].life = "none"
    BY <2>1
  <2>3. Sits(w, u) /\ Follows(w.task[u], v.task[u])
        /\ (w.task[u].at = "answered" => ~v.ctl.disposed /\ v.ctl.wanted)
    OBVIOUS
  <2>. QED  BY <2>2, <2>3, OtherSits
<1>2. ASSUME NEW a \in Task, NEW b \in Task, a # b PROVE Apart(v, a, b)
  <2>1. CASE a = t
    BY <1>2, <2>1
  <2>2. CASE b = t
    <3>1. Apart(v, t, a)
      BY <1>2, <2>2
    <3>. QED  BY <2>2, <3>1 DEF Apart
  <2>3. CASE a # t /\ b # t
    <3>1. Apart(w, a, b) /\ Follows(w.task[a], v.task[a]) /\ Follows(w.task[b], v.task[b])
      BY <1>2, <2>3
    <3>. QED  BY <3>1 DEF Apart, Follows, Stands
  <2>. QED  BY <2>1, <2>2, <2>3
<1>. QED  BY <1>1, <1>2 DEF Base

\* Every mirror that ran for nobody but t, or had t to stop it, is seen to.
LEMMA OwnedMoves ==
    ASSUME NEW w, NEW v, NEW t \in Task,
           \A n \in Mirror : Runs(w, n) =>
               \/ w.ctl.session = n
               \/ \E u \in Task : n \in {w.task[u].stops, w.task[u].next},
           \A u \in Task \ {t} : Stands(w.task[u], v.task[u]),
           \A n \in Mirror : Runs(v, n) =>
               \/ v.ctl.session = n \/ n \in {v.task[t].stops, v.task[t].next}
               \/ /\ Runs(w, n) /\ w.ctl.session # n
                  /\ n \notin {w.task[t].stops, w.task[t].next}
    PROVE  Owned(v)
<1>. SUFFICES ASSUME NEW n \in Mirror, Runs(v, n), v.ctl.session # n,
                     n \notin {v.task[t].stops, v.task[t].next}
              PROVE  \E u \in Task : n \in {v.task[u].stops, v.task[u].next}
  BY DEF Owned
<1>1. PICK u \in Task : n \in {w.task[u].stops, w.task[u].next}
  OBVIOUS
<1>2. u # t
  BY <1>1
<1>. QED  BY <1>1, <1>2 DEF Stands

-----------------------------------------------------------------------------
(* The starting of a mirror.                                               *)

Starter(k, m) == [[IdleTask EXCEPT !.overtaken = k.overtaken, !.crossed = k.crossed]
                     EXCEPT !.at = "connecting", !.mirror = m]
Prober(k) == [[IdleTask EXCEPT !.overtaken = k.overtaken, !.crossed = k.crossed]
                 EXCEPT !.at = "probing", !.current = TRUE]

LEMMA StarterIs ==
    ASSUME NEW w \in Tasks, NEW m \in Mirror, NEW k, k = Starter(w, m)
    PROVE  /\ k \in Tasks /\ k.at = "connecting" /\ k.mirror = m
           /\ k.stops = None /\ k.next = None /\ ~k.current /\ Marked(w, k)
BY DEF Starter, IdleTask, Tasks, Awaits, Marked

LEMMA ProberIs ==
    ASSUME NEW w \in Tasks, NEW k, k = Prober(w)
    PROVE  /\ k \in Tasks /\ k.at = "probing" /\ k.mirror = None
           /\ k.stops = None /\ k.next = None /\ k.current /\ Marked(w, k)
BY DEF Prober, IdleTask, Tasks, Awaits, Marked

SaysStarting(w) == [w EXCEPT !.ctl.state = "starting"]

LEMMA StartingView ==
    ASSUME NEW w \in Worlds, NEW v, v = SaysStarting(w)
    PROVE  /\ v \in Worlds /\ v.mirror = w.mirror /\ v.task = w.task /\ Keeps(w.ctl, v.ctl)
           /\ v.ctl.session = w.ctl.session /\ v.ctl.state = "starting"
BY DEF Worlds, Controller, Keeps, SaysStarting

Creates(a, q) == [a EXCEPT !.life = "connecting", !.quality = q]

LEMMA CreatesView ==
    ASSUME NEW a \in Mirrors, NEW q \in BOOLEAN, NEW b, b = Creates(a, q)
    PROVE  b \in Mirrors /\ b.life = "connecting" /\ b.quality = q /\ b.watch = a.watch
BY DEF Creates, Mirrors

LEMMA StartingOnAndroid ==
    ASSUME NEW w \in Worlds, NEW t \in Task, Android, Cardinality(Used(w)) < MaxMirrors,
           NEW v, v = EnterStarting(w, t)
    PROVE  /\ v \in Worlds /\ Keeps(w.ctl, v.ctl) /\ v.ctl.state = "starting"
           /\ v.ctl.session = w.ctl.session
           /\ \A u \in Task \ {t} : v.task[u] = w.task[u]
           /\ \E m \in Mirror :
                /\ w.mirror[m].life = "none"
                /\ v.mirror[m].life = "connecting" /\ v.mirror[m].watch = w.mirror[m].watch
                /\ v.mirror[m].quality = w.ctl.quality
                /\ \A n \in Mirror \ {m} : v.mirror[n] = w.mirror[n]
                /\ v.task[t].at = "connecting" /\ v.task[t].mirror = m /\ v.task[t].stops = None
                /\ v.task[t].next = None /\ ~v.task[t].current /\ Marked(w.task[t], v.task[t])
<1>. DEFINE x == SaysStarting(w)
            m == Fresh(x)
            mi == Creates(x.mirror[m], x.ctl.quality)
            k == Starter(w.task[t], m)
<1>1. /\ x \in Worlds /\ x.mirror = w.mirror /\ x.task = w.task /\ Keeps(w.ctl, x.ctl)
      /\ x.ctl.session = w.ctl.session /\ x.ctl.state = "starting"
  BY StartingView
<1>2. v = Changed(x, m, mi, t, k)
  BY DEF EnterStarting, Changed, Starter, SaysStarting, Creates
<1>. HIDE DEF x
<1>3. m \in Mirror /\ x.mirror[m].life = "none"
  <2>1. Used(x) = Used(w)
    BY <1>1 DEF Used
  <2>. QED  BY <1>1, <2>1, FreshIs
<1>. HIDE DEF m
<1>4. /\ mi \in Mirrors /\ mi.quality = w.ctl.quality /\ mi.life = "connecting"
      /\ mi.watch = x.mirror[m].watch
  <2>1. x.mirror[m] \in Mirrors /\ x.ctl.quality \in BOOLEAN /\ x.ctl.quality = w.ctl.quality
    BY <1>1, <1>3, Parts DEF Controller, Keeps
  <2>. QED  BY <2>1, CreatesView
<1>. HIDE DEF mi
<1>5. /\ k \in Tasks /\ k.at = "connecting" /\ k.mirror = m
      /\ k.stops = None /\ k.next = None /\ ~k.current /\ Marked(w.task[t], k)
  BY <1>3, StarterIs, Parts
<1>. HIDE DEF k
<1>6. /\ v \in Worlds /\ v.ctl = x.ctl
      /\ v.mirror[m] = mi /\ \A n \in Mirror \ {m} : v.mirror[n] = x.mirror[n]
      /\ v.task[t] = k /\ \A u \in Task \ {t} : v.task[u] = x.task[u]
  BY <1>1, <1>2, <1>3, <1>4, <1>5, WorldExcept
<1>7. /\ w.mirror[m].life = "none"
      /\ v.mirror[m].life = "connecting" /\ v.mirror[m].watch = w.mirror[m].watch
      /\ v.mirror[m].quality = w.ctl.quality
      /\ \A n \in Mirror \ {m} : v.mirror[n] = w.mirror[n]
      /\ v.task[t].at = "connecting" /\ v.task[t].mirror = m /\ v.task[t].stops = None
      /\ v.task[t].next = None /\ ~v.task[t].current /\ Marked(w.task[t], v.task[t])
  BY <1>1, <1>3, <1>4, <1>5, <1>6
<1>. QED  BY <1>1, <1>3, <1>6, <1>7

LEMMA StartingOnIos ==
    ASSUME NEW w \in Worlds, NEW t \in Task, ~Android, NEW v, v = EnterStarting(w, t)
    PROVE  /\ v \in Worlds /\ Keeps(w.ctl, v.ctl) /\ v.ctl.state = "starting"
           /\ v.ctl.session = w.ctl.session /\ v.mirror = w.mirror
           /\ \A u \in Task \ {t} :
                 /\ Stands(w.task[u], v.task[u]) /\ Follows(w.task[u], v.task[u])
                 /\ Marked(w.task[u], v.task[u]) /\ ~v.task[u].current
           /\ v.task[t].at = "probing" /\ v.task[t].stops = None /\ v.task[t].next = None
           /\ v.task[t].mirror = None /\ v.task[t].current /\ Marked(w.task[t], v.task[t])
<1>. DEFINE x == SaysStarting(w)
            y == Overtake(x)
            k == Prober(w.task[t])
<1>1. /\ x \in Worlds /\ x.mirror = w.mirror /\ x.task = w.task /\ Keeps(w.ctl, x.ctl)
      /\ x.ctl.session = w.ctl.session /\ x.ctl.state = "starting"
  BY StartingView
<1>2. v = WithTask(y, t, k)
  BY DEF EnterStarting, Prober, WithTask, SaysStarting
<1>. HIDE DEF x
<1>3. /\ y \in Worlds /\ y.ctl = x.ctl /\ y.mirror = x.mirror
      /\ \A u \in Task : /\ Stands(x.task[u], y.task[u]) /\ ~y.task[u].current
                         /\ Marked(x.task[u], y.task[u]) /\ Follows(x.task[u], y.task[u])
  BY <1>1, OvertakeView
<1>. HIDE DEF y
<1>4. /\ k \in Tasks /\ k.at = "probing" /\ k.mirror = None
      /\ k.stops = None /\ k.next = None /\ k.current /\ Marked(w.task[t], k)
  BY ProberIs, Parts
<1>. HIDE DEF k
<1>5. /\ v \in Worlds /\ v.ctl = y.ctl /\ v.mirror = y.mirror /\ v.task[t] = k
      /\ \A u \in Task \ {t} : v.task[u] = y.task[u]
  BY <1>2, <1>3, <1>4, TaskExcept
<1>. QED  BY <1>1, <1>3, <1>4, <1>5

-----------------------------------------------------------------------------
(* A call that is over.                                                    *)

\* All is as it should be but for call t, of which the caller knows.
Among(w, t) ==
    /\ w \in Worlds /\ HolderSits(w) /\ Told(w) /\ Room(w)
    /\ \A u \in Task \ {t} : Sits(w, u)
    /\ \A a, b \in Task : a # b => Apart(w, a, b)

\* A mirror that runs is another's to stop, or one of M.
OwnedBut(w, t, M) ==
    \A n \in Mirror :
        Runs(w, n) => \/ w.ctl.session = n
                      \/ n \in M
                      \/ \E u \in Task \ {t} : n \in {w.task[u].stops, w.task[u].next}

\* A mirror that nobody holds may have come down meanwhile.
Rests(a, b) ==
    /\ Likes(a, b) /\ b.watch = a.watch
    /\ \/ b.life = a.life
       \/ a.life \in {"connecting", "stopping", "stopped"} /\ b.life = "stopped"

\* Call t returns: with a report of an end if it worked, without if not.
Quits(w, v, t) ==
    /\ v \in Worlds /\ Keeps(w.ctl, v.ctl) /\ v.ctl.session = w.ctl.session
    /\ \A n \in Mirror : Rests(w.mirror[n], v.mirror[n])
    /\ v.task[t] = IdleTask /\ \A u \in Task \ {t} : v.task[u] = w.task[u]
    /\ \/ w.ctl.disposed
       \/ v.ctl.state = w.ctl.state /\ ~Works(w, t)
       \/ v.ctl.state \in {"stopped", "error"} /\ Works(w, t)

LEMMA QuitTold ==
    ASSUME NEW w, NEW t \in Task, Among(w, t), NEW v, Quits(w, v, t), ~w.ctl.disposed
    PROVE  Told(v)
<1>0. /\ w \in Worlds /\ v \in Worlds /\ None \notin Mirror
      /\ w.ctl.session \in Mirror \cup {None} /\ HolderSits(w)
  BY Parts, NotNone DEF Among, Quits, Controller
<1>1. /\ ~v.ctl.disposed /\ v.ctl.session = w.ctl.session /\ v.ctl.wanted = w.ctl.wanted
      /\ v.ctl.connected = w.ctl.connected /\ v.ctl.quality = w.ctl.quality
      /\ OnAndroid(v) = OnAndroid(w)
      /\ v.task[t] = IdleTask /\ \A u \in Task \ {t} : v.task[u] = w.task[u]
  BY DEF Quits, Keeps, OnAndroid
<1>2. /\ \A u \in Task : StartTold(w, u)
      /\ Alone(w) /\ HolderTold(w) /\ Answered(w)
  BY DEF Among, Told
<1>3. ~Works(v, t)
  BY <1>1, IdleIs DEF Works, Starts, Ends
<1>4. \A u \in Task \ {t} : (Starts(v, u) <=> Starts(w, u)) /\ (Works(v, u) <=> Works(w, u))
  BY <1>1 DEF Works, Starts, Ends
<1>5. \A n \in Mirror : v.mirror[n].quality = w.mirror[n].quality
         /\ v.mirror[n].crossed = w.mirror[n].crossed
         /\ v.mirror[n].overtaken = w.mirror[n].overtaken
  BY DEF Quits, Rests, Likes, Marked
<1>6. ASSUME NEW u \in Task PROVE StartTold(v, u)
  <2>1. CASE u = t
    BY <1>3, <2>1 DEF StartTold, Works
  <2>2. CASE u # t /\ Starts(v, u)
    <3>1. v.task[u] = w.task[u] /\ Starts(w, u) /\ StartTold(w, u)
      BY <1>1, <1>2, <1>4, <2>2
    <3>2. v.ctl.state # w.ctl.state => w.task[u].crossed
      <4>1. v.ctl.state # w.ctl.state => Works(w, t)
        BY DEF Quits
      <4>. QED  BY <1>2, <2>2, <3>1, <4>1 DEF Alone
    <3>3. OnAndroid(w) /\ w.task[u].at = "connecting" =>
              v.mirror[w.task[u].mirror].quality = w.mirror[w.task[u].mirror].quality
      <4>1. Sits(w, u) /\ w.task[u] \in Tasks
        BY <1>0, <2>2, Parts DEF Among
      <4>. QED  BY <1>5, <4>1 DEF Sits, Tasks
    <3>. QED  BY <1>1, <3>1, <3>2, <3>3 DEF StartTold
  <2>. QED  BY <2>1, <2>2 DEF StartTold
<1>7. Alone(v)
  <2>. SUFFICES ASSUME NEW a \in Task, NEW b \in Task, a # b, Starts(v, a), Works(v, b)
                PROVE  v.task[a].crossed
    BY DEF Alone
  <2>1. a # t /\ b # t
    BY <1>3 DEF Works
  <2>. QED  BY <1>1, <1>2, <1>4, <2>1 DEF Alone
<1>8. HolderTold(v)
  <2>. SUFFICES ASSUME v.ctl.session # None PROVE HolderTold(v)
    BY DEF HolderTold
  <2>. DEFINE m == w.ctl.session
  <2>1. /\ m \in Mirror /\ v.ctl.session = m
        /\ w.ctl.wanted \/ w.mirror[m].overtaken
        /\ \/ w.mirror[m].crossed
           \/ /\ \A u \in Task : ~Works(w, u)
              /\ w.ctl.state = "running" /\ (OnAndroid(w) => w.ctl.connected)
              /\ w.mirror[m].quality = w.ctl.quality
    BY <1>0, <1>1, <1>2 DEF HolderTold
  <2>2. ~w.mirror[m].crossed => v.ctl.state = w.ctl.state
    BY <2>1 DEF Quits
  <2>3. ~w.mirror[m].crossed => \A u \in Task : ~Works(v, u)
    BY <1>3, <1>4, <2>1
  <2>4. v.ctl.wanted \/ v.mirror[m].overtaken
    BY <1>1, <1>5, <2>1
  <2>5. \/ v.mirror[m].crossed
        \/ /\ \A u \in Task : ~Works(v, u)
           /\ v.ctl.state = "running" /\ (OnAndroid(v) => v.ctl.connected)
           /\ v.mirror[m].quality = v.ctl.quality
    BY <1>1, <1>5, <2>1, <2>2, <2>3
  <2>. HIDE DEF m
  <2>. QED  BY <2>1, <2>4, <2>5 DEF HolderTold
<1>9. Answered(v)
  <2>. SUFFICES ASSUME Says(v), v.ctl.session = None PROVE \E u \in Task : Works(v, u)
    BY DEF Answered
  <2>1. v.ctl.state = w.ctl.state /\ ~Works(w, t)
    BY DEF Quits, Says
  <2>2. PICK u \in Task : Works(w, u)
    BY <1>1, <1>2, <2>1 DEF Answered, Says
  <2>. QED  BY <1>4, <2>1, <2>2
<1>. QED  BY <1>1, <1>6, <1>7, <1>8, <1>9 DEF Told

LEMMA QuitSafe ==
    ASSUME NEW w, NEW t \in Task, Among(w, t), OwnedBut(w, t, {}), NEW v, Quits(w, v, t)
    PROVE  Safe(v)
<1>0. /\ w \in Worlds /\ v \in Worlds /\ None \notin Mirror
      /\ w.ctl.session \in Mirror \cup {None}
  BY Parts, NotNone DEF Among, Quits, Controller
<1>1. /\ v.ctl.platform = w.ctl.platform /\ v.ctl.session = w.ctl.session
      /\ v.ctl.disposed = w.ctl.disposed /\ v.ctl.wanted = w.ctl.wanted
      /\ v.ctl.quality = w.ctl.quality /\ OnAndroid(v) = OnAndroid(w)
      /\ v.task[t] = IdleTask /\ \A u \in Task \ {t} : v.task[u] = w.task[u]
  BY DEF Quits, Keeps, OnAndroid
<1>2. \A n \in Mirror :
        /\ Ages(w.mirror[n].life, v.mirror[n].life)
        /\ w.mirror[n].life = "live" <=> v.mirror[n].life = "live"
        /\ w.mirror[n].life = "none" <=> v.mirror[n].life = "none"
        /\ Runs(w, n) <=> Runs(v, n)
        /\ v.mirror[n].watch = w.mirror[n].watch
        /\ v.mirror[n].quality = w.mirror[n].quality
  BY DEF Quits, Rests, Likes, Marked, Ages, Runs
<1>3. Base(v)
  <2>1. HolderSits(v)
    BY <1>0, <1>1, <1>2 DEF Among, HolderSits
  <2>2. Sits(v, t)
    BY <1>1, IdleIs DEF Sits, Stops
  <2>3. ASSUME NEW u \in Task \ {t}
        PROVE  /\ Sits(w, u) /\ Follows(w.task[u], v.task[u])
               /\ w.task[u].at = "answered" => ~v.ctl.disposed /\ v.ctl.wanted
               /\ Apart(v, t, u)
    <3>1. Sits(w, u) /\ Follows(w.task[u], v.task[u])
      BY <1>1, FollowsItself DEF Among
    <3>2. Apart(v, t, u)
      BY <1>1, IdleIs DEF Apart
    <3>. QED  BY <1>1, <3>1, <3>2 DEF Sits
  <2>4. \A a, b \in Task : a # b => Apart(w, a, b)
    BY DEF Among
  <2>. QED  BY <1>0, <1>1, <1>2, <2>1, <2>2, <2>3, <2>4, BaseMoves
<1>4. Told(v)
  <2>1. CASE w.ctl.disposed
    BY <1>1, <2>1, IdleIs DEF Told, Among
  <2>2. CASE ~w.ctl.disposed
    BY <2>2, QuitTold
  <2>. QED  BY <2>1, <2>2
<1>5. Owned(v)
  BY <1>1, <1>2 DEF Owned, OwnedBut
<1>6. Room(v)
  <2>1. Used(v) = Used(w) /\ Needs(v) \subseteq Needs(w)
    BY <1>1, <1>2, IdleIs DEF Used, Needs
  <2>. QED  BY <1>0, <2>1, RoomStays DEF Among
<1>. QED  BY <1>3, <1>4, <1>5, <1>6 DEF Safe

-----------------------------------------------------------------------------
(* A start goes on: its mirror is created, or its iPhone asked.            *)

\* What is known of the world after either.
Begins(w, v, t) ==
    /\ v \in Worlds /\ Keeps(w.ctl, v.ctl) /\ v.ctl.session = w.ctl.session
    /\ v.ctl.state = "starting"
    /\ \A u \in Task \ {t} :
          /\ Follows(w.task[u], v.task[u]) /\ Marked(w.task[u], v.task[u])
          /\ OnAndroid(w) => v.task[u] = w.task[u]
          /\ ~OnAndroid(w) => ~v.task[u].current
    /\ v.task[t].stops = None /\ v.task[t].next = None
    /\ Marked(w.task[t], v.task[t])
    /\ v.task[t].at = IF OnAndroid(w) THEN "connecting" ELSE "probing"
    /\ v.task[t].current <=> ~OnAndroid(w)
    /\ \A n \in Mirror :
          \/ v.mirror[n] = w.mirror[n]
          \/ /\ w.mirror[n].life = "none" /\ n = v.task[t].mirror /\ OnAndroid(w)
    /\ OnAndroid(w) =>
          /\ v.task[t].mirror \in Mirror
          /\ w.mirror[v.task[t].mirror].life = "none"
          /\ v.mirror[v.task[t].mirror].life = "connecting"
          /\ v.mirror[v.task[t].mirror].quality = w.ctl.quality

LEMMA BeginTold ==
    ASSUME NEW w, NEW t \in Task, Among(w, t), NEW v, Begins(w, v, t),
           w.task[t].at = "clearing", ~w.ctl.disposed
    PROVE  Told(v)
<1>0. /\ w \in Worlds /\ v \in Worlds /\ None \notin Mirror
      /\ w.ctl.session \in Mirror \cup {None} /\ HolderSits(w)
  BY Parts, NotNone DEF Among, Begins, Controller
<1>1. /\ ~v.ctl.disposed /\ v.ctl.session = w.ctl.session /\ v.ctl.wanted = w.ctl.wanted
      /\ v.ctl.connected = w.ctl.connected /\ v.ctl.quality = w.ctl.quality
      /\ OnAndroid(v) = OnAndroid(w) /\ v.ctl.state = "starting"
  BY DEF Begins, Keeps, OnAndroid
<1>2. /\ \A u \in Task : StartTold(w, u)
      /\ Alone(w) /\ HolderTold(w)
  BY DEF Among, Told
<1>3. Starts(w, t) /\ Works(w, t) /\ Starts(v, t) /\ Works(v, t)
  BY <1>1 DEF Starts, Works, Begins
<1>4. \A u \in Task : (Starts(v, u) => Starts(w, u)) /\ (Works(v, u) => Works(w, u))
  BY <1>1, <1>3 DEF Starts, Works, Ends, Begins, Follows, Stands
<1>5. \A u \in Task : v.task[u].crossed = w.task[u].crossed
                      /\ v.task[u].overtaken = w.task[u].overtaken
  BY DEF Begins, Marked
<1>6. ASSUME NEW u \in Task, Starts(v, u) PROVE StartTold(v, u)
  <2>1. StartTold(w, u) /\ Starts(w, u)
    BY <1>2, <1>4, <1>6
  <2>2. ~w.task[u].crossed => w.ctl.session = None /\ (OnAndroid(w) => w.ctl.connected)
    BY <2>1 DEF StartTold
  <2>3. CASE u = t
    <3>1. OnAndroid(v) => v.mirror[v.task[t].mirror].quality = v.ctl.quality
      BY <1>1 DEF Begins
    <3>. QED  BY <1>1, <1>5, <2>1, <2>2, <2>3, <3>1 DEF StartTold
  <2>4. CASE u # t
    <3>1. w.task[u].crossed
      BY <1>2, <1>3, <2>1, <2>4 DEF Alone
    <3>. QED  BY <1>1, <1>5, <2>1, <3>1 DEF StartTold
  <2>. QED  BY <2>3, <2>4
<1>7. Alone(v)
  BY <1>2, <1>4, <1>5 DEF Alone
<1>8. HolderTold(v)
  <2>. SUFFICES ASSUME v.ctl.session # None PROVE HolderTold(v)
    BY DEF HolderTold
  <2>. DEFINE m == w.ctl.session
  <2>1. /\ m \in Mirror /\ v.ctl.session = m /\ w.mirror[m].life = "live"
        /\ w.ctl.wanted \/ w.mirror[m].overtaken
        /\ w.mirror[m].crossed
    BY <1>0, <1>1, <1>2, <1>3 DEF HolderTold, HolderSits
  <2>2. v.mirror[m] = w.mirror[m]
    BY <2>1 DEF Begins
  <2>. HIDE DEF m
  <2>. QED  BY <1>1, <2>1, <2>2 DEF HolderTold
<1>9. Answered(v)
  BY <1>3 DEF Answered
<1>10. \A u \in Task : StartTold(v, u)
  BY <1>6 DEF StartTold
<1>. QED  BY <1>1, <1>7, <1>8, <1>9, <1>10 DEF Told

LEMMA BeginSafe ==
    ASSUME NEW w, NEW t \in Task, Among(w, t), OwnedBut(w, t, {}), NEW v, Begins(w, v, t),
           w.task[t].at = "clearing", ~w.ctl.disposed
    PROVE  Safe(v)
<1>0. /\ w \in Worlds /\ v \in Worlds /\ None \notin Mirror
      /\ w.ctl.session \in Mirror \cup {None} /\ HolderSits(w)
  BY Parts, NotNone DEF Among, Begins, Controller
<1>1. /\ v.ctl.platform = w.ctl.platform /\ v.ctl.session = w.ctl.session
      /\ v.ctl.disposed = w.ctl.disposed /\ v.ctl.wanted = w.ctl.wanted
      /\ v.ctl.quality = w.ctl.quality /\ OnAndroid(v) = OnAndroid(w)
  BY DEF Begins, Keeps, OnAndroid
<1>2. \A n \in Mirror :
        /\ Ages(w.mirror[n].life, v.mirror[n].life) \/ w.mirror[n].life = "none"
        /\ w.mirror[n].life = "live" => v.mirror[n] = w.mirror[n]
        /\ Runs(v, n) => Runs(w, n)
        /\ ~OnAndroid(w) => v.mirror[n] = w.mirror[n]
  BY AgesNot DEF Begins, Runs
<1>3. Base(v)
  <2>1. HolderSits(v)
    BY <1>0, <1>1, <1>2 DEF HolderSits
  <2>2. Sits(v, t)
    BY <1>0, <1>1 DEF Sits, Stops, Begins
  <2>3. ASSUME NEW u \in Task \ {t}
        PROVE  /\ Sits(w, u) /\ Follows(w.task[u], v.task[u])
               /\ w.task[u].at = "answered" => ~v.ctl.disposed /\ v.ctl.wanted
               /\ Apart(v, t, u)
    <3>1. Sits(w, u) /\ Follows(w.task[u], v.task[u]) /\ w.task[u] \in Tasks
      BY <1>0, Parts DEF Among, Begins
    <3>2. CASE OnAndroid(w)
      <4>1. v.task[u] = w.task[u] /\ ~v.task[t].current
        BY <3>2 DEF Begins
      <4>2. w.task[u].at = "connecting" => w.task[u].mirror # v.task[t].mirror
        BY <3>1, <3>2, <4>1 DEF Begins, Sits
      <4>. QED  BY <1>1, <3>1, <4>1, <4>2 DEF Apart, Sits
    <3>3. CASE ~OnAndroid(w)
      <4>1. ~v.task[u].current /\ v.task[t].at = "probing"
        BY <3>3 DEF Begins
      <4>. QED  BY <1>1, <3>1, <4>1 DEF Apart, Sits
    <3>. QED  BY <3>2, <3>3
  <2>4. \A a, b \in Task : a # b => Apart(w, a, b)
    BY DEF Among
  <2>. QED  BY <1>0, <1>1, <1>2, <2>1, <2>2, <2>3, <2>4, BaseMoves
<1>4. Told(v)
  BY BeginTold
<1>5. Owned(v)
  BY <1>1, <1>2 DEF Owned, OwnedBut, Begins, Follows, Stands
<1>6. Room(v)
  <2>1. t \in Needs(w)
    BY DEF Needs
  <2>2. Spare(w, t)
    BY <1>0, <2>1, NeedIsSpare DEF Among
  <2>3. CASE OnAndroid(w)
    <3>1. Used(v) \subseteq Used(w) \cup {v.task[t].mirror}
      BY <1>2, <2>3 DEF Used, Begins
    <3>2. Needs(v) \subseteq Needs(w) \ {t}
      BY <2>3 DEF Needs, Begins, Follows, Stands
    <3>. QED  BY <1>0, <2>2, <3>1, <3>2, SpareIsRoom
  <2>4. CASE ~OnAndroid(w)
    <3>1. Used(v) \subseteq Used(w)
      BY <1>2, <2>4 DEF Used
    <3>2. Needs(v) \subseteq (Needs(w) \ {t}) \cup {t}
      BY DEF Needs, Begins, Follows, Stands
    <3>. QED  BY <1>0, <2>2, <3>1, <3>2, SpareIsRoom
  <2>. QED  BY <2>3, <2>4
<1>. QED  BY <1>3, <1>4, <1>5, <1>6 DEF Safe

\* start, from where the old mirror is down.
LEMMA StartingSafe ==
    ASSUME NEW w, NEW t \in Task, Among(w, t), OwnedBut(w, t, {}),
           w.task[t].at = "clearing", ~w.ctl.disposed, OnAndroid(w) <=> Android,
           NEW v, v = EnterStarting(Report(w, "stopped"), t)
    PROVE  Safe(v) /\ v.ctl.session = w.ctl.session
<1>. DEFINE x == Report(w, "stopped")
<1>0. w \in Worlds /\ Room(w)
  BY DEF Among
<1>1. /\ x \in Worlds /\ x.mirror = w.mirror /\ x.task = w.task /\ Keeps(w.ctl, x.ctl)
      /\ x.ctl.session = w.ctl.session
  BY <1>0, ReportView
<1>. HIDE DEF x
<1>a. v = EnterStarting(x, t)
  BY DEF x
<1>2. CASE Android
  <2>1. Cardinality(Used(x)) < MaxMirrors
    <3>1. t \in Needs(w)
      BY DEF Needs
    <3>2. Spare(w, t)
      BY <1>0, <3>1, NeedIsSpare
    <3>3. IsFiniteSet(Needs(w) \ {t})
      BY <1>0, Counting, FS_Subset
    <3>4. Cardinality(Needs(w) \ {t}) \in Nat
      BY <3>3, FS_CardinalityType
    <3>5. Used(x) = Used(w)
      BY <1>1 DEF Used
    <3>. QED  BY <1>0, <3>2, <3>4, <3>5, Counting, MirrorAssumption DEF Spare
  <2>2. /\ v \in Worlds /\ Keeps(x.ctl, v.ctl) /\ v.ctl.state = "starting"
        /\ v.ctl.session = x.ctl.session
        /\ \A u \in Task \ {t} : v.task[u] = x.task[u]
    BY <1>1, <1>2, <1>a, <2>1, StartingOnAndroid
  <2>3. PICK m \in Mirror :
          /\ x.mirror[m].life = "none"
          /\ v.mirror[m].life = "connecting" /\ v.mirror[m].watch = x.mirror[m].watch
          /\ v.mirror[m].quality = x.ctl.quality
          /\ \A n \in Mirror \ {m} : v.mirror[n] = x.mirror[n]
          /\ v.task[t].at = "connecting" /\ v.task[t].mirror = m /\ v.task[t].stops = None
          /\ v.task[t].next = None /\ ~v.task[t].current /\ Marked(x.task[t], v.task[t])
    BY <1>1, <1>2, <1>a, <2>1, StartingOnAndroid
  <2>4. \A u \in Task \ {t} : Follows(w.task[u], v.task[u]) /\ Marked(w.task[u], v.task[u])
    BY <1>1, <2>2, FollowsItself DEF Marked
  <2>5. v.task[t].current = FALSE
    BY <2>2, <2>3, Parts DEF Tasks
  <2>6. Begins(w, v, t)
    <3>1. Keeps(w.ctl, v.ctl) /\ x.ctl.quality = w.ctl.quality
      BY <1>1, <2>2 DEF Keeps
    <3>. QED  BY <1>1, <1>2, <2>2, <2>3, <2>4, <2>5, <3>1 DEF Begins
  <2>. QED  BY <1>1, <2>2, <2>6, BeginSafe
<1>3. CASE ~Android
  <2>1. /\ v \in Worlds /\ Keeps(x.ctl, v.ctl) /\ v.ctl.state = "starting"
        /\ v.ctl.session = x.ctl.session /\ v.mirror = x.mirror
        /\ \A u \in Task \ {t} :
              /\ Stands(x.task[u], v.task[u]) /\ Follows(x.task[u], v.task[u])
              /\ Marked(x.task[u], v.task[u]) /\ ~v.task[u].current
        /\ v.task[t].at = "probing" /\ v.task[t].stops = None /\ v.task[t].next = None
        /\ v.task[t].mirror = None /\ v.task[t].current /\ Marked(x.task[t], v.task[t])
    BY <1>1, <1>3, <1>a, StartingOnIos
  <2>2. Begins(w, v, t)
    <3>1. Keeps(w.ctl, v.ctl)
      BY <1>1, <2>1 DEF Keeps
    <3>. QED  BY <1>1, <1>3, <2>1, <3>1 DEF Begins
  <2>. QED  BY <1>1, <2>1, <2>2, BeginSafe
<1>. QED  BY <1>2, <1>3


-----------------------------------------------------------------------------
(* A call that stops mirrors.                                              *)

\* Call t is to await the end of first, then of second.
Halting(y, t, first, second) ==
    /\ Among(y, t) /\ OwnedBut(y, t, {first, second})
    /\ OnAndroid(y) <=> Android
    /\ y.task[t].at \in Stops
    /\ y.task[t].current => y.task[t].at = "failing" /\ ~OnAndroid(y)
    /\ OnAndroid(y) => y.task[t].at # "failing"
    /\ first \in Mirror \cup {None} /\ second \in Mirror \cup {None}
    /\ first # None => first # y.ctl.session
    /\ second # None =>
         /\ second # y.ctl.session
         /\ y.mirror[second].life \in {"live", "exited", "stopping", "stopped"}

\* It awaits the end of m.
Halts(y, v, t, m, next) ==
    /\ v \in Worlds /\ v.ctl = y.ctl
    /\ \A n \in Mirror \ {m} : v.mirror[n] = y.mirror[n]
    /\ v.mirror[m].life = "stopping" /\ v.mirror[m].watch = "off"
    /\ Likes(y.mirror[m], v.mirror[m])
    /\ \A u \in Task \ {t} : v.task[u] = y.task[u]
    /\ v.task[t].at = y.task[t].at /\ v.task[t].stops = m /\ v.task[t].next = next
    /\ v.task[t].mirror = y.task[t].mirror
    /\ v.task[t].current = y.task[t].current /\ Marked(y.task[t], v.task[t])

LEMMA HaltTold ==
    ASSUME NEW y, NEW t \in Task, NEW m \in Mirror, NEW next, Among(y, t),
           y.task[t].at \in Stops, m # y.ctl.session,
           NEW v, Halts(y, v, t, m, next), ~y.ctl.disposed
    PROVE  Told(v)
<1>0. /\ y \in Worlds /\ v \in Worlds /\ None \notin Mirror
      /\ y.ctl.session \in Mirror \cup {None}
  BY Parts, NotNone DEF Among, Halts, Controller
<1>1. v.ctl = y.ctl /\ (OnAndroid(v) <=> OnAndroid(y))
  BY DEF Halts, OnAndroid
<1>2. \A u \in Task : /\ v.task[u].at = y.task[u].at /\ v.task[u].mirror = y.task[u].mirror
                      /\ v.task[u].current = y.task[u].current
                      /\ Marked(y.task[u], v.task[u])
  BY DEF Halts, Marked
<1>3. \A u \in Task : (Starts(v, u) <=> Starts(y, u)) /\ (Works(v, u) <=> Works(y, u))
  BY <1>1, <1>2 DEF Works, Starts, Ends
<1>4. \A n \in Mirror : Likes(y.mirror[n], v.mirror[n])
  BY DEF Halts, Likes, Marked
<1>5. /\ \A u \in Task : StartTold(y, u)
      /\ Alone(y) /\ HolderTold(y) /\ Answered(y)
  BY DEF Among, Told
<1>6. ASSUME NEW u \in Task, Starts(v, u) PROVE StartTold(v, u)
  <2>1. StartTold(y, u) /\ Starts(y, u)
    BY <1>3, <1>5, <1>6
  <2>2. OnAndroid(y) /\ y.task[u].at = "connecting" =>
            v.mirror[y.task[u].mirror].quality = y.mirror[y.task[u].mirror].quality
    <3>. SUFFICES ASSUME y.task[u].at = "connecting"
                  PROVE  v.mirror[y.task[u].mirror].quality = y.mirror[y.task[u].mirror].quality
      OBVIOUS
    <3>1. u # t
      BY DEF Stops
    <3>2. Sits(y, u) /\ y.task[u] \in Tasks
      BY <1>0, <3>1, Parts DEF Among
    <3>3. y.task[u].mirror \in Mirror
      BY <3>2 DEF Sits, Tasks
    <3>. QED  BY <1>4, <3>3 DEF Likes
  <2>. QED  BY <1>1, <1>2, <2>1, <2>2 DEF StartTold, Marked
<1>7. \A u \in Task : StartTold(v, u)
  BY <1>6 DEF StartTold
<1>8. Alone(v)
  BY <1>2, <1>3, <1>5 DEF Alone, Marked
<1>9. HolderTold(v)
  <2>1. y.ctl.session # None => v.mirror[y.ctl.session] = y.mirror[y.ctl.session]
    BY <1>0 DEF Halts
  <2>. QED  BY <1>1, <1>3, <1>5, <2>1 DEF HolderTold
<1>10. Answered(v)
  BY <1>1, <1>3, <1>5 DEF Answered, Says
<1>. QED  BY <1>1, <1>7, <1>8, <1>9, <1>10 DEF Told

LEMMA HaltStops ==
    ASSUME NEW y, NEW t \in Task, NEW first, NEW second, Halting(y, t, first, second),
           NEW m \in Mirror, NEW next \in Mirror \cup {None},
           y.mirror[m].life \in {"connecting", "live", "exited"},
           \/ m = first /\ next = second
           \/ m = second /\ next = None /\ (first # None => ~Runs(y, first)),
           NEW v, Halts(y, v, t, m, next)
    PROVE  Safe(v)
<1>0. /\ y \in Worlds /\ v \in Worlds /\ None \notin Mirror
      /\ y.ctl.session \in Mirror \cup {None} /\ m # y.ctl.session
  BY Parts, NotNone DEF Among, Halting, Halts, Controller
<1>1. v.ctl = y.ctl /\ (OnAndroid(v) <=> OnAndroid(y))
  BY DEF Halts, OnAndroid
<1>2. \A n \in Mirror :
        /\ Ages(y.mirror[n].life, v.mirror[n].life)
        /\ n # m => v.mirror[n] = y.mirror[n]
        /\ v.mirror[n].quality = y.mirror[n].quality
        /\ v.mirror[n].watch \in {"off", y.mirror[n].watch}
        /\ Runs(v, n) => Runs(y, n)
        /\ v.mirror[n].life = "none" <=> y.mirror[n].life = "none"
  BY DEF Halts, Ages, Likes, Runs
<1>3. Base(v)
  <2>1. HolderSits(v)
    <3>1. HolderSits(y)
      BY DEF Halting, Among
    <3>2. v.ctl.session # None => v.mirror[v.ctl.session].life = "live"
      BY <1>0, <1>1, <1>2, <3>1 DEF HolderSits
    <3>. QED  BY <1>1, <1>2, <3>1, <3>2 DEF HolderSits
  <2>2. Sits(v, t)
    <3>1. /\ v.task[t].at \in Stops /\ v.task[t].stops = m /\ v.task[t].next = next
          /\ v.task[t].current = y.task[t].current /\ v.mirror[m].life = "stopping"
      BY DEF Halts, Halting
    <3>2. next # None =>
            /\ v.mirror[next].life \in {"live", "exited", "stopping", "stopped"}
            /\ next # v.ctl.session
      BY <1>1, <1>2, <3>1 DEF Halting
    <3>3. /\ y.task[t].current => y.task[t].at = "failing" /\ ~OnAndroid(y)
          /\ OnAndroid(y) => y.task[t].at # "failing" /\ y.task[t].at = v.task[t].at
      BY DEF Halting, Halts
    <3>4. y.task[t].at = v.task[t].at
      BY DEF Halts
    <3>. QED  BY <1>0, <1>1, <3>1, <3>2, <3>3, <3>4 DEF Sits, Stops
  <2>3. ASSUME NEW u \in Task \ {t}
        PROVE  /\ Sits(y, u) /\ Follows(y.task[u], v.task[u])
               /\ y.task[u].at = "answered" => ~v.ctl.disposed /\ v.ctl.wanted
               /\ Apart(v, t, u)
    <3>1. Sits(y, u) /\ Follows(y.task[u], v.task[u]) /\ v.task[u] = y.task[u]
      BY FollowsItself DEF Halting, Among, Halts
    <3>2. v.task[t].current = y.task[t].current /\ v.task[t].at # "connecting"
      BY DEF Halts, Halting, Stops
    <3>3. Apart(y, t, u)
      BY DEF Halting, Among
    <3>. QED  BY <1>1, <3>1, <3>2, <3>3 DEF Apart, Sits
  <2>4. \A a, b \in Task : a # b => Apart(y, a, b)
    BY DEF Halting, Among
  <2>. QED  BY <1>0, <1>1, <1>2, <2>1, <2>2, <2>3, <2>4, BaseMoves
<1>4. Told(v)
  <2>1. CASE y.ctl.disposed
    <3>1. \A u \in Task : v.task[u].current = y.task[u].current
      BY DEF Halts
    <3>. QED  BY <1>1, <2>1, <3>1 DEF Told, Among, Halting
  <2>2. CASE ~y.ctl.disposed
    BY <1>0, <2>2, HaltTold DEF Halting
  <2>. QED  BY <2>1, <2>2
<1>5. Owned(v)
  <2>1. \A n \in Mirror : Runs(v, n) => n # m
    BY DEF Runs, Halts
  <2>2. \A u \in Task \ {t} : v.task[u] = y.task[u]
    BY DEF Halts
  <2>3. v.task[t].next = next
    BY DEF Halts
  <2>. SUFFICES ASSUME NEW n \in Mirror, Runs(v, n), v.ctl.session # n,
                       \A u \in Task : n \notin {v.task[u].stops, v.task[u].next}
                PROVE  FALSE
    BY DEF Owned
  <2>4. Runs(y, n) /\ n # m /\ n # next /\ y.ctl.session # n
    BY <1>1, <1>2, <2>1, <2>3
  <2>5. n \in {first, second}
    BY <2>2, <2>4 DEF Halting, OwnedBut
  <2>. QED  BY <1>0, <2>4, <2>5
<1>6. Room(v)
  <2>1. Used(v) = Used(y)
    BY <1>2 DEF Used
  <2>2. Needs(v) = Needs(y)
    BY DEF Needs, Halts
  <2>. QED  BY <1>0, <2>1, <2>2, RoomStays DEF Halting, Among
<1>. QED  BY <1>3, <1>4, <1>5, <1>6 DEF Safe

\* It has nothing left to stop.
LEMMA HaltEnds ==
    ASSUME NEW y, NEW t \in Task, NEW first, NEW second, Halting(y, t, first, second),
           ~CanStop(y, first), ~CanStop(y, second), NEW v, v = AfterStops(y, t)
    PROVE  Safe(v) /\ v.ctl.session = y.ctl.session
<1>. DEFINE r == Return(y, t)
<1>0. y \in Worlds /\ Among(y, t) /\ None \notin Mirror
  BY NotNone DEF Halting, Among
<1>1. OwnedBut(y, t, {})
  BY <1>0 DEF Halting, OwnedBut, CanStop, Runs
<1>2. /\ r \in Worlds /\ r.ctl = y.ctl /\ r.mirror = y.mirror /\ r.task[t] = IdleTask
      /\ \A u \in Task \ {t} : r.task[u] = y.task[u]
  BY <1>0, ReturnView
<1>3. \A n \in Mirror : Rests(y.mirror[n], y.mirror[n])
  BY DEF Rests, Likes, Marked
<1>4. \A c : Keeps(c, c)
  BY DEF Keeps
<1>. HIDE DEF r
<1>a. ASSUME NEW s \in {"stopped", "error"}, NEW x, x \in Worlds, x.mirror = r.mirror,
             x.task = r.task, Keeps(r.ctl, x.ctl), x.ctl.session = r.ctl.session,
             x.ctl.state = (IF r.ctl.disposed THEN r.ctl.state ELSE s), Works(y, t)
      PROVE  Quits(y, x, t)
  BY <1>2, <1>3, <1>a DEF Quits
<1>5. CASE y.task[t].at \in {"stopping", "givingUp"}
  <2>. DEFINE s == IF y.task[t].at = "stopping" THEN "stopped" ELSE "error"
  <2>1. v = Report(r, s)
    BY <1>5 DEF AfterStops, r
  <2>2. Works(y, t)
    BY <1>5 DEF Works, Ends
  <2>3. s \in {"stopped", "error"}
    OBVIOUS
  <2>. HIDE DEF s
  <2>4. Quits(y, v, t)
    BY <1>2, <1>a, <2>1, <2>2, <2>3, ReportView
  <2>. QED  BY <1>0, <1>1, <2>4, QuitSafe DEF Quits
<1>6. CASE \/ y.task[t].at = "discarding"
           \/ y.task[t].at = "clearing" /\ y.ctl.disposed
           \/ y.task[t].at = "failing" /\ ~y.task[t].current
  <2>1. v = r
    BY <1>2, <1>6 DEF AfterStops, r
  <2>2. y.ctl.disposed \/ ~Works(y, t)
    BY <1>6 DEF Works, Starts, Ends, Halting
  <2>3. Quits(y, v, t)
    BY <1>2, <1>3, <1>4, <2>1, <2>2 DEF Quits
  <2>. QED  BY <1>0, <1>1, <2>3, QuitSafe DEF Quits
<1>7. CASE y.task[t].at = "clearing" /\ ~y.ctl.disposed
  <2>1. v = EnterStarting(Report(y, "stopped"), t)
    BY <1>2, <1>7 DEF AfterStops, r
  <2>2. OnAndroid(y) <=> Android
    BY DEF Halting
  <2>. QED  BY <1>0, <1>1, <1>7, <2>1, <2>2, StartingSafe
<1>8. CASE y.task[t].at = "failing" /\ y.task[t].current
  <2>. DEFINE x == [r EXCEPT !.ctl.iosStarting = None]
  <2>1. v = Report(x, "error")
    BY <1>8 DEF AfterStops, r
  <2>2. /\ x \in Worlds /\ x.mirror = r.mirror /\ x.task = r.task /\ Keeps(r.ctl, x.ctl)
        /\ x.ctl.session = r.ctl.session /\ x.ctl.state = r.ctl.state
    BY <1>2 DEF Worlds, Controller, Keeps
  <2>. HIDE DEF x
  <2>3. Works(y, t)
    BY <1>8 DEF Works, Starts
  <2>4. /\ v \in Worlds /\ v.mirror = x.mirror /\ v.task = x.task /\ Keeps(x.ctl, v.ctl)
        /\ v.ctl.session = x.ctl.session
        /\ v.ctl.state = IF x.ctl.disposed THEN x.ctl.state ELSE "error"
    BY <2>1, <2>2, ReportView
  <2>5. Keeps(r.ctl, v.ctl)
    BY <2>2, <2>4 DEF Keeps
  <2>6. x.ctl.disposed = r.ctl.disposed
    BY <2>2 DEF Keeps
  <2>7. Quits(y, v, t)
    BY <1>a, <2>2, <2>3, <2>4, <2>5, <2>6
  <2>. QED  BY <1>0, <1>1, <2>7, QuitSafe DEF Quits
<1>. QED  BY <1>5, <1>6, <1>7, <1>8 DEF Halting, Stops

LEMMA AwaitSafe ==
    ASSUME NEW x \in Worlds, NEW t \in Task, NEW at \in Stops, NEW first, NEW second,
           Halting(At(x, t, at), t, first, second),
           NEW v, v = AwaitStops(x, t, at, first, second)
    PROVE  Safe(v) /\ v.ctl.session = x.ctl.session
<1>. DEFINE y == At(x, t, at)
<1>0. at \in Awaits /\ None \notin Mirror
  BY NotNone DEF Stops, Awaits
<1>1. /\ y \in Worlds /\ y.ctl = x.ctl /\ y.mirror = x.mirror
      /\ y.task[t].at = at /\ y.task[t].mirror = x.task[t].mirror
      /\ y.task[t].current = x.task[t].current /\ Marked(x.task[t], y.task[t])
      /\ \A u \in Task \ {t} : y.task[u] = x.task[u]
  BY <1>0, AtView
<1>2. Halting(y, t, first, second) /\ y = At(x, t, at)
  OBVIOUS
<1>. HIDE DEF y
<1>3. first \in Mirror \cup {None} /\ second \in Mirror \cup {None}
  BY <1>2 DEF Halting
<1>4. \A m : CanStop(x, m) <=> CanStop(y, m)
  BY <1>1 DEF CanStop
<1>5. ASSUME NEW m \in Mirror, NEW next \in Mirror \cup {None}, v = StopMirror(x, t, at, m, next)
      PROVE  Halts(y, v, t, m, next)
  <2>1. /\ v \in Worlds /\ v.ctl = x.ctl
        /\ \A n \in Mirror \ {m} : v.mirror[n] = x.mirror[n]
        /\ v.mirror[m].life = "stopping" /\ v.mirror[m].watch = "off"
        /\ Likes(x.mirror[m], v.mirror[m])
        /\ \A u \in Task \ {t} : v.task[u] = x.task[u]
        /\ v.task[t].at = at /\ v.task[t].stops = m /\ v.task[t].next = next
        /\ v.task[t].mirror = x.task[t].mirror
        /\ v.task[t].current = x.task[t].current /\ Marked(x.task[t], v.task[t])
    BY <1>0, <1>5, StopMirrorView
  <2>. QED  BY <1>1, <2>1 DEF Halts, Marked
<1>6. CASE CanStop(x, first)
  <2>1. first \in Mirror /\ y.mirror[first].life \in {"connecting", "live", "exited"}
    BY <1>1, <1>3, <1>6 DEF CanStop
  <2>2. v = StopMirror(x, t, at, first, second)
    BY <1>6 DEF AwaitStops
  <2>3. Halts(y, v, t, first, second)
    BY <1>3, <1>5, <2>1, <2>2
  <2>4. Safe(v)
    BY <1>2, <1>3, <2>1, <2>3, HaltStops
  <2>. QED  BY <1>1, <2>3, <2>4 DEF Halts
<1>7. CASE ~CanStop(x, first) /\ CanStop(x, second)
  <2>1. second \in Mirror /\ y.mirror[second].life \in {"connecting", "live", "exited"}
    BY <1>1, <1>3, <1>7 DEF CanStop
  <2>2. v = StopMirror(x, t, at, second, None)
    BY <1>7 DEF AwaitStops
  <2>3. Halts(y, v, t, second, None)
    BY <1>5, <2>1, <2>2
  <2>4. first # None => ~Runs(y, first)
    BY <1>1, <1>7 DEF CanStop, Runs
  <2>5. Safe(v)
    BY <1>2, <2>1, <2>3, <2>4, HaltStops
  <2>. QED  BY <1>1, <2>3, <2>5 DEF Halts
<1>8. CASE ~CanStop(x, first) /\ ~CanStop(x, second)
  <2>1. v = AfterStops(y, t)
    BY <1>2, <1>8 DEF AwaitStops, At
  <2>2. Safe(v) /\ v.ctl.session = y.ctl.session
    BY <1>2, <1>4, <1>8, <2>1, HaltEnds
  <2>. QED  BY <1>1, <2>2
<1>. QED  BY <1>6, <1>7, <1>8

-----------------------------------------------------------------------------
(* A call that enters stop: it takes down what the controller has, and with *)
(* it every start that another call had under way.                          *)

\* What it must find.
Entering(w, t, at) ==
    /\ w \in Worlds /\ HolderSits(w) /\ OwnedBut(w, t, {})
    /\ OnAndroid(w) <=> Android
    /\ \A u \in Task \ {t} : Sits(w, u)
    /\ \A a, b \in Task \ {t} : a # b => Apart(w, a, b)
    /\ \/ at = "stopping" /\ Room(w)
       \/ /\ at = "clearing" /\ Spare(w, t) /\ ~w.ctl.disposed
          /\ w.ctl.wanted \/ w.task[t].overtaken
          /\ OnAndroid(w) => w.ctl.connected

\* The world in which it looks for what to stop.
Entered(w, t, at) == At(Forgetting(Overtake(Cross(w, t))), t, at)

LEMMA EnteredView ==
    ASSUME NEW w, NEW t \in Task, NEW at \in {"stopping", "clearing"}, Entering(w, t, at),
           NEW y, y = Entered(w, t, at)
    PROVE  /\ y \in Worlds /\ y.mirror = w.mirror /\ Keeps(w.ctl, y.ctl)
           /\ y.ctl.session = None /\ y.ctl.state = w.ctl.state
           /\ y.task[t].at = at /\ ~y.task[t].current
           /\ y.task[t].overtaken = w.task[t].overtaken
           /\ \A u \in Task \ {t} :
                /\ Follows(w.task[u], y.task[u]) /\ ~y.task[u].current
                /\ ~w.ctl.disposed /\ w.task[u].at \in Unguarded =>
                      y.task[u].overtaken /\ y.task[u].crossed /\ y.task[t].crossed
<1>. DEFINE c == Cross(w, t)
            o == Overtake(c)
            f == Forgetting(o)
<1>0. at \in Awaits /\ w \in Worlds /\ (OnAndroid(w) <=> Android)
  BY DEF Awaits, Entering
<1>1. /\ c \in Worlds /\ c.ctl = w.ctl /\ c.mirror = w.mirror
      /\ \A u \in Task \ {t} :
           /\ Follows(w.task[u], c.task[u])
           /\ ~w.ctl.disposed /\ w.task[u].at \in Unguarded =>
                 c.task[u].overtaken /\ c.task[u].crossed /\ c.task[t].crossed
      /\ c.task[t].overtaken = w.task[t].overtaken
  BY <1>0, CrossView
<1>. HIDE DEF c
<1>2. /\ o \in Worlds /\ o.ctl = c.ctl /\ o.mirror = c.mirror
      /\ \A u \in Task : /\ ~o.task[u].current /\ Marked(c.task[u], o.task[u])
                         /\ Follows(c.task[u], o.task[u])
  BY <1>1, OvertakeView
<1>. HIDE DEF o
<1>3. /\ f \in Worlds /\ f.mirror = o.mirror /\ f.task = o.task /\ Keeps(o.ctl, f.ctl)
      /\ f.ctl.session = None /\ f.ctl.state = o.ctl.state
  BY <1>2, ForgettingView
<1>4. y = At(f, t, at)
  BY DEF Entered, c, o
<1>. HIDE DEF f
<1>5. /\ y \in Worlds /\ y.ctl = f.ctl /\ y.mirror = f.mirror
      /\ y.task[t].at = at /\ y.task[t].current = f.task[t].current
      /\ Marked(f.task[t], y.task[t])
      /\ \A u \in Task \ {t} : y.task[u] = f.task[u]
  BY <1>0, <1>3, <1>4, AtView
<1>6. ASSUME NEW u \in Task \ {t} PROVE Follows(w.task[u], y.task[u])
  <2>1. Follows(w.task[u], c.task[u]) /\ Follows(c.task[u], y.task[u])
    BY <1>1, <1>2, <1>3, <1>5
  <2>. QED  BY <2>1 DEF Follows, Stands
<1>7. Keeps(w.ctl, y.ctl)
  BY <1>1, <1>2, <1>3, <1>5 DEF Keeps
<1>. QED  BY <1>1, <1>2, <1>3, <1>5, <1>6, <1>7 DEF Marked

LEMMA EnteredTold ==
    ASSUME NEW w, NEW t \in Task, NEW at \in {"stopping", "clearing"}, Entering(w, t, at),
           NEW y, y = Entered(w, t, at)
    PROVE  Told(y)
<1>1. /\ y \in Worlds /\ y.mirror = w.mirror /\ Keeps(w.ctl, y.ctl)
      /\ y.ctl.session = None /\ y.ctl.state = w.ctl.state
      /\ y.task[t].at = at /\ ~y.task[t].current
      /\ y.task[t].overtaken = w.task[t].overtaken
      /\ \A u \in Task \ {t} :
           /\ Follows(w.task[u], y.task[u]) /\ ~y.task[u].current
           /\ ~w.ctl.disposed /\ w.task[u].at \in Unguarded =>
                 y.task[u].overtaken /\ y.task[u].crossed /\ y.task[t].crossed
  BY EnteredView
<1>2. CASE w.ctl.disposed
  BY <1>1, <1>2 DEF Told, Keeps
<1>3. CASE ~w.ctl.disposed
  <2>1. /\ ~y.ctl.disposed /\ (OnAndroid(y) <=> Android) /\ y.ctl.connected = w.ctl.connected
        /\ y.ctl.wanted = w.ctl.wanted /\ (OnAndroid(y) <=> OnAndroid(w))
    BY <1>1, <1>3 DEF Keeps, OnAndroid, Entering
  <2>2. ASSUME NEW u \in Task \ {t}, Works(y, u)
        PROVE  y.task[u].overtaken /\ y.task[u].crossed /\ y.task[t].crossed
    <3>1. y.task[u].at \in Unguarded
      BY <1>1, <2>1, <2>2 DEF Works, Starts, Ends, Unguarded
    <3>. QED  BY <1>1, <1>3, <3>1 DEF Follows, Stands
  <2>3. ASSUME NEW u \in Task, Starts(y, u) PROVE StartTold(y, u)
    <3>1. CASE u # t
      BY <2>2, <2>3, <3>1 DEF StartTold, Works
    <3>2. CASE u = t
      <4>1. at = "clearing"
        BY <1>1, <2>3, <3>2 DEF Starts
      <4>2. (w.ctl.wanted \/ w.task[t].overtaken) /\ (OnAndroid(w) => w.ctl.connected)
        BY <4>1 DEF Entering
      <4>. QED  BY <1>1, <2>1, <3>2, <4>1, <4>2 DEF StartTold
    <3>. QED  BY <3>1, <3>2
  <2>4. Alone(y)
    <3>. SUFFICES ASSUME NEW a \in Task, NEW b \in Task, a # b, Starts(y, a), Works(y, b)
                  PROVE  y.task[a].crossed
      BY DEF Alone
    <3>. QED  BY <2>2 DEF Works
  <2>5. HolderTold(y)
    BY <1>1 DEF HolderTold
  <2>6. Answered(y)
    <3>1. Works(y, t)
      BY <1>1 DEF Works, Starts, Ends
    <3>. QED  BY <3>1 DEF Answered
  <2>7. \A u \in Task : StartTold(y, u)
    BY <2>3 DEF StartTold
  <2>. QED  BY <2>1, <2>4, <2>5, <2>6, <2>7 DEF Told
<1>. QED  BY <1>2, <1>3

LEMMA EnterStopSafe ==
    ASSUME NEW w, NEW t \in Task, NEW at \in {"stopping", "clearing"}, Entering(w, t, at),
           NEW v, v = EnterStop(w, t, at)
    PROVE  Safe(v) /\ v.ctl.session = None
<1>. DEFINE x == Forgetting(Overtake(Cross(w, t)))
            y == Entered(w, t, at)
<1>0. /\ w \in Worlds /\ (OnAndroid(w) <=> Android) /\ HolderSits(w) /\ None \notin Mirror
      /\ w.ctl.session \in Mirror \cup {None} /\ w.ctl.iosStarting \in Mirror \cup {None}
  BY Parts, NotNone DEF Entering, Controller
<1>1. /\ y \in Worlds /\ y.mirror = w.mirror /\ Keeps(w.ctl, y.ctl)
      /\ y.ctl.session = None /\ y.ctl.state = w.ctl.state
      /\ y.task[t].at = at /\ ~y.task[t].current
      /\ y.task[t].overtaken = w.task[t].overtaken
      /\ \A u \in Task \ {t} : Follows(w.task[u], y.task[u]) /\ ~y.task[u].current
  BY EnteredView
<1>2. Told(y)
  BY EnteredTold
<1>3. x \in Worlds /\ x.ctl.session = None
  <2>1. Cross(w, t) \in Worlds
    BY <1>0, CrossView
  <2>2. Overtake(Cross(w, t)) \in Worlds
    BY <2>1, OvertakeView
  <2>. QED  BY <2>2, ForgettingView
<1>4. y = At(x, t, at) /\ v = AwaitStops(x, t, at, w.ctl.iosStarting, w.ctl.session)
  BY DEF EnterStop, Entered
<1>. HIDE DEF x, y
<1>5. /\ y.ctl.platform = w.ctl.platform /\ (OnAndroid(y) <=> OnAndroid(w))
      /\ y.ctl.quality = w.ctl.quality /\ y.ctl.disposed = w.ctl.disposed
      /\ y.ctl.wanted = w.ctl.wanted
  BY <1>1 DEF Keeps, OnAndroid
<1>6. HolderSits(y)
  BY <1>0, <1>1, <1>5 DEF HolderSits
<1>7. ASSUME NEW u \in Task \ {t} PROVE Sits(y, u)
  <2>1. Sits(w, u) /\ Follows(w.task[u], y.task[u])
    BY <1>1 DEF Entering
  <2>2. \A n \in Mirror : Ages(w.mirror[n].life, y.mirror[n].life)
    BY <1>1, AgesNot
  <2>3. w.task[u].at = "answered" => ~y.ctl.disposed /\ y.ctl.wanted
    BY <1>5, <2>1 DEF Sits
  <2>. QED  BY <1>0, <1>1, <1>5, <2>1, <2>2, <2>3, OtherSits
<1>8. ASSUME NEW a \in Task, NEW b \in Task, a # b PROVE Apart(y, a, b)
  <2>1. CASE a = t \/ b = t
    BY <1>1, <2>1 DEF Apart
  <2>2. CASE a # t /\ b # t
    <3>1. Apart(w, a, b) /\ Follows(w.task[a], y.task[a]) /\ Follows(w.task[b], y.task[b])
      BY <1>1, <1>8, <2>2 DEF Entering
    <3>. QED  BY <3>1 DEF Apart, Follows, Stands
  <2>. QED  BY <2>1, <2>2
<1>9. Room(y)
  <2>1. Used(y) = Used(w) /\ Needs(y) \ {t} \subseteq Needs(w) \ {t}
    BY <1>1 DEF Used, Needs, Follows, Stands
  <2>2. CASE at = "stopping"
    <3>1. Needs(y) \subseteq Needs(w) /\ Room(w)
      BY <1>1, <2>1, <2>2 DEF Needs, Entering
    <3>. QED  BY <1>0, <1>1, <2>1, <3>1, RoomStays
  <2>3. CASE at = "clearing"
    <3>1. Spare(w, t) /\ Needs(y) \subseteq (Needs(w) \ {t}) \cup {t}
      BY <2>1, <2>3 DEF Entering
    <3>. QED  BY <1>0, <1>1, <2>1, <3>1, SpareIsRoom
  <2>. QED  BY <2>2, <2>3
<1>10. OwnedBut(y, t, {w.ctl.iosStarting, w.ctl.session})
  <2>. SUFFICES ASSUME NEW n \in Mirror, Runs(y, n), n # w.ctl.session
                PROVE  \E u \in Task \ {t} : n \in {y.task[u].stops, y.task[u].next}
    BY DEF OwnedBut
  <2>1. Runs(w, n)
    BY <1>1 DEF Runs
  <2>2. PICK u \in Task \ {t} : n \in {w.task[u].stops, w.task[u].next}
    BY <2>1 DEF Entering, OwnedBut
  <2>. QED  BY <1>1, <2>2 DEF Follows, Stands
<1>11. Halting(y, t, w.ctl.iosStarting, w.ctl.session)
  <2>1. Among(y, t)
    BY <1>1, <1>2, <1>6, <1>7, <1>8, <1>9 DEF Among
  <2>2. w.ctl.session # None => y.mirror[w.ctl.session].life = "live"
    BY <1>0, <1>1 DEF HolderSits
  <2>. QED  BY <1>0, <1>1, <1>5, <1>10, <2>1, <2>2 DEF Halting, Stops
<1>12. at \in Stops
  BY DEF Stops
<1>. QED  BY <1>3, <1>4, <1>11, <1>12, AwaitSafe

-----------------------------------------------------------------------------
(* A step that starts and stops nothing.                                   *)

\* The device is gone: what runs or starts without it was crossed.
Gone(w) == OnAndroid(w) /\ ~w.ctl.connected

\* A call that waits for the notice, or a free slot.
Waits(w, v, u) ==
    /\ w.task[u].at \in {"idle", "asking"} /\ v.task[u].at \in {"idle", "asking", "answered"}
    /\ v.task[u].stops = None /\ v.task[u].next = None /\ ~v.task[u].current
    /\ v.task[u].at # "idle" => ~OnAndroid(w)
    /\ v.task[u].at = "answered" => ~v.ctl.disposed /\ v.ctl.wanted

\* The controller holds what it held, or forgets it and says so.
Keeping(w, v) ==
    \/ /\ v.ctl.session = w.ctl.session
       /\ v.ctl.session # None => v.mirror[v.ctl.session].life = "live"
       /\ v.ctl.state = w.ctl.state \/ (v.ctl.state = "error" /\ Gone(w))
    \/ /\ v.ctl.session = None /\ w.ctl.session \in Mirror
       /\ v.ctl.state \in {"stopped", "error"}
       /\ v.mirror[w.ctl.session].life # "live"

Shifts(w, v) ==
    /\ v \in Worlds /\ Keeping(w, v) /\ Room(v)
    /\ v.ctl.platform = w.ctl.platform /\ v.ctl.disposed = w.ctl.disposed
    /\ w.ctl.wanted => v.ctl.wanted
    /\ w.ctl.connected => v.ctl.connected
    /\ v.ctl.quality = w.ctl.quality \/ (OnAndroid(w) /\ (~Says(w) \/ Gone(w)))
    /\ \A n \in Mirror :
          /\ Ages(w.mirror[n].life, v.mirror[n].life) /\ Likes(w.mirror[n], v.mirror[n])
          /\ v.mirror[n].life = "live" => w.mirror[n].life = "live"
          /\ OnAndroid(w) \/ v.mirror[n].watch \in {"off", w.mirror[n].watch}
    /\ \A u \in Task : v.task[u] = w.task[u] \/ Waits(w, v, u)

LEMMA ShiftTold ==
    ASSUME NEW w, Safe(w), NEW v, Shifts(w, v), ~w.ctl.disposed
    PROVE  Told(v)
<1>0. /\ w \in Worlds /\ v \in Worlds /\ None \notin Mirror
      /\ w.ctl.session \in Mirror \cup {None}
      /\ \A u \in Task : Sits(w, u)
  BY Parts, NotNone DEF Safe, Base, Controller, Shifts
<1>1. /\ ~v.ctl.disposed /\ (OnAndroid(v) <=> OnAndroid(w))
      /\ w.ctl.wanted => v.ctl.wanted
      /\ w.ctl.connected => v.ctl.connected
      /\ Keeping(w, v)
  BY DEF Shifts, OnAndroid
<1>2. /\ \A u \in Task : StartTold(w, u)
      /\ Alone(w) /\ HolderTold(w) /\ Answered(w)
  BY DEF Safe, Told
<1>3. ASSUME NEW u \in Task
      PROVE  /\ (Starts(v, u) <=> Starts(w, u)) /\ (Works(v, u) <=> Works(w, u))
             /\ Works(w, u) => v.task[u] = w.task[u]
  <2>1. CASE v.task[u] = w.task[u]
    BY <1>1, <2>1 DEF Works, Starts, Ends
  <2>2. CASE Waits(w, v, u)
    BY <1>0, <2>2 DEF Works, Starts, Ends, Waits, Sits
  <2>. QED  BY <2>1, <2>2 DEF Shifts
<1>4. \A n \in Mirror : Likes(w.mirror[n], v.mirror[n])
  BY DEF Shifts
<1>5. ASSUME NEW u \in Task, Starts(v, u) PROVE StartTold(v, u)
  <2>1. StartTold(w, u) /\ Starts(w, u) /\ v.task[u] = w.task[u]
    BY <1>2, <1>3, <1>5 DEF Works
  <2>2. v.ctl.wanted \/ v.task[u].overtaken
    BY <1>1, <2>1 DEF StartTold
  <2>3. ASSUME ~w.task[u].crossed
        PROVE  /\ v.ctl.session = None
               /\ OnAndroid(v) => v.ctl.connected
               /\ v.task[u].at # "clearing" => v.ctl.state = "starting"
               /\ OnAndroid(v) /\ v.task[u].at = "connecting" =>
                     v.mirror[v.task[u].mirror].quality = v.ctl.quality
    <3>1. /\ w.ctl.session = None
          /\ OnAndroid(w) => w.ctl.connected
          /\ w.task[u].at # "clearing" => w.ctl.state = "starting"
          /\ OnAndroid(w) /\ w.task[u].at = "connecting" =>
                w.mirror[w.task[u].mirror].quality = w.ctl.quality
      BY <2>1, <2>3 DEF StartTold
    <3>2. v.ctl.session = None /\ (w.ctl.state # v.ctl.state => FALSE)
      BY <1>0, <1>1, <3>1 DEF Keeping, Gone
    <3>3. OnAndroid(v) /\ v.task[u].at = "connecting" =>
              v.mirror[v.task[u].mirror].quality = v.ctl.quality
      <4>. SUFFICES ASSUME OnAndroid(v), v.task[u].at = "connecting"
                    PROVE  v.mirror[v.task[u].mirror].quality = v.ctl.quality
        OBVIOUS
      <4>1. w.task[u].mirror \in Mirror
        <5>1. w.task[u] \in Tasks /\ Sits(w, u)
          BY <1>0, Parts
        <5>. QED  BY <2>1, <5>1 DEF Sits, Tasks
      <4>2. v.ctl.quality = w.ctl.quality
        BY <1>1, <2>1, <3>1 DEF Shifts, Says, Gone
      <4>. QED  BY <1>1, <1>4, <2>1, <3>1, <4>1, <4>2 DEF Likes
    <3>. QED  BY <1>1, <2>1, <3>1, <3>2, <3>3
  <2>. QED  BY <2>1, <2>2, <2>3 DEF StartTold
<1>6. \A u \in Task : StartTold(v, u)
  BY <1>5 DEF StartTold
<1>7. Alone(v)
  <2>. SUFFICES ASSUME NEW a \in Task, NEW b \in Task, a # b, Starts(v, a), Works(v, b)
                PROVE  v.task[a].crossed
    BY DEF Alone
  <2>1. Starts(w, a) /\ Works(w, b) /\ v.task[a] = w.task[a]
    BY <1>3 DEF Works
  <2>. QED  BY <1>2, <2>1 DEF Alone
<1>8. HolderTold(v)
  <2>. SUFFICES ASSUME v.ctl.session # None PROVE HolderTold(v)
    BY DEF HolderTold
  <2>. DEFINE m == w.ctl.session
  <2>1. m \in Mirror /\ v.ctl.session = m
    BY <1>0, <1>1 DEF Keeping
  <2>2. /\ w.ctl.wanted \/ w.mirror[m].overtaken
        /\ \/ w.mirror[m].crossed
           \/ /\ \A t \in Task : ~Works(w, t)
              /\ w.ctl.state = "running"
              /\ OnAndroid(w) => w.ctl.connected
              /\ w.mirror[m].quality = w.ctl.quality
    BY <1>2, <2>1 DEF HolderTold
  <2>3. Likes(w.mirror[m], v.mirror[m])
    BY <1>4, <2>1
  <2>4. ASSUME ~w.mirror[m].crossed
        PROVE  v.ctl.state = w.ctl.state /\ v.ctl.quality = w.ctl.quality
    BY <1>1, <2>1, <2>2, <2>4 DEF Keeping, Gone, Shifts, Says
  <2>. HIDE DEF m
  <2>5. v.ctl.wanted \/ v.mirror[m].overtaken
    BY <1>1, <2>2, <2>3 DEF Likes, Marked
  <2>6. ASSUME ~v.mirror[m].crossed
        PROVE  /\ \A t \in Task : ~Works(v, t)
               /\ v.ctl.state = "running"
               /\ OnAndroid(v) => v.ctl.connected
               /\ v.mirror[m].quality = v.ctl.quality
    <3>1. ~w.mirror[m].crossed
      BY <2>3, <2>6 DEF Likes, Marked
    <3>. QED  BY <1>1, <1>3, <2>2, <2>3, <2>4, <3>1 DEF Likes
  <2>. QED  BY <2>1, <2>5, <2>6 DEF HolderTold
<1>9. Answered(v)
  <2>. SUFFICES ASSUME Says(v), v.ctl.session = None PROVE \E u \in Task : Works(v, u)
    BY DEF Answered
  <2>1. w.ctl.session = None /\ Says(w)
    BY <1>1 DEF Keeping, Says
  <2>. QED  BY <1>2, <1>3, <2>1 DEF Answered
<1>. QED  BY <1>1, <1>6, <1>7, <1>8, <1>9 DEF Told

LEMMA ShiftSafe ==
    ASSUME NEW w, Safe(w), NEW v, Shifts(w, v)
    PROVE  Safe(v)
<1>0. /\ w \in Worlds /\ v \in Worlds /\ None \notin Mirror
      /\ w.ctl.session \in Mirror \cup {None} /\ HolderSits(w)
      /\ \A u \in Task : Sits(w, u)
  BY Parts, NotNone DEF Safe, Base, Controller, Shifts
<1>1. /\ (OnAndroid(v) <=> OnAndroid(w)) /\ v.ctl.platform = w.ctl.platform
      /\ v.ctl.disposed = w.ctl.disposed
      /\ w.ctl.wanted => v.ctl.wanted
      /\ v.ctl.session \in {None, w.ctl.session}
      /\ v.ctl.session # None => v.mirror[v.ctl.session].life = "live"
  BY DEF Shifts, OnAndroid, Keeping
<1>2. \A n \in Mirror :
         /\ Ages(w.mirror[n].life, v.mirror[n].life) /\ Likes(w.mirror[n], v.mirror[n])
         /\ Runs(v, n) => Runs(w, n)
         /\ ~OnAndroid(w) => v.mirror[n].watch \in {"off", w.mirror[n].watch}
  BY DEF Shifts, Runs, Likes, Marked
<1>3. HolderSits(v)
  <2>1. ~OnAndroid(w) => v.ctl.quality = w.ctl.quality
    BY DEF Shifts
  <2>. QED  BY <1>0, <1>1, <1>2, <2>1 DEF HolderSits, Likes
<1>4. ASSUME NEW u \in Task PROVE Sits(v, u)
  <2>1. CASE v.task[u] = w.task[u]
    <3>1. Follows(w.task[u], v.task[u])
      BY <2>1, FollowsItself
    <3>2. w.task[u].at = "answered" => ~v.ctl.disposed /\ v.ctl.wanted
      BY <1>0, <1>1, <2>1 DEF Sits
    <3>. QED  BY <1>0, <1>1, <1>2, <3>1, <3>2, OtherSits
  <2>2. CASE Waits(w, v, u)
    BY <1>1, <2>2 DEF Waits, Sits, Stops
  <2>. QED  BY <2>1, <2>2 DEF Shifts
<1>5. ASSUME NEW a \in Task, NEW b \in Task, a # b PROVE Apart(v, a, b)
  <2>1. Apart(w, a, b)
    BY <1>5 DEF Safe, Base
  <2>. QED  BY <2>1 DEF Shifts, Waits, Apart
<1>6. Told(v)
  <2>1. CASE w.ctl.disposed
    <3>1. w.ctl.session = None /\ \A u \in Task : ~w.task[u].current
      BY <2>1 DEF Safe, Told
    <3>. QED  BY <1>1, <2>1, <3>1 DEF Told, Shifts, Waits
  <2>2. CASE ~w.ctl.disposed
    BY <2>2, ShiftTold
  <2>. QED  BY <2>1, <2>2
<1>7. Owned(v)
  <2>. SUFFICES ASSUME NEW n \in Mirror, Runs(v, n), v.ctl.session # n
                PROVE  \E u \in Task : n \in {v.task[u].stops, v.task[u].next}
    BY DEF Owned
  <2>1. Runs(w, n) /\ w.ctl.session # n
    BY <1>2, <1>0, <1>1 DEF Shifts, Keeping, Runs
  <2>2. PICK u \in Task : n \in {w.task[u].stops, w.task[u].next}
    BY <2>1 DEF Safe, Owned
  <2>3. ~Waits(w, v, u)
    BY <1>0, <2>2 DEF Waits, Sits, Stops
  <2>. QED  BY <2>2, <2>3 DEF Shifts
<1>. QED  BY <1>0, <1>3, <1>4, <1>5, <1>6, <1>7 DEF Safe, Base, Shifts

-----------------------------------------------------------------------------
(* From a world to the variables and back.                                 *)

LEMMA WorldIs ==
    /\ World.ctl = ctl /\ World.mirror = mirror /\ World.task = task
    /\ Android <=> OnAndroid(World)
BY DEF World, Android, OnAndroid

LEMMA StepIs ==
    ASSUME NEW v, Safe(v), Become(v),
           \/ v.ctl.session \in {None, ctl.session}
           \/ ctl.wanted \/ v.mirror[v.ctl.session].overtaken
    PROVE  Inv' /\ Heeds
<1>1. v = [ctl |-> v.ctl, mirror |-> v.mirror, task |-> v.task]
  BY Parts DEF Safe, Base
<1>2. World' = v
  BY <1>1 DEF World, Become
<1>3. Safe(World')
  BY <1>2
<1>4. Heeds
  BY NotNone DEF Heeds, Become
<1>. QED  BY <1>3, <1>4 DEF Inv

\* What a call in a free slot finds.
LEMMA CallFinds ==
    ASSUME Inv, NEW t \in Task, Call(t)
    PROVE  /\ World.task[t].at = "idle"
           /\ World.task[t].stops = None /\ World.task[t].next = None
           /\ \A u \in Task : World.task[u].at # "answered"
<1>1. Sits(World, t)
  BY DEF Inv, Safe, Base
<1>. QED  BY <1>1, WorldIs DEF Call, AtRest, Busy, Sits, Stops

LEMMA RoomIsSpare ==
    ASSUME Inv, HasRoom, NEW t \in Task, World.task[t].at = "idle"
    PROVE  Spare(World, t)
<1>1. Needs(World) \ {t} = Needs(World)
  BY DEF Needs
<1>2. Cardinality(Used(World)) + Cardinality(Needs(World)) < MaxMirrors
  BY WorldIs DEF HasRoom, Used, Needs
<1>. QED  BY <1>1, <1>2 DEF Spare

-----------------------------------------------------------------------------
(* The controller's fields.                                                *)

\* What is wanted, and nothing else, may have changed.
Untold(w, v) ==
    /\ v \in Worlds /\ v.mirror = w.mirror /\ v.task = w.task
    /\ v.ctl.platform = w.ctl.platform /\ v.ctl.state = w.ctl.state
    /\ v.ctl.session = w.ctl.session /\ v.ctl.disposed = w.ctl.disposed

ConnectedTo(w, b) == [w EXCEPT !.ctl.connected = b]
WithQuality(w, q) == [w EXCEPT !.ctl.quality = q]

LEMMA WantingView ==
    ASSUME NEW w \in Worlds, NEW b \in BOOLEAN, NEW v, v = Wanting(w, b)
    PROVE  /\ Untold(w, v) /\ v.ctl.wanted = b /\ v.ctl.connected = w.ctl.connected
           /\ v.ctl.quality = w.ctl.quality
BY DEF Worlds, Controller, Wanting, Untold

LEMMA ConnectedView ==
    ASSUME NEW w \in Worlds, NEW b \in BOOLEAN, NEW v, v = ConnectedTo(w, b)
    PROVE  /\ Untold(w, v) /\ v.ctl.wanted = w.ctl.wanted /\ v.ctl.connected = b
           /\ v.ctl.quality = w.ctl.quality
BY DEF Worlds, Controller, ConnectedTo, Untold

LEMMA QualityView ==
    ASSUME NEW w \in Worlds, NEW q \in BOOLEAN, NEW v, v = WithQuality(w, q)
    PROVE  /\ Untold(w, v) /\ v.ctl.wanted = w.ctl.wanted
           /\ v.ctl.connected = w.ctl.connected /\ v.ctl.quality = q
BY DEF Worlds, Controller, WithQuality, Untold

-----------------------------------------------------------------------------
(* A call that comes in and enters stop.                                   *)

\* World x is w with what the call changes before it does.
Called(w, x, t) ==
    /\ x \in Worlds
    /\ x.ctl.platform = w.ctl.platform /\ x.ctl.session = w.ctl.session
    /\ OnAndroid(w) \/ x.ctl.quality = w.ctl.quality
    /\ w.task[t].stops = None /\ w.task[t].next = None
    /\ \A n \in Mirror :
          /\ x.mirror[n].life = w.mirror[n].life /\ Likes(w.mirror[n], x.mirror[n])
          /\ x.mirror[n].watch \in {"off", w.mirror[n].watch}
    /\ \A u \in Task \ {t} :
          /\ \/ x.task[u] = w.task[u]
             \/ w.task[u].at = "asking" /\ x.task[u] = IdleTask
          /\ w.task[u].at = "answered" => ~x.ctl.disposed /\ x.ctl.wanted

LEMMA CalledSits ==
    ASSUME NEW w, Safe(w), NEW t \in Task, NEW x, Called(w, x, t),
           NEW u \in Task \ {t}
    PROVE  Sits(x, u)
<1>0. /\ w \in Worlds /\ x \in Worlds /\ Sits(w, u) /\ HolderSits(w)
      /\ (OnAndroid(x) <=> OnAndroid(w))
  BY DEF Safe, Base, Called, OnAndroid
<1>1. CASE x.task[u] = w.task[u]
  <2>1. Follows(w.task[u], x.task[u])
    BY <1>1, FollowsItself
  <2>2. \A n \in Mirror : Ages(w.mirror[n].life, x.mirror[n].life)
    BY AgesNot DEF Called
  <2>. QED  BY <1>0, <1>1, <2>1, <2>2, OtherSits DEF Called
<1>2. CASE x.task[u] = IdleTask
  BY <1>2, IdleIs DEF Sits, Stops
<1>. QED  BY <1>1, <1>2 DEF Called

LEMMA CalledEnters ==
    ASSUME NEW w, Safe(w), NEW t \in Task, NEW x, Called(w, x, t),
           OnAndroid(w) <=> Android, NEW at,
           \/ at = "stopping"
           \/ /\ at = "clearing" /\ Spare(w, t) /\ ~x.ctl.disposed
              /\ x.ctl.wanted \/ x.task[t].overtaken
              /\ OnAndroid(w) => x.ctl.connected,
           x.task[t] = w.task[t] \/ x.task[t].at = w.task[t].at
    PROVE  Entering(x, t, at)
<1>0. /\ w \in Worlds /\ x \in Worlds /\ HolderSits(w) /\ None \notin Mirror
      /\ w.ctl.session \in Mirror \cup {None} /\ Room(w)
      /\ (OnAndroid(x) <=> OnAndroid(w)) /\ x.ctl.session = w.ctl.session
  BY Parts, NotNone DEF Safe, Base, Called, OnAndroid, Controller
<1>1. HolderSits(x)
  <2>1. \A n \in Mirror : /\ x.mirror[n].life = w.mirror[n].life
                          /\ x.mirror[n].quality = w.mirror[n].quality
                          /\ x.mirror[n].watch \in {"off", w.mirror[n].watch}
    BY DEF Called, Likes
  <2>2. ~OnAndroid(w) => x.ctl.quality = w.ctl.quality
    BY DEF Called
  <2>. QED  BY <1>0, <2>1, <2>2 DEF HolderSits
<1>2. \A u \in Task \ {t} : Sits(x, u)
  BY CalledSits
<1>3. ASSUME NEW a \in Task \ {t}, NEW b \in Task \ {t}, a # b PROVE Apart(x, a, b)
  <2>1. Apart(w, a, b)
    BY <1>3 DEF Safe, Base
  <2>. QED  BY <2>1, IdleIs DEF Called, Apart
<1>4. OwnedBut(x, t, {})
  <2>. SUFFICES ASSUME NEW n \in Mirror, Runs(x, n), x.ctl.session # n
                PROVE  \E u \in Task \ {t} : n \in {x.task[u].stops, x.task[u].next}
    BY DEF OwnedBut
  <2>1. Runs(w, n)
    BY DEF Runs, Called, Likes, Marked
  <2>2. PICK u \in Task : n \in {w.task[u].stops, w.task[u].next}
    BY <1>0, <2>1 DEF Safe, Owned
  <2>3. u # t
    BY <1>0, <2>2 DEF Called
  <2>4. w.task[u].at # "asking"
    <3>1. Sits(w, u)
      BY DEF Safe, Base
    <3>. QED  BY <1>0, <2>2, <3>1 DEF Sits, Stops
  <2>. QED  BY <2>2, <2>3, <2>4 DEF Called
<1>5. Used(x) = Used(w) /\ Needs(x) \subseteq Needs(w)
  BY IdleIs DEF Used, Needs, Called
<1>6. Room(x)
  BY <1>0, <1>5, RoomStays
<1>7. Spare(w, t) => Spare(x, t)
  BY <1>0, <1>5, SpareStays
<1>. QED  BY <1>0, <1>1, <1>2, <1>3, <1>4, <1>6, <1>7 DEF Entering


\* What a call changes first is of the controller only.
LEMMA CalledByUntold ==
    ASSUME Inv, NEW t \in Task, Call(t), NEW x, Untold(World, x),
           OnAndroid(World) \/ x.ctl.quality = World.ctl.quality
    PROVE  Called(World, x, t)
<1>1. /\ World.task[t].stops = None /\ World.task[t].next = None
      /\ \A u \in Task : World.task[u].at # "answered"
  BY CallFinds
<1>2. \A n \in Mirror : Likes(World.mirror[n], World.mirror[n])
  BY DEF Likes, Marked
<1>. QED  BY <1>1, <1>2 DEF Called, Untold

LEMMA StopStep ==
    ASSUME Inv, NEW t \in Task, Stop(t)
    PROVE  Inv' /\ Heeds
<1>0. Safe(World) /\ World \in Worlds
  BY DEF Inv, Safe, Base
<1>. DEFINE x == Wanting(World, FALSE)
            v == EnterStop(x, t, "stopping")
<1>1. Become(v) /\ Call(t)
  BY DEF Stop
<1>2. Untold(World, x) /\ x.ctl.quality = World.ctl.quality
  BY <1>0, WantingView
<1>. HIDE DEF x
<1>3. Called(World, x, t)
  BY <1>1, <1>2, CalledByUntold
<1>4. Entering(x, t, "stopping")
  BY <1>0, <1>2, <1>3, CalledEnters, WorldIs DEF Untold
<1>5. Safe(v) /\ v.ctl.session = None
  BY <1>4, EnterStopSafe
<1>. HIDE DEF v
<1>. QED  BY <1>1, <1>5, StepIs

LEMMA DisconnectStep ==
    ASSUME Inv, NEW t \in Task, Disconnect(t)
    PROVE  Inv' /\ Heeds
<1>0. Safe(World) /\ World \in Worlds
  BY DEF Inv, Safe, Base
<1>. DEFINE d == ConnectedTo(World, FALSE)
            x == Wanting(d, FALSE)
            v == EnterStop(x, t, "stopping")
<1>1. Become(v) /\ Call(t)
  BY DEF Disconnect, ConnectedTo
<1>2. Untold(World, d) /\ d.ctl.quality = World.ctl.quality
  BY <1>0, ConnectedView
<1>. HIDE DEF d
<1>3. Untold(d, x) /\ x.ctl.quality = d.ctl.quality
  BY <1>2, WantingView DEF Untold
<1>. HIDE DEF x
<1>4. Untold(World, x) /\ x.ctl.quality = World.ctl.quality
  BY <1>2, <1>3 DEF Untold
<1>5. Called(World, x, t)
  BY <1>1, <1>4, CalledByUntold
<1>6. Entering(x, t, "stopping")
  BY <1>0, <1>4, <1>5, CalledEnters, WorldIs DEF Untold
<1>7. Safe(v) /\ v.ctl.session = None
  BY <1>6, EnterStopSafe
<1>. HIDE DEF v
<1>. QED  BY <1>1, <1>7, StepIs

\* dispose refuses every notice that is still open.
Disposed(w) ==
    [w EXCEPT !.ctl.disposed = TRUE,
              !.task = [u \in Task |-> IF w.task[u].at = "asking" THEN IdleTask ELSE w.task[u]]]

LEMMA DisposedView ==
    ASSUME NEW w \in Worlds, NEW v, v = Disposed(w)
    PROVE  /\ v \in Worlds /\ v.mirror = w.mirror
           /\ v.ctl.platform = w.ctl.platform /\ v.ctl.session = w.ctl.session
           /\ v.ctl.quality = w.ctl.quality
           /\ \A u \in Task : v.task[u] = IF w.task[u].at = "asking" THEN IdleTask
                                          ELSE w.task[u]
<1>. DEFINE ta == [u \in Task |-> IF w.task[u].at = "asking" THEN IdleTask ELSE w.task[u]]
<1>1. ta \in [Task -> Tasks] /\ v = [w EXCEPT !.ctl.disposed = TRUE, !.task = ta]
  BY Parts, NotNone DEF Disposed
<1>2. \A u \in Task : ta[u] = IF w.task[u].at = "asking" THEN IdleTask ELSE w.task[u]
  OBVIOUS
<1>. HIDE DEF ta
<1>3. v.task = ta /\ v.mirror = w.mirror /\ v.ctl = [w.ctl EXCEPT !.disposed = TRUE]
      /\ v = [ctl |-> v.ctl, mirror |-> v.mirror, task |-> v.task]
  BY <1>1 DEF Worlds
<1>4. /\ v.ctl \in Controller /\ v.ctl.platform = w.ctl.platform
      /\ v.ctl.session = w.ctl.session /\ v.ctl.quality = w.ctl.quality
  BY <1>3, Parts DEF Controller
<1>5. v \in Worlds
  <2>1. v.ctl \in Controller /\ v.mirror \in [Mirror -> Mirrors] /\ v.task \in [Task -> Tasks]
    BY <1>1, <1>3, <1>4, Parts
  <2>. QED  BY <1>3, <2>1, Whole
<1>. QED  BY <1>2, <1>3, <1>4, <1>5

LEMMA DisposeStep ==
    ASSUME Inv, NEW t \in Task, Dispose(t)
    PROVE  Inv' /\ Heeds
<1>0. Safe(World) /\ World \in Worlds
  BY DEF Inv, Safe, Base
<1>. DEFINE d == Wanting(World, FALSE)
            x == Disposed(d)
            v == EnterStop(x, t, "stopping")
<1>1. Untold(World, d) /\ d.ctl.quality = World.ctl.quality
  BY <1>0, WantingView
<1>2. Become(v) /\ Call(t)
  <2>1. d.task = task
    BY <1>1, WorldIs DEF Untold
  <2>2. x = [d EXCEPT !.ctl.disposed = TRUE,
                      !.task = [u \in Task |-> IF task[u].at = "asking" THEN IdleTask
                                               ELSE task[u]]]
    BY <2>1 DEF Disposed
  <2>. HIDE DEF x
  <2>. QED  BY <2>2 DEF Dispose
<1>. HIDE DEF d
<1>3. /\ x \in Worlds /\ x.mirror = d.mirror
      /\ x.ctl.platform = d.ctl.platform /\ x.ctl.session = d.ctl.session
      /\ x.ctl.quality = d.ctl.quality
      /\ \A u \in Task : x.task[u] = IF d.task[u].at = "asking" THEN IdleTask
                                     ELSE d.task[u]
  BY <1>1, DisposedView DEF Untold
<1>. HIDE DEF x
<1>4. /\ World.task[t].at = "idle"
      /\ World.task[t].stops = None /\ World.task[t].next = None
      /\ \A u \in Task : World.task[u].at # "answered"
  BY <1>2, CallFinds
<1>5. Called(World, x, t)
  <2>1. \A n \in Mirror : Likes(World.mirror[n], World.mirror[n])
    BY DEF Likes, Marked
  <2>. QED  BY <1>1, <1>3, <1>4, <2>1 DEF Called, Untold
<1>6. Entering(x, t, "stopping")
  BY <1>0, <1>1, <1>3, <1>4, <1>5, CalledEnters, WorldIs DEF Untold
<1>7. Safe(v) /\ v.ctl.session = None
  BY <1>6, EnterStopSafe
<1>. HIDE DEF v
<1>. QED  BY <1>2, <1>7, StepIs

LEMMA ConfirmedStep ==
    ASSUME Inv, NEW t \in Task, Confirmed(t)
    PROVE  Inv' /\ Heeds
<1>0. Safe(World) /\ World \in Worlds /\ Sits(World, t)
      /\ \A u \in Task : Sits(World, u)
  BY DEF Inv, Safe, Base
<1>. DEFINE v == EnterStop(World, t, "clearing")
<1>1. Become(v) /\ World.task[t].at = "answered"
  BY WorldIs DEF Confirmed
<1>2. /\ ~World.ctl.disposed /\ World.ctl.wanted /\ ~OnAndroid(World)
      /\ World.task[t].stops = None /\ World.task[t].next = None
  BY <1>0, <1>1 DEF Sits, Stops
<1>3. Called(World, World, t)
  <2>1. \A n \in Mirror : Likes(World.mirror[n], World.mirror[n])
    BY DEF Likes, Marked
  <2>. QED  BY <1>0, <1>2, <2>1 DEF Called, Sits
<1>4. Spare(World, t)
  <2>1. t \in Needs(World)
    BY <1>1 DEF Needs
  <2>. QED  BY <1>0, <2>1, NeedIsSpare DEF Safe
<1>5. Entering(World, t, "clearing")
  BY <1>0, <1>2, <1>3, <1>4, CalledEnters, WorldIs
<1>6. Safe(v) /\ v.ctl.session = None
  BY <1>5, EnterStopSafe
<1>. HIDE DEF v
<1>. QED  BY <1>1, <1>6, StepIs

-----------------------------------------------------------------------------
(* Starting, the notice, the quality and the device.                       *)

\* A step in which nothing that is up, starts or stops has a part.
LEMMA ShiftStep ==
    ASSUME Inv, NEW v, Shifts(World, v), Become(v)
    PROVE  Inv' /\ Heeds
<1>1. Safe(v)
  BY ShiftSafe DEF Inv
<1>2. v.ctl.session \in {None, ctl.session}
  BY WorldIs DEF Shifts, Keeping
<1>. QED  BY <1>1, <1>2, StepIs

\* Mirrors that are as they were.
LEMMA SameMirrors ==
    ASSUME NEW w, NEW v, v.mirror = w.mirror, NEW n \in Mirror
    PROVE  /\ Ages(w.mirror[n].life, v.mirror[n].life) /\ Likes(w.mirror[n], v.mirror[n])
           /\ v.mirror[n].life = "live" => w.mirror[n].life = "live"
           /\ OnAndroid(w) \/ v.mirror[n].watch \in {"off", w.mirror[n].watch}
BY AgesNot DEF Likes, Marked

\* A step of the controller's fields only.
LEMMA UntoldShifts ==
    ASSUME NEW w, Safe(w), NEW v, Untold(w, v),
           w.ctl.wanted => v.ctl.wanted, w.ctl.connected => v.ctl.connected,
           v.ctl.quality = w.ctl.quality \/ (OnAndroid(w) /\ (~Says(w) \/ Gone(w)))
    PROVE  Shifts(w, v)
<1>1. w \in Worlds /\ v \in Worlds /\ v.mirror = w.mirror /\ v.task = w.task
  BY DEF Safe, Base, Untold
<1>2. Room(v)
  <2>1. Used(v) = Used(w) /\ Needs(v) = Needs(w)
    BY <1>1 DEF Used, Needs
  <2>. QED  BY <1>1, <2>1, RoomStays DEF Safe
<1>3. Keeping(w, v)
  <2>1. w.ctl.session # None => w.mirror[w.ctl.session].life = "live"
    BY DEF Safe, Base, HolderSits
  <2>. QED  BY <2>1 DEF Keeping, Untold
<1>. QED  BY <1>1, <1>2, <1>3, SameMirrors DEF Shifts, Untold

LEMMA ConnectStep ==
    ASSUME Inv, Connect
    PROVE  Inv' /\ Heeds
<1>0. Safe(World) /\ World \in Worlds
  BY DEF Inv, Safe, Base
<1>. DEFINE v == ConnectedTo(World, TRUE)
<1>1. Become(v)
  BY DEF Connect, ConnectedTo
<1>2. /\ Untold(World, v) /\ v.ctl.wanted = World.ctl.wanted /\ v.ctl.connected
      /\ v.ctl.quality = World.ctl.quality
  BY <1>0, ConnectedView
<1>. HIDE DEF v
<1>3. Shifts(World, v)
  BY <1>0, <1>2, UntoldShifts
<1>. QED  BY <1>1, <1>3, ShiftStep

Asker == [IdleTask EXCEPT !.at = "asking"]

LEMMA AskerIs ==
    /\ Asker \in Tasks /\ Asker.at = "asking"
    /\ Asker.stops = None /\ Asker.next = None /\ ~Asker.current
BY DEF Asker, IdleTask, Tasks, Awaits

LEMMA StartStep ==
    ASSUME Inv, NEW t \in Task, NEW asks \in BOOLEAN, Start(t, asks)
    PROVE  Inv' /\ Heeds
<1>0. Safe(World) /\ World \in Worlds
  BY DEF Inv, Safe, Base
<1>. DEFINE x == Wanting(World, TRUE)
<1>1. /\ Become(EnterStart(x, t, asks)) /\ Call(t) /\ HasRoom
      /\ ctl.connected /\ ~ctl.disposed
      /\ asks => ~Android
  BY DEF Start
<1>2. /\ Untold(World, x) /\ x.ctl.quality = World.ctl.quality
      /\ x.ctl.wanted /\ x.ctl.connected = World.ctl.connected
  BY <1>0, WantingView
<1>. HIDE DEF x
<1>3. /\ World.task[t].at = "idle" /\ Spare(World, t)
      /\ x.ctl.connected /\ ~World.ctl.disposed
  BY <1>1, <1>2, CallFinds, RoomIsSpare, WorldIs
<1>4. CASE asks
  <2>. DEFINE v == WithTask(x, t, Asker)
  <2>1. Become(v)
    BY <1>1, <1>3, <1>4 DEF EnterStart, WithTask, Asker
  <2>2. /\ v \in Worlds /\ v.ctl = x.ctl /\ v.mirror = x.mirror
        /\ v.task[t] = Asker /\ \A u \in Task \ {t} : v.task[u] = x.task[u]
    BY <1>2, AskerIs, TaskExcept DEF Untold
  <2>. HIDE DEF v
  <2>3. v.mirror = World.mirror /\ \A u \in Task \ {t} : v.task[u] = World.task[u]
    BY <1>2, <2>2 DEF Untold
  <2>4. Room(v)
    <3>1. Used(v) \subseteq Used(World) /\ Needs(v) \subseteq (Needs(World) \ {t}) \cup {t}
      BY <2>3 DEF Used, Needs
    <3>. QED  BY <1>0, <1>3, <2>2, <3>1, SpareIsRoom
  <2>5. Waits(World, v, t)
    BY <1>1, <1>3, <1>4, <2>2, AskerIs, WorldIs DEF Waits
  <2>6. Keeping(World, v)
    <3>1. World.ctl.session # None => World.mirror[World.ctl.session].life = "live"
      BY <1>0 DEF Safe, Base, HolderSits
    <3>. QED  BY <1>2, <2>2, <2>3, <3>1 DEF Keeping, Untold
  <2>7. Shifts(World, v)
    BY <1>2, <2>2, <2>3, <2>4, <2>5, <2>6, SameMirrors DEF Shifts, Untold
  <2>. QED  BY <2>1, <2>7, ShiftStep
<1>5. CASE ~asks
  <2>. DEFINE v == EnterStop(x, t, "clearing")
  <2>1. Become(v)
    BY <1>1, <1>3, <1>5 DEF EnterStart
  <2>2. Called(World, x, t)
    BY <1>1, <1>2, CalledByUntold
  <2>3. Entering(x, t, "clearing")
    BY <1>0, <1>2, <1>3, <2>2, CalledEnters, WorldIs DEF Untold
  <2>4. Safe(v) /\ v.ctl.session = None
    BY <2>3, EnterStopSafe
  <2>. HIDE DEF v
  <2>. QED  BY <2>1, <2>4, StepIs
<1>. QED  BY <1>4, <1>5

\* A start that finds the device gone: it says so, and was never under way.
LEMMA GoneShifts ==
    ASSUME NEW w, Safe(w), NEW t \in Task, w.task[t].at = "idle", Gone(w),
           NEW x, x \in Worlds, x.ctl.platform = w.ctl.platform,
           x.ctl.session = w.ctl.session, x.ctl.disposed = w.ctl.disposed,
           x.ctl.state = w.ctl.state, w.ctl.wanted => x.ctl.wanted,
           \A n \in Mirror : x.mirror[n].life = w.mirror[n].life
                             /\ Likes(w.mirror[n], x.mirror[n]),
           \A u \in Task \ {t} : x.task[u] = w.task[u],
           NEW v, v = Report(Return(x, t), "error")
    PROVE  Shifts(w, v)
<1>. DEFINE r == Return(x, t)
<1>1. /\ r \in Worlds /\ r.ctl = x.ctl /\ r.mirror = x.mirror /\ r.task[t] = IdleTask
      /\ \A u \in Task \ {t} : r.task[u] = x.task[u]
  BY ReturnView
<1>. HIDE DEF r
<1>a. v = Report(r, "error")
  BY DEF r
<1>2. /\ v \in Worlds /\ v.mirror = r.mirror /\ v.task = r.task /\ Keeps(r.ctl, v.ctl)
      /\ v.ctl.session = r.ctl.session
      /\ v.ctl.state = IF r.ctl.disposed THEN r.ctl.state ELSE "error"
  BY <1>1, <1>a, ReportView
<1>3. /\ v.mirror = x.mirror /\ v.task[t] = IdleTask
      /\ \A u \in Task \ {t} : v.task[u] = w.task[u]
      /\ v.ctl.platform = w.ctl.platform /\ v.ctl.session = w.ctl.session
      /\ v.ctl.disposed = w.ctl.disposed /\ v.ctl.state \in {w.ctl.state, "error"}
      /\ w.ctl.wanted => v.ctl.wanted
  BY <1>1, <1>2 DEF Keeps
<1>4. w \in Worlds
  BY DEF Safe, Base
<1>5. Room(v)
  <2>1. Used(v) = Used(w) /\ Needs(v) \subseteq Needs(w)
    BY <1>3, IdleIs DEF Used, Needs
  <2>. QED  BY <1>2, <1>4, <2>1, RoomStays DEF Safe
<1>6. Keeping(w, v)
  <2>1. w.ctl.session # None => w.mirror[w.ctl.session].life = "live" /\ w.ctl.session \in Mirror
    BY <1>4, Parts DEF Safe, Base, HolderSits, Controller
  <2>. QED  BY <1>3, <2>1 DEF Keeping
<1>7. Waits(w, v, t)
  BY <1>3, IdleIs DEF Waits
<1>8. \A n \in Mirror : Ages(w.mirror[n].life, v.mirror[n].life)
  BY <1>3, AgesNot
<1>. QED  BY <1>2, <1>3, <1>5, <1>6, <1>7, <1>8 DEF Shifts, Gone

LEMMA SetQualityStep ==
    ASSUME Inv, NEW t \in Task, SetQuality(t)
    PROVE  Inv' /\ Heeds
<1>0. Safe(World) /\ World \in Worlds /\ World.ctl \in Controller
  BY Parts DEF Inv, Safe, Base
<1>. DEFINE d == WithQuality(World, ~ctl.quality)
            x == Wanting(d, TRUE)
<1>1. /\ OnAndroid(World) /\ ~World.ctl.disposed
      /\ \/ ~Says(World) /\ Become(d)
         \/ Call(t) /\ HasRoom /\ Become(EnterStart(x, t, FALSE))
  BY WorldIs DEF SetQuality, WithQuality, Running, Says
<1>2. /\ Untold(World, d) /\ d.ctl.wanted = World.ctl.wanted
      /\ d.ctl.connected = World.ctl.connected
  <2>1. (~ctl.quality) \in BOOLEAN
    OBVIOUS
  <2>. QED  BY <1>0, <2>1, QualityView
<1>. HIDE DEF d
<1>3. /\ Untold(d, x) /\ x.ctl.wanted /\ x.ctl.connected = d.ctl.connected
  <2>1. d \in Worlds
    BY <1>2 DEF Untold
  <2>. QED  BY <2>1, WantingView
<1>. HIDE DEF x
<1>4. Untold(World, x) /\ x.ctl.connected = World.ctl.connected
  BY <1>2, <1>3 DEF Untold
<1>5. CASE ~Says(World) /\ Become(d)
  <2>1. Shifts(World, d)
    BY <1>0, <1>1, <1>2, <1>5, UntoldShifts
  <2>. QED  BY <1>5, <2>1, ShiftStep
<1>6. CASE Call(t) /\ HasRoom /\ Become(EnterStart(x, t, FALSE))
  <2>0. World.task[t].at = "idle" /\ Spare(World, t)
    BY <1>6, CallFinds, RoomIsSpare
  <2>1. CASE ~x.ctl.connected
    <3>. DEFINE v == Report(Return(x, t), "error")
    <3>1. Become(v)
      BY <1>6, <2>1 DEF EnterStart
    <3>2. Gone(World)
      BY <1>1, <1>4, <2>1 DEF Gone
    <3>3. \A n \in Mirror : Likes(World.mirror[n], World.mirror[n])
      BY DEF Likes, Marked
    <3>4. Shifts(World, v)
      BY <1>0, <1>3, <1>4, <2>0, <3>2, <3>3, GoneShifts DEF Untold
    <3>. HIDE DEF v
    <3>. QED  BY <3>1, <3>4, ShiftStep
  <2>2. CASE x.ctl.connected
    <3>. DEFINE v == EnterStop(x, t, "clearing")
    <3>1. Become(v)
      BY <1>6, <2>2 DEF EnterStart
    <3>2. Called(World, x, t)
      BY <1>1, <1>4, <1>6, CalledByUntold
    <3>3. Entering(x, t, "clearing")
      BY <1>0, <1>1, <1>3, <1>4, <2>0, <2>2, <3>2, CalledEnters, WorldIs DEF Untold
    <3>4. Safe(v) /\ v.ctl.session = None
      BY <3>3, EnterStopSafe
    <3>. HIDE DEF v
    <3>. QED  BY <3>1, <3>4, StepIs
  <2>. QED  BY <2>1, <2>2
<1>. QED  BY <1>1, <1>5, <1>6

Answering(w, proceed) ==
    [w EXCEPT !.task = [t \in Task |->
                  IF w.task[t].at # "asking" THEN w.task[t]
                  ELSE IF proceed THEN [w.task[t] EXCEPT !.at = "answered"]
                  ELSE IdleTask],
              !.ctl.wanted = IF proceed THEN TRUE ELSE @]

LEMMA AnsweringShifts ==
    ASSUME NEW w, Safe(w), ~w.ctl.disposed, NEW proceed \in BOOLEAN,
           NEW v, v = Answering(w, proceed)
    PROVE  Shifts(w, v)
<1>0. w \in Worlds /\ w.ctl \in Controller /\ \A u \in Task : Sits(w, u)
  BY Parts DEF Safe, Base
<1>. DEFINE ta == [t \in Task |->
                      IF w.task[t].at # "asking" THEN w.task[t]
                      ELSE IF proceed THEN [w.task[t] EXCEPT !.at = "answered"]
                      ELSE IdleTask]
            b == IF proceed THEN TRUE ELSE w.ctl.wanted
            c == [w.ctl EXCEPT !.wanted = b]
<1>1. /\ c \in Controller /\ c.platform = w.ctl.platform /\ c.state = w.ctl.state
      /\ c.session = w.ctl.session /\ c.disposed = w.ctl.disposed
      /\ c.connected = w.ctl.connected /\ c.quality = w.ctl.quality
      /\ w.ctl.wanted => c.wanted
      /\ proceed => c.wanted
  BY <1>0 DEF Controller
<1>2. ASSUME NEW u \in Task
      PROVE  /\ ta[u] \in Tasks
             /\ IF w.task[u].at # "asking" THEN ta[u] = w.task[u]
                ELSE \/ ta[u] = IdleTask
                     \/ /\ ta[u].at = "answered" /\ proceed /\ ta[u].stops = None
                        /\ ta[u].next = None /\ ~ta[u].current
  <2>1. w.task[u] \in Tasks /\ Sits(w, u)
    BY <1>0, Parts
  <2>2. w.task[u].at = "asking" =>
            w.task[u].stops = None /\ w.task[u].next = None /\ ~w.task[u].current
    BY <2>1 DEF Sits, Stops
  <2>. QED  BY <2>1, <2>2, NotNone DEF Tasks, Awaits
<1>3. v = [w EXCEPT !.task = ta, !.ctl.wanted = b] /\ ta \in [Task -> Tasks]
  BY <1>0, <1>2 DEF Answering, Worlds
<1>. HIDE DEF ta, b
<1>4. /\ v.task = ta /\ v.ctl = c /\ v.mirror = w.mirror
      /\ v = [ctl |-> v.ctl, mirror |-> v.mirror, task |-> v.task]
  BY <1>0, <1>3 DEF Worlds
<1>. HIDE DEF c
<1>5. v \in Worlds
  <2>1. v.ctl \in Controller /\ v.mirror \in [Mirror -> Mirrors] /\ v.task \in [Task -> Tasks]
    BY <1>0, <1>1, <1>3, <1>4, Parts
  <2>. QED  BY <1>4, <2>1, Whole
<1>6. \A u \in Task : v.task[u] = w.task[u] \/ Waits(w, v, u)
  <2>. TAKE u \in Task
  <2>1. CASE w.task[u].at # "asking"
    BY <1>2, <1>4, <2>1
  <2>2. CASE w.task[u].at = "asking"
    <3>1. ~OnAndroid(w)
      BY <1>0, <2>2 DEF Sits
    <3>. QED  BY <1>1, <1>2, <1>4, <2>2, <3>1, IdleIs DEF Waits
  <2>. QED  BY <2>1, <2>2
<1>7. Room(v)
  <2>1. Used(v) = Used(w)
    BY <1>4 DEF Used
  <2>2. Needs(v) \subseteq Needs(w)
    BY <1>2, <1>4, IdleIs DEF Needs
  <2>. QED  BY <1>0, <1>5, <2>1, <2>2, RoomStays DEF Safe
<1>8. Keeping(w, v)
  <2>1. w.ctl.session # None => w.mirror[w.ctl.session].life = "live"
    BY DEF Safe, Base, HolderSits
  <2>. QED  BY <1>1, <1>4, <2>1 DEF Keeping
<1>. QED  BY <1>1, <1>4, <1>5, <1>6, <1>7, <1>8, SameMirrors DEF Shifts

LEMMA AnswerStep ==
    ASSUME Inv, NEW proceed \in BOOLEAN, AnswerNotice(proceed)
    PROVE  Inv' /\ Heeds
<1>. DEFINE v == Answering(World, proceed)
<1>1. Become(v) /\ ~World.ctl.disposed
  <2>1. World.task = task
    BY WorldIs
  <2>. QED  BY <2>1, WorldIs DEF AnswerNotice, Answering
<1>2. Shifts(World, v)
  BY <1>1, AnsweringShifts DEF Inv
<1>. HIDE DEF v
<1>. QED  BY <1>1, <1>2, ShiftStep

-----------------------------------------------------------------------------
(* What a call comes back to: the end of a stop, and the iPhone's answer.  *)

Lives == {"connecting", "live", "exited", "stopped"}

WithLife(w, m, l) == [w EXCEPT !.mirror[m].life = l]

LEMMA LifeView ==
    ASSUME NEW w \in Worlds, NEW m \in Mirror,
           NEW l \in Lives, NEW v, v = WithLife(w, m, l)
    PROVE  /\ v \in Worlds /\ v.task = w.task /\ v.ctl = w.ctl
           /\ v.mirror[m].life = l /\ v.mirror[m].watch = w.mirror[m].watch
           /\ Likes(w.mirror[m], v.mirror[m])
           /\ \A n \in Mirror \ {m} : v.mirror[n] = w.mirror[n]
<1>. DEFINE mi == [w.mirror[m] EXCEPT !.life = l]
<1>1. /\ mi \in Mirrors /\ mi.life = l /\ mi.watch = w.mirror[m].watch
      /\ Likes(w.mirror[m], mi)
  <2>1. w.mirror[m] \in Mirrors
    BY Parts
  <2>. QED  BY <2>1 DEF Mirrors, Likes, Marked, Lives
<1>2. v = WithMirror(w, m, mi)
  BY DEF WithLife, WithMirror
<1>. HIDE DEF mi
<1>. QED  BY <1>1, <1>2, MirrorExcept

\* A mirror whose stop is over, or whose server is gone, was nobody's any more.
LEMMA LifeShifts ==
    ASSUME NEW w, Safe(w), NEW m \in Mirror, NEW l \in {"exited", "stopped"},
           w.ctl.session # m,
           Ages(w.mirror[m].life, l), w.mirror[m].life # "none",
           NEW v, v = WithLife(w, m, l)
    PROVE  Shifts(w, v)
<1>0. w \in Worlds /\ w.ctl.session \in Mirror \cup {None}
  BY Parts DEF Safe, Base, Controller
<1>1. l \in Lives /\ l # "live" /\ l # "none"
  BY DEF Lives
<1>2. /\ v \in Worlds /\ v.task = w.task /\ v.ctl = w.ctl
      /\ v.mirror[m].life = l /\ v.mirror[m].watch = w.mirror[m].watch
      /\ Likes(w.mirror[m], v.mirror[m])
      /\ \A n \in Mirror \ {m} : v.mirror[n] = w.mirror[n]
  BY <1>0, <1>1, LifeView
<1>3. Room(v)
  <2>1. Used(v) = Used(w) /\ Needs(v) = Needs(w)
    BY <1>1, <1>2 DEF Used, Needs
  <2>. QED  BY <1>0, <1>2, <2>1, RoomStays DEF Safe
<1>4. Keeping(w, v)
  <2>1. w.ctl.session # None => w.mirror[w.ctl.session].life = "live"
    BY DEF Safe, Base, HolderSits
  <2>. QED  BY <1>0, <1>2, <2>1 DEF Keeping
<1>5. ASSUME NEW n \in Mirror
      PROVE  /\ Ages(w.mirror[n].life, v.mirror[n].life) /\ Likes(w.mirror[n], v.mirror[n])
             /\ v.mirror[n].life = "live" => w.mirror[n].life = "live"
             /\ v.mirror[n].watch = w.mirror[n].watch
  <2>1. CASE n = m
    BY <1>1, <1>2, <2>1
  <2>2. CASE n # m
    BY <1>2, <2>2, AgesNot DEF Likes, Marked
  <2>. QED  BY <2>1, <2>2
<1>. QED  BY <1>2, <1>3, <1>4, <1>5 DEF Shifts

\* A call whose stop is over goes on to what it has next.
LEMMA NextHalts ==
    ASSUME NEW w, Safe(w), NEW t \in Task, w.task[t].stops # None, OnAndroid(w) <=> Android
    PROVE  Halting(w, t, w.task[t].next, None)
<1>0. /\ w \in Worlds /\ Sits(w, t) /\ w.task[t] \in Tasks /\ None \notin Mirror
  BY Parts, NotNone DEF Safe, Base
<1>1. Among(w, t)
  BY DEF Among, Safe, Base
<1>2. OwnedBut(w, t, {w.task[t].next, None})
  <2>. SUFFICES ASSUME NEW n \in Mirror, Runs(w, n), w.ctl.session # n, n # w.task[t].next
                PROVE  \E u \in Task \ {t} : n \in {w.task[u].stops, w.task[u].next}
    BY DEF OwnedBut
  <2>1. PICK u \in Task : n \in {w.task[u].stops, w.task[u].next}
    BY DEF Safe, Owned
  <2>2. n # w.task[t].stops
    BY <1>0 DEF Sits, Runs
  <2>. QED  BY <2>1, <2>2
<1>. QED  BY <1>0, <1>1, <1>2 DEF Halting, Sits, Stops, Tasks

LEMMA AtItself ==
    ASSUME NEW w \in Worlds, NEW t \in Task
    PROVE  At(w, t, w.task[t].at) = w
<1>1. w.task[t] = [w.task[t] EXCEPT !.at = w.task[t].at]
  BY Parts DEF Tasks
<1>2. w.task = [w.task EXCEPT ![t] = w.task[t]]
  BY Parts
<1>3. w = [w EXCEPT !.task = w.task]
  BY DEF Worlds
<1>. QED  BY <1>1, <1>2, <1>3 DEF At

LEMMA StopReturnsStep ==
    ASSUME Inv, NEW t \in Task, StopReturns(t)
    PROVE  Inv' /\ Heeds
<1>0. Safe(World) /\ World \in Worlds /\ Sits(World, t) /\ World.task[t] \in Tasks
      /\ HolderSits(World)
  BY Parts DEF Inv, Safe, Base
<1>. DEFINE m == World.task[t].stops
            x == WithLife(World, m, "stopped")
            v == AwaitStops(x, t, x.task[t].at, x.task[t].next, None)
<1>a. "stopped" \in Lives
  BY DEF Lives
<1>1. /\ m \in Mirror /\ World.mirror[m].life \in {"stopping", "stopped"}
      /\ World.task[t].at \in Stops /\ World.ctl.session # m
  BY <1>0, WorldIs, NotNone DEF StopReturns, Sits, Tasks, HolderSits
<1>2. Become(v)
  <2>1. x.task = task
    BY <1>0, <1>1, <1>a, LifeView, WorldIs
  <2>. HIDE DEF x
  <2>2. x = [World EXCEPT !.mirror[task[t].stops].life = "stopped"]
    BY WorldIs DEF WithLife, x
  <2>. QED  BY <2>1, <2>2 DEF StopReturns
<1>3. x.task = World.task /\ x.ctl = World.ctl
  BY <1>0, <1>1, <1>a, LifeView
<1>4. Shifts(World, x)
  BY <1>0, <1>1, LifeShifts DEF Ages
<1>. HIDE DEF x
<1>5. Safe(x) /\ x \in Worlds
  BY <1>0, <1>4, ShiftSafe DEF Shifts
<1>6. Halting(x, t, x.task[t].next, None)
  BY <1>0, <1>1, <1>3, <1>5, NextHalts, WorldIs, NotNone DEF OnAndroid
<1>7. Halting(At(x, t, x.task[t].at), t, x.task[t].next, None)
  BY <1>5, <1>6, AtItself
<1>8. x.task[t].at \in Stops
  BY <1>1, <1>3
<1>9. Safe(v) /\ v.ctl.session = x.ctl.session
  BY <1>5, <1>7, <1>8, AwaitSafe
<1>. HIDE DEF v
<1>. QED  BY <1>2, <1>3, <1>9, StepIs, WorldIs

\* A call whose mirror has been created.
Connecter(k, m) == [k EXCEPT !.at = "connecting", !.mirror = m]

LEMMA ConnecterIs ==
    ASSUME NEW k \in Tasks, NEW m \in Mirror, NEW r, r = Connecter(k, m)
    PROVE  /\ r \in Tasks /\ r.at = "connecting" /\ r.mirror = m
           /\ r.stops = k.stops /\ r.next = k.next /\ r.current = k.current /\ Marked(k, r)
BY DEF Tasks, Connecter, Awaits, Marked

Created(w, t, m) ==
    [w EXCEPT !.mirror[m].life = "connecting",
              !.ctl.iosStarting = m,
              !.task[t].at = "connecting", !.task[t].mirror = m]

StartingOn(w, m) == [w EXCEPT !.ctl.iosStarting = m]

LEMMA StartingOnView ==
    ASSUME NEW w \in Worlds, NEW m \in Mirror \cup {None}, NEW v, v = StartingOn(w, m)
    PROVE  /\ Untold(w, v) /\ Keeps(w.ctl, v.ctl)
BY DEF Worlds, Controller, StartingOn, Untold, Keeps

LEMMA CreatedView ==
    ASSUME NEW w \in Worlds, NEW t \in Task, NEW m \in Mirror, NEW v, v = Created(w, t, m)
    PROVE  /\ v \in Worlds /\ Keeps(w.ctl, v.ctl)
           /\ v.ctl.session = w.ctl.session /\ v.ctl.state = w.ctl.state
           /\ v.mirror[m].life = "connecting" /\ v.mirror[m].watch = w.mirror[m].watch
           /\ Likes(w.mirror[m], v.mirror[m])
           /\ \A n \in Mirror \ {m} : v.mirror[n] = w.mirror[n]
           /\ v.task[t].at = "connecting" /\ v.task[t].mirror = m
           /\ v.task[t].stops = w.task[t].stops /\ v.task[t].next = w.task[t].next
           /\ v.task[t].current = w.task[t].current /\ Marked(w.task[t], v.task[t])
           /\ \A u \in Task \ {t} : v.task[u] = w.task[u]
<1>. DEFINE a == WithLife(w, m, "connecting")
            b == StartingOn(a, m)
            k == Connecter(b.task[t], m)
<1>0. "connecting" \in Lives /\ m \in Mirror \cup {None}
  BY DEF Lives
<1>1. v = WithTask(b, t, k)
  BY DEF Created, WithTask, Connecter, StartingOn, WithLife
<1>2. /\ a \in Worlds /\ a.task = w.task /\ a.ctl = w.ctl
      /\ a.mirror[m].life = "connecting" /\ a.mirror[m].watch = w.mirror[m].watch
      /\ Likes(w.mirror[m], a.mirror[m])
      /\ \A n \in Mirror \ {m} : a.mirror[n] = w.mirror[n]
  BY <1>0, LifeView
<1>. HIDE DEF a
<1>3. Untold(a, b) /\ Keeps(a.ctl, b.ctl)
  BY <1>0, <1>2, StartingOnView
<1>. HIDE DEF b
<1>4. b \in Worlds /\ b.task[t] \in Tasks
  BY <1>3, Parts DEF Untold
<1>5. /\ k \in Tasks /\ k.at = "connecting" /\ k.mirror = m
      /\ k.stops = b.task[t].stops /\ k.next = b.task[t].next
      /\ k.current = b.task[t].current /\ Marked(b.task[t], k)
  BY <1>4, ConnecterIs
<1>. HIDE DEF k
<1>6. /\ v \in Worlds /\ v.ctl = b.ctl /\ v.mirror = b.mirror /\ v.task[t] = k
      /\ \A u \in Task \ {t} : v.task[u] = b.task[u]
  BY <1>1, <1>4, <1>5, TaskExcept
<1>. QED  BY <1>2, <1>3, <1>5, <1>6 DEF Untold

LEMMA CreatedTold ==
    ASSUME NEW w, NEW t \in Task, NEW m \in Mirror, Safe(w), ~w.ctl.disposed, ~OnAndroid(w),
           w.task[t].at = "probing", w.task[t].current, w.mirror[m].life = "none",
           NEW v, v = Created(w, t, m)
    PROVE  Told(v)
<1>0. /\ w \in Worlds /\ None \notin Mirror /\ w.ctl.session \in Mirror \cup {None}
      /\ HolderSits(w)
  BY Parts, NotNone DEF Safe, Base, Controller
<1>1. /\ v \in Worlds /\ Keeps(w.ctl, v.ctl)
      /\ v.ctl.session = w.ctl.session /\ v.ctl.state = w.ctl.state
      /\ \A n \in Mirror \ {m} : v.mirror[n] = w.mirror[n]
      /\ v.task[t].at = "connecting"
      /\ v.task[t].current = w.task[t].current /\ Marked(w.task[t], v.task[t])
      /\ \A u \in Task \ {t} : v.task[u] = w.task[u]
  BY ONLY <1>0, t \in Task, m \in Mirror, v = Created(w, t, m), CreatedView
<1>2. ~OnAndroid(v) /\ ~v.ctl.disposed /\ v.ctl.wanted = w.ctl.wanted
  BY <1>1 DEF Keeps, OnAndroid
<1>3. /\ \A u \in Task : StartTold(w, u)
      /\ Alone(w) /\ HolderTold(w) /\ Answered(w)
  BY DEF Safe, Told
<1>4. \A u \in Task : (Starts(v, u) <=> Starts(w, u)) /\ (Works(v, u) <=> Works(w, u))
  BY <1>1, <1>2 DEF Starts, Works, Ends
<1>5. \A u \in Task : v.task[u].crossed = w.task[u].crossed
                      /\ v.task[u].overtaken = w.task[u].overtaken
  BY <1>1 DEF Marked
<1>6. \A u \in Task : w.task[u].at = "clearing" <=> v.task[u].at = "clearing"
  BY <1>1
<1>7. \A u \in Task : StartTold(v, u)
  BY <1>1, <1>2, <1>3, <1>4, <1>5, <1>6 DEF StartTold
<1>8. Alone(v)
  BY <1>3, <1>4, <1>5 DEF Alone
<1>9. HolderTold(v)
  <2>1. w.ctl.session # None => v.mirror[w.ctl.session] = w.mirror[w.ctl.session]
    BY <1>0, <1>1 DEF HolderSits
  <2>. QED  BY <1>1, <1>2, <1>3, <1>4, <2>1 DEF HolderTold, Keeps
<1>10. Answered(v)
  BY <1>1, <1>3, <1>4 DEF Answered, Says
<1>. QED  BY <1>2, <1>7, <1>8, <1>9, <1>10 DEF Told

\* The iPhone has answered, and its session is created.
LEMMA CreatedSafe ==
    ASSUME NEW w, NEW t \in Task, NEW m \in Mirror, Safe(w), ~w.ctl.disposed, ~OnAndroid(w),
           w.task[t].at = "probing", w.task[t].current, w.mirror[m].life = "none",
           NEW v, v = Created(w, t, m)
    PROVE  Safe(v) /\ v.ctl.session = w.ctl.session
<1>0. /\ w \in Worlds /\ None \notin Mirror /\ w.ctl.session \in Mirror \cup {None}
      /\ HolderSits(w) /\ \A u \in Task : Sits(w, u) /\ w.task[u] \in Tasks
  BY Parts, NotNone DEF Safe, Base, Controller
<1>1. /\ v \in Worlds /\ Keeps(w.ctl, v.ctl)
      /\ v.ctl.session = w.ctl.session
      /\ v.mirror[m].life = "connecting" /\ v.mirror[m].watch = w.mirror[m].watch
      /\ Likes(w.mirror[m], v.mirror[m])
      /\ \A n \in Mirror \ {m} : v.mirror[n] = w.mirror[n]
      /\ v.task[t].at = "connecting" /\ v.task[t].mirror = m
      /\ v.task[t].stops = w.task[t].stops /\ v.task[t].next = w.task[t].next
      /\ v.task[t].current = w.task[t].current
      /\ \A u \in Task \ {t} : v.task[u] = w.task[u]
  BY ONLY <1>0, t \in Task, m \in Mirror, v = Created(w, t, m), CreatedView
<1>2. /\ ~OnAndroid(v) /\ v.ctl.platform = w.ctl.platform /\ v.ctl.disposed = w.ctl.disposed
      /\ v.ctl.wanted = w.ctl.wanted /\ v.ctl.quality = w.ctl.quality
      /\ w.task[t].stops = None /\ w.task[t].next = None
  BY <1>0, <1>1 DEF Keeps, OnAndroid, Sits, Stops
<1>3. Told(v)
  BY CreatedTold
<1>4. HolderSits(v)
  BY <1>0, <1>1, <1>2 DEF HolderSits, Likes
<1>5. Sits(v, t)
  BY <1>0, <1>1, <1>2 DEF Sits, Stops
<1>6. ASSUME NEW u \in Task \ {t}
      PROVE  /\ Sits(w, u) /\ Follows(w.task[u], v.task[u])
             /\ w.task[u].at = "answered" => ~v.ctl.disposed /\ v.ctl.wanted
             /\ Apart(v, t, u)
  <2>1. Sits(w, u) /\ Follows(w.task[u], v.task[u])
    BY <1>0, <1>1, FollowsItself
  <2>2. Apart(w, t, u)
    BY DEF Safe, Base
  <2>3. w.task[u].at = "connecting" => w.task[u].mirror # m
    BY <2>1 DEF Sits
  <2>. QED  BY <1>1, <1>2, <2>1, <2>2, <2>3 DEF Apart, Sits
<1>7. \A a, b \in Task : a # b => Apart(w, a, b)
  BY DEF Safe, Base
<1>8. \A n \in Mirror : Ages(w.mirror[n].life, v.mirror[n].life) \/ w.mirror[n].life = "none"
  BY <1>1, AgesNot
<1>9. Base(v)
  BY <1>0, <1>1, <1>2, <1>4, <1>5, <1>6, <1>7, <1>8, BaseMoves
<1>10. Owned(v)
  <2>1. \A n \in Mirror : Runs(v, n) => Runs(w, n)
    BY <1>1 DEF Runs
  <2>. QED  BY <1>1, <2>1 DEF Safe, Owned
<1>11. Room(v)
  <2>1. t \in Needs(w)
    BY DEF Needs
  <2>2. Spare(w, t)
    BY <1>0, <2>1, NeedIsSpare DEF Safe
  <2>3. Used(v) \subseteq Used(w) \cup {m} /\ Needs(v) \subseteq Needs(w) \ {t}
    BY <1>1 DEF Used, Needs
  <2>. QED  BY <1>0, <1>1, <2>2, <2>3, SpareIsRoom
<1>. QED  BY <1>1, <1>3, <1>9, <1>10, <1>11 DEF Safe

LEMMA ProbedStep ==
    ASSUME Inv, NEW t \in Task, Probed(t)
    PROVE  Inv' /\ Heeds
<1>0. /\ Safe(World) /\ World \in Worlds /\ \A u \in Task : Sits(World, u)
      /\ World.task[t].at = "probing" /\ ~OnAndroid(World)
  BY WorldIs DEF Inv, Safe, Base, Probed, Sits
<1>1. CASE ctl.disposed \/ ~task[t].current
  <2>. DEFINE v == Return(World, t)
  <2>1. Become(v)
    BY <1>1 DEF Probed
  <2>2. /\ v \in Worlds /\ v.ctl = World.ctl /\ v.mirror = World.mirror
        /\ v.task[t] = IdleTask /\ \A u \in Task \ {t} : v.task[u] = World.task[u]
    BY <1>0, ReturnView
  <2>. HIDE DEF v
  <2>3. World.ctl.disposed \/ ~Works(World, t)
    BY <1>0, <1>1, WorldIs DEF Works, Starts, Ends
  <2>4. Quits(World, v, t)
    <3>1. \A n \in Mirror : Rests(World.mirror[n], World.mirror[n])
      BY DEF Rests, Likes, Marked
    <3>. QED  BY <2>2, <2>3, <3>1 DEF Quits, Keeps
  <2>5. Among(World, t)
    BY <1>0 DEF Among, Safe, Base
  <2>6. OwnedBut(World, t, {})
    <3>1. World.task[t].stops = None /\ World.task[t].next = None
      BY <1>0 DEF Sits, Stops
    <3>. QED  BY <1>0, <3>1, NotNone DEF Safe, Owned, OwnedBut
  <2>7. Safe(v)
    BY <2>4, <2>5, <2>6, QuitSafe
  <2>. QED  BY <2>1, <2>2, <2>7, StepIs, WorldIs
<1>2. CASE ~ctl.disposed /\ task[t].current
  <2>. DEFINE m == Fresh(World)
              v == Created(World, t, m)
  <2>1. Become(v)
    BY <1>2 DEF Probed, Created
  <2>2. m \in Mirror /\ World.mirror[m].life = "none"
    <3>1. t \in Needs(World)
      BY <1>0 DEF Needs
    <3>2. Spare(World, t)
      BY <1>0, <3>1, NeedIsSpare DEF Safe
    <3>3. IsFiniteSet(Needs(World) \ {t})
      BY <1>0, Counting, FS_Subset
    <3>4. Cardinality(Needs(World) \ {t}) \in Nat
      BY <3>3, FS_CardinalityType
    <3>5. Cardinality(Used(World)) < MaxMirrors
      BY <1>0, <3>2, <3>4, Counting, MirrorAssumption DEF Spare
    <3>. QED  BY <1>0, <3>5, FreshIs
  <2>. HIDE DEF m
  <2>3. Safe(v) /\ v.ctl.session = World.ctl.session
    BY <1>0, <1>2, <2>2, CreatedSafe, WorldIs
  <2>. HIDE DEF v
  <2>. QED  BY <2>1, <2>3, StepIs, WorldIs
<1>. QED  BY <1>1, <1>2

-----------------------------------------------------------------------------
(* A connection that comes up, or does not.                                *)

Revived(w, t, m) ==
    [w EXCEPT !.mirror[m].life = "live",
              !.mirror[m].overtaken = w.task[t].overtaken,
              !.mirror[m].crossed = w.task[t].crossed,
              !.ctl.iosStarting = IF @ = m THEN None ELSE @]

\* The mirror of a start is live.
LEMMA RevivedView ==
    ASSUME NEW w \in Worlds, NEW t \in Task, NEW m \in Mirror, NEW v, v = Revived(w, t, m)
    PROVE  /\ v \in Worlds /\ v.task = w.task /\ Keeps(w.ctl, v.ctl)
           /\ v.ctl.session = w.ctl.session /\ v.ctl.state = w.ctl.state
           /\ v.mirror[m].life = "live" /\ v.mirror[m].watch = w.mirror[m].watch
           /\ v.mirror[m].quality = w.mirror[m].quality
           /\ Marked(w.task[t], v.mirror[m])
           /\ \A n \in Mirror \ {m} : v.mirror[n] = w.mirror[n]
<1>. DEFINE i == IF w.ctl.iosStarting = m THEN None ELSE w.ctl.iosStarting
            b == StartingOn(w, i)
            k == w.task[t]
            mi == [b.mirror[m] EXCEPT !.life = "live", !.overtaken = k.overtaken,
                                      !.crossed = k.crossed]
<1>0. i \in Mirror \cup {None} /\ k \in Tasks
  BY Parts DEF Controller
<1>1. v = WithMirror(b, m, mi)
  BY DEF Revived, WithMirror, StartingOn
<1>. HIDE DEF i
<1>2. Untold(w, b) /\ Keeps(w.ctl, b.ctl)
  BY <1>0, StartingOnView
<1>. HIDE DEF b, k
<1>3. b \in Worlds /\ b.mirror[m] \in Mirrors
  BY <1>2, Parts DEF Untold
<1>4. /\ mi \in Mirrors /\ mi.life = "live" /\ mi.watch = b.mirror[m].watch
      /\ mi.quality = b.mirror[m].quality /\ Marked(k, mi)
  BY <1>0, <1>3 DEF Mirrors, Tasks, Marked
<1>. HIDE DEF mi
<1>5. /\ v \in Worlds /\ v.ctl = b.ctl /\ v.task = b.task
      /\ v.mirror[m] = mi /\ \A n \in Mirror \ {m} : v.mirror[n] = b.mirror[n]
  BY <1>1, <1>3, <1>4, MirrorExcept
<1>. QED  BY <1>2, <1>4, <1>5 DEF Untold, k

Held(w, m) ==
    [w EXCEPT !.ctl.session = m, !.ctl.state = "running", !.mirror[m].watch = "on"]

SaysRunning(w, m) == [w EXCEPT !.ctl.session = m, !.ctl.state = "running"]

LEMMA RunningView ==
    ASSUME NEW w \in Worlds, NEW m \in Mirror, NEW v, v = SaysRunning(w, m)
    PROVE  /\ v \in Worlds /\ v.mirror = w.mirror /\ v.task = w.task /\ Keeps(w.ctl, v.ctl)
           /\ v.ctl.session = m /\ v.ctl.state = "running"
BY DEF Worlds, Controller, Keeps, SaysRunning

Watching(w, m, watch) == [w EXCEPT !.mirror[m].watch = watch]

Watches == {"off", "on", "settling"}

LEMMA WatchingView ==
    ASSUME NEW w \in Worlds, NEW m \in Mirror, NEW l \in Watches,
           NEW v, v = Watching(w, m, l)
    PROVE  /\ v \in Worlds /\ v.task = w.task /\ v.ctl = w.ctl
           /\ v.mirror[m].life = w.mirror[m].life /\ v.mirror[m].watch = l
           /\ Likes(w.mirror[m], v.mirror[m])
           /\ \A n \in Mirror \ {m} : v.mirror[n] = w.mirror[n]
<1>. DEFINE mi == [w.mirror[m] EXCEPT !.watch = l]
<1>1. /\ mi \in Mirrors /\ mi.watch = l /\ mi.life = w.mirror[m].life
      /\ Likes(w.mirror[m], mi)
  <2>1. w.mirror[m] \in Mirrors
    BY Parts
  <2>. QED  BY <2>1 DEF Mirrors, Likes, Marked, Watches
<1>2. v = WithMirror(w, m, mi)
  BY DEF Watching, WithMirror
<1>. HIDE DEF mi
<1>. QED  BY <1>1, <1>2, MirrorExcept

\* Call t returned, and its mirror m is held.
ComesUp(w, v, t, m) ==
    /\ v \in Worlds /\ Keeps(w.ctl, v.ctl)
    /\ v.ctl.session = m /\ v.ctl.state = "running"
    /\ v.mirror[m].life = "live" /\ v.mirror[m].watch = "on"
    /\ v.mirror[m].quality = w.mirror[m].quality /\ Marked(w.task[t], v.mirror[m])
    /\ \A n \in Mirror \ {m} : v.mirror[n] = w.mirror[n]
    /\ v.task[t] = IdleTask /\ \A u \in Task \ {t} : v.task[u] = w.task[u]

LEMMA ComesUpView ==
    ASSUME NEW w \in Worlds, NEW t \in Task, NEW m \in Mirror,
           NEW v, v = Held(Return(Revived(w, t, m), t), m)
    PROVE  ComesUp(w, v, t, m)
<1>. DEFINE a == Revived(w, t, m)
            b == Return(a, t)
            c == SaysRunning(b, m)
<1>0. "on" \in Watches
  BY DEF Watches
<1>1. v = Watching(c, m, "on")
  BY DEF Held, Watching, SaysRunning
<1>2. /\ a \in Worlds /\ a.task = w.task /\ Keeps(w.ctl, a.ctl)
      /\ a.mirror[m].life = "live" /\ a.mirror[m].quality = w.mirror[m].quality
      /\ Marked(w.task[t], a.mirror[m])
      /\ \A n \in Mirror \ {m} : a.mirror[n] = w.mirror[n]
  BY RevivedView
<1>. HIDE DEF a
<1>3. /\ b \in Worlds /\ b.ctl = a.ctl /\ b.mirror = a.mirror /\ b.task[t] = IdleTask
      /\ \A u \in Task \ {t} : b.task[u] = a.task[u]
  BY <1>2, ReturnView
<1>. HIDE DEF b
<1>4. /\ c \in Worlds /\ c.mirror = b.mirror /\ c.task = b.task /\ Keeps(b.ctl, c.ctl)
      /\ c.ctl.session = m /\ c.ctl.state = "running"
  BY <1>3, RunningView
<1>. HIDE DEF c
<1>5. /\ v \in Worlds /\ v.task = c.task /\ v.ctl = c.ctl
      /\ v.mirror[m].life = c.mirror[m].life /\ v.mirror[m].watch = "on"
      /\ Likes(c.mirror[m], v.mirror[m])
      /\ \A n \in Mirror \ {m} : v.mirror[n] = c.mirror[n]
  BY <1>0, <1>1, <1>4, WatchingView
<1>6. Keeps(w.ctl, v.ctl)
  BY <1>2, <1>3, <1>4, <1>5 DEF Keeps
<1>7. v.mirror[m].quality = w.mirror[m].quality /\ Marked(w.task[t], v.mirror[m])
  BY <1>2, <1>3, <1>4, <1>5 DEF Likes, Marked
<1>. QED  BY <1>2, <1>3, <1>4, <1>5, <1>6, <1>7 DEF ComesUp

\* What a start may count on that nothing keeps from coming up.
LEMMA Counts ==
    ASSUME NEW w, Safe(w), ~w.ctl.disposed, NEW t \in Task, Starts(w, t)
    PROVE  /\ w.ctl.wanted \/ w.task[t].overtaken
           /\ \A u \in Task \ {t} :
                 /\ Starts(w, u) => w.task[u].crossed
                 /\ Works(w, u) => w.task[t].crossed
           /\ w.ctl.session # None => w.mirror[w.ctl.session].crossed
           /\ ~w.task[t].crossed =>
                 /\ OnAndroid(w) => w.ctl.connected
                 /\ OnAndroid(w) /\ w.task[t].at = "connecting" =>
                       w.mirror[w.task[t].mirror].quality = w.ctl.quality
<1>1. StartTold(w, t) /\ Alone(w) /\ HolderTold(w) /\ Works(w, t)
  BY DEF Safe, Told, Works
<1>2. w.ctl.wanted \/ w.task[t].overtaken
  BY <1>1 DEF StartTold
<1>3. \A u \in Task \ {t} : /\ Starts(w, u) => w.task[u].crossed
                            /\ Works(w, u) => w.task[t].crossed
  BY <1>1 DEF Alone
<1>4. w.ctl.session # None => w.mirror[w.ctl.session].crossed
  BY <1>1 DEF HolderTold
<1>5. ~w.task[t].crossed =>
         /\ OnAndroid(w) => w.ctl.connected
         /\ OnAndroid(w) /\ w.task[t].at = "connecting" =>
               w.mirror[w.task[t].mirror].quality = w.ctl.quality
  BY <1>1 DEF StartTold
<1>. QED  BY <1>2, <1>3, <1>4, <1>5

LEMMA ComesUpTold ==
    ASSUME NEW w, NEW t \in Task, NEW m \in Mirror, Safe(w), ~w.ctl.disposed,
           w.task[t].at = "connecting", w.task[t].mirror = m,
           w.mirror[m].life = "connecting", OnAndroid(w) \/ w.task[t].current,
           NEW v, ComesUp(w, v, t, m)
    PROVE  Told(v)
<1>0. /\ w \in Worlds /\ v \in Worlds /\ None \notin Mirror /\ HolderSits(w)
      /\ Starts(w, t) /\ \A u \in Task : StartTold(w, u)
      /\ \A u \in Task : Sits(w, u) /\ w.task[u] \in Tasks
  BY Parts, NotNone DEF Safe, Base, ComesUp, Starts, Told
<1>1. /\ ~v.ctl.disposed /\ v.ctl.wanted = w.ctl.wanted
      /\ v.ctl.connected = w.ctl.connected /\ v.ctl.quality = w.ctl.quality
      /\ (OnAndroid(v) <=> OnAndroid(w)) /\ v.ctl.session = m /\ v.ctl.state = "running"
      /\ v.task[t] = IdleTask /\ \A u \in Task \ {t} : v.task[u] = w.task[u]
  BY DEF ComesUp, Keeps, OnAndroid
<1>2. /\ w.ctl.wanted \/ w.task[t].overtaken
      /\ \A u \in Task \ {t} :
            /\ Starts(w, u) => w.task[u].crossed
            /\ Works(w, u) => w.task[t].crossed
      /\ ~w.task[t].crossed =>
            /\ OnAndroid(w) => w.ctl.connected
            /\ OnAndroid(w) => w.mirror[m].quality = w.ctl.quality
  BY <1>0, Counts
<1>3. ~Works(v, t) /\ ~Starts(v, t)
  BY <1>1, IdleIs DEF Works, Starts, Ends
<1>4. \A u \in Task \ {t} : (Starts(v, u) <=> Starts(w, u)) /\ (Works(v, u) <=> Works(w, u))
  BY <1>1 DEF Works, Starts, Ends
<1>5. ASSUME NEW u \in Task PROVE StartTold(v, u)
  <2>1. CASE u = t
    BY <1>3, <2>1 DEF StartTold
  <2>2. CASE u # t
    BY <1>0, <1>1, <1>2, <1>4, <2>2 DEF StartTold
  <2>. QED  BY <2>1, <2>2
<1>6. Alone(v)
  <2>. SUFFICES ASSUME NEW a \in Task, NEW b \in Task, a # b, Starts(v, a), Works(v, b)
                PROVE  v.task[a].crossed
    BY DEF Alone
  <2>1. a # t
    BY <1>3
  <2>. QED  BY <1>1, <1>2, <1>4, <2>1
<1>7. HolderTold(v)
  <2>1. v.mirror[m].overtaken = w.task[t].overtaken /\ v.mirror[m].crossed = w.task[t].crossed
        /\ v.mirror[m].quality = w.mirror[m].quality
    BY DEF ComesUp, Marked
  <2>2. v.ctl.wanted \/ v.mirror[m].overtaken
    BY <1>1, <1>2, <2>1
  <2>3. ASSUME ~v.mirror[m].crossed
        PROVE  /\ \A u \in Task : ~Works(v, u)
               /\ OnAndroid(v) => v.ctl.connected
               /\ v.mirror[m].quality = v.ctl.quality
    <3>1. \A u \in Task : ~Works(v, u)
      BY <1>2, <1>3, <1>4, <2>1, <2>3
    <3>2. v.mirror[m].quality = v.ctl.quality
      <4>1. CASE OnAndroid(w)
        BY <1>1, <1>2, <2>1, <2>3, <4>1
      <4>2. CASE ~OnAndroid(w)
        <5>1. ~w.mirror[m].quality /\ ~w.ctl.quality
          BY <1>0, <4>2 DEF HolderSits
        <5>2. w.mirror[m].quality \in BOOLEAN /\ w.ctl.quality \in BOOLEAN
          BY <1>0, Parts DEF Mirrors, Controller
        <5>. QED  BY <1>1, <2>1, <5>1, <5>2
      <4>. QED  BY <4>1, <4>2
    <3>. QED  BY <1>1, <1>2, <2>1, <2>3, <3>1, <3>2
  <2>. QED  BY <1>1, <2>2, <2>3 DEF HolderTold
<1>8. Answered(v)
  BY <1>0, <1>1 DEF Answered
<1>. QED  BY <1>1, <1>5, <1>6, <1>7, <1>8 DEF Told

LEMMA ComesUpSafe ==
    ASSUME NEW w, NEW t \in Task, NEW m \in Mirror, Safe(w), ~w.ctl.disposed,
           w.task[t].at = "connecting", w.task[t].mirror = m,
           w.mirror[m].life = "connecting", OnAndroid(w) \/ w.task[t].current,
           NEW v, ComesUp(w, v, t, m)
    PROVE  Safe(v) /\ v.ctl.session = m
           /\ (w.ctl.wanted \/ v.mirror[m].overtaken)
<1>0. /\ w \in Worlds /\ v \in Worlds /\ None \notin Mirror /\ HolderSits(w)
      /\ w.ctl.session \in Mirror \cup {None}
      /\ Starts(w, t) /\ \A u \in Task : Sits(w, u)
  BY Parts, NotNone DEF Safe, Base, ComesUp, Starts, Controller
<1>1. /\ v.ctl.platform = w.ctl.platform /\ v.ctl.disposed = w.ctl.disposed
      /\ v.ctl.wanted = w.ctl.wanted /\ v.ctl.quality = w.ctl.quality
      /\ (OnAndroid(v) <=> OnAndroid(w)) /\ v.ctl.session = m
      /\ v.task[t] = IdleTask /\ \A u \in Task \ {t} : v.task[u] = w.task[u]
  BY DEF ComesUp, Keeps, OnAndroid
<1>2. \A n \in Mirror :
         /\ n # m => v.mirror[n] = w.mirror[n]
         /\ v.mirror[n].quality = w.mirror[n].quality
  BY DEF ComesUp
<1>3. v.mirror[m].life = "live" /\ v.mirror[m].watch = "on"
  BY DEF ComesUp
<1>4. Told(v)
  BY ComesUpTold
<1>5. Base(v)
  <2>1. HolderSits(v)
    BY <1>0, <1>1, <1>2, <1>3 DEF HolderSits
  <2>2. Sits(v, t)
    BY <1>1, IdleIs DEF Sits, Stops
  <2>3. ASSUME NEW u \in Task \ {t}
        PROVE  /\ Sits(w, u) /\ Follows(w.task[u], v.task[u])
               /\ w.task[u].at = "answered" => ~v.ctl.disposed /\ v.ctl.wanted
               /\ Apart(v, t, u)
    <3>1. Sits(w, u) /\ Follows(w.task[u], v.task[u])
      BY <1>0, <1>1, FollowsItself
    <3>2. Apart(v, t, u)
      BY <1>1, IdleIs DEF Apart
    <3>. QED  BY <1>1, <3>1, <3>2 DEF Sits
  <2>4. \A a, b \in Task : a # b => Apart(w, a, b)
    BY DEF Safe, Base
  <2>5. \A n \in Mirror :
           \/ Ages(w.mirror[n].life, v.mirror[n].life)
           \/ /\ w.mirror[n].life = "connecting"
              /\ w.task[t].at = "connecting" /\ w.task[t].mirror = n
    BY <1>2, AgesNot
  <2>. QED  BY <1>0, <1>1, <2>1, <2>2, <2>3, <2>4, <2>5, BaseMoves
<1>6. Owned(v)
  <2>. SUFFICES ASSUME NEW n \in Mirror, Runs(v, n), n # m
                PROVE  \E u \in Task : n \in {v.task[u].stops, v.task[u].next}
    BY <1>1 DEF Owned
  <2>1. Runs(w, n)
    BY <1>2 DEF Runs
  <2>2. w.ctl.session # n
    <3>1. w.ctl.session # None => w.mirror[w.ctl.session].crossed
      BY <1>0, Counts
    <3>. QED  BY <1>0, <2>1, <3>1 DEF Runs
  <2>3. PICK u \in Task : n \in {w.task[u].stops, w.task[u].next}
    BY <2>1, <2>2 DEF Safe, Owned
  <2>4. u # t
    BY <1>0, <2>3 DEF Sits, Stops
  <2>. QED  BY <1>1, <2>3, <2>4
<1>7. Room(v)
  <2>1. Used(v) \subseteq Used(w)
    BY <1>2 DEF Used
  <2>2. Needs(v) \subseteq Needs(w)
    BY <1>1, IdleIs DEF Needs
  <2>. QED  BY <1>0, <2>1, <2>2, RoomStays DEF Safe
<1>8. w.ctl.wanted \/ v.mirror[m].overtaken
  <2>1. w.ctl.wanted \/ w.task[t].overtaken
    BY <1>0, Counts
  <2>. QED  BY <2>1 DEF ComesUp, Marked
<1>. QED  BY <1>1, <1>4, <1>5, <1>6, <1>7, <1>8 DEF Safe

\* A start that comes back after it stopped to count: its mirror is live, and
\* is to be stopped.
Discarded(w, y, t, m) ==
    /\ y \in Worlds /\ Keeps(w.ctl, y.ctl)
    /\ y.ctl.session = w.ctl.session /\ y.ctl.state = w.ctl.state
    /\ y.mirror[m].life = "live" /\ y.mirror[m].watch = w.mirror[m].watch
    /\ y.mirror[m].quality = w.mirror[m].quality
    /\ \A n \in Mirror \ {m} : y.mirror[n] = w.mirror[n]
    /\ y.task[t].at = "discarding" /\ y.task[t].current = w.task[t].current
    /\ \A u \in Task \ {t} : y.task[u] = w.task[u]

LEMMA DiscardedTold ==
    ASSUME NEW w, NEW t \in Task, NEW m \in Mirror, Safe(w), ~w.ctl.disposed, ~OnAndroid(w),
           w.task[t].at = "connecting", ~w.task[t].current, w.ctl.session # m,
           NEW y, Discarded(w, y, t, m)
    PROVE  Told(y)
<1>0. /\ w \in Worlds /\ None \notin Mirror /\ w.ctl.session \in Mirror \cup {None}
  BY Parts, NotNone DEF Safe, Base, Controller
<1>1. /\ ~OnAndroid(y) /\ ~y.ctl.disposed /\ y.ctl.wanted = w.ctl.wanted
      /\ y.ctl.quality = w.ctl.quality /\ y.ctl.session = w.ctl.session
      /\ y.ctl.state = w.ctl.state
      /\ \A u \in Task \ {t} : y.task[u] = w.task[u]
  BY DEF Discarded, Keeps, OnAndroid
<1>2. /\ \A u \in Task : StartTold(w, u)
      /\ Alone(w) /\ HolderTold(w) /\ Answered(w)
  BY DEF Safe, Told
<1>3. ~Works(w, t) /\ ~Works(y, t) /\ ~Starts(w, t) /\ ~Starts(y, t)
  BY <1>1 DEF Works, Starts, Ends, Discarded
<1>4. \A u \in Task : (Starts(y, u) <=> Starts(w, u)) /\ (Works(y, u) <=> Works(w, u))
  BY <1>1, <1>3 DEF Starts, Works, Ends
<1>5. \A u \in Task : StartTold(y, u)
  BY <1>1, <1>2, <1>3, <1>4 DEF StartTold
<1>6. Alone(y)
  <2>. SUFFICES ASSUME NEW a \in Task, NEW b \in Task, a # b, Starts(y, a), Works(y, b)
                PROVE  y.task[a].crossed
    BY DEF Alone
  <2>. QED  BY <1>1, <1>2, <1>3, <1>4 DEF Alone
<1>7. HolderTold(y)
  <2>1. w.ctl.session # None => y.mirror[w.ctl.session] = w.mirror[w.ctl.session]
    BY <1>0 DEF Discarded
  <2>. QED  BY <1>1, <1>2, <1>4, <2>1 DEF HolderTold
<1>8. Answered(y)
  BY <1>1, <1>2, <1>4 DEF Answered, Says
<1>. QED  BY <1>1, <1>5, <1>6, <1>7, <1>8 DEF Told

LEMMA DiscardedHalts ==
    ASSUME NEW w, NEW t \in Task, NEW m \in Mirror, Safe(w),
           w.task[t].at = "connecting", w.task[t].mirror = m,
           w.mirror[m].life = "connecting", ~w.task[t].current,
           w.ctl.disposed \/ ~OnAndroid(w), OnAndroid(w) <=> Android,
           NEW y, Discarded(w, y, t, m)
    PROVE  Halting(y, t, m, None)
<1>0. /\ w \in Worlds /\ y \in Worlds /\ None \notin Mirror /\ HolderSits(w)
      /\ w.ctl.session \in Mirror \cup {None} /\ w.ctl.session # m
      /\ \A u \in Task : Sits(w, u)
  BY Parts, NotNone DEF Safe, Base, Controller, Discarded, HolderSits
<1>1. /\ y.ctl.platform = w.ctl.platform /\ (OnAndroid(y) <=> OnAndroid(w))
      /\ y.ctl.disposed = w.ctl.disposed /\ y.ctl.wanted = w.ctl.wanted
      /\ y.ctl.quality = w.ctl.quality /\ y.ctl.session = w.ctl.session
  BY DEF Discarded, Keeps, OnAndroid
<1>2. \A n \in Mirror :
         /\ n # m => y.mirror[n] = w.mirror[n]
         /\ y.mirror[n].quality = w.mirror[n].quality
         /\ y.mirror[n].watch = w.mirror[n].watch
  BY DEF Discarded
<1>3. y.mirror[m].life = "live" /\ y.task[t].at = "discarding" /\ ~y.task[t].current
      /\ \A u \in Task \ {t} : y.task[u] = w.task[u]
  BY DEF Discarded
<1>4. HolderSits(y)
  BY <1>0, <1>1, <1>2 DEF HolderSits
<1>5. ASSUME NEW u \in Task \ {t} PROVE Sits(y, u)
  <2>1. Follows(w.task[u], y.task[u])
    BY <1>3, FollowsItself
  <2>2. Apart(w, t, u)
    BY DEF Safe, Base
  <2>3. ~(w.task[u].at = "connecting" /\ w.task[u].mirror = m)
    BY <2>2 DEF Apart
  <2>4. \A n \in Mirror : \/ Ages(w.mirror[n].life, y.mirror[n].life)
                          \/ /\ w.mirror[n].life = "connecting"
                             /\ ~(w.task[u].at = "connecting" /\ w.task[u].mirror = n)
    BY <1>2, <2>3, AgesNot
  <2>5. w.task[u].at = "answered" => ~y.ctl.disposed /\ y.ctl.wanted
    BY <1>0, <1>1 DEF Sits
  <2>. QED  BY <1>0, <1>1, <2>1, <2>4, <2>5, OtherSits
<1>6. \A a, b \in Task : a # b => Apart(y, a, b)
  <2>1. \A a, b \in Task : a # b => Apart(w, a, b)
    BY DEF Safe, Base
  <2>. QED  BY <1>3, <2>1 DEF Apart
<1>7. Told(y)
  <2>1. CASE w.ctl.disposed
    <3>1. w.ctl.session = None /\ \A u \in Task : ~w.task[u].current
      BY <2>1 DEF Safe, Told
    <3>. QED  BY <1>1, <1>3, <2>1, <3>1 DEF Told
  <2>2. CASE ~w.ctl.disposed
    BY <1>0, <2>2, DiscardedTold
  <2>. QED  BY <2>1, <2>2
<1>8. Room(y)
  <2>1. Used(y) \subseteq Used(w) /\ Needs(y) \subseteq Needs(w)
    BY <1>2, <1>3 DEF Used, Needs
  <2>. QED  BY <1>0, <2>1, RoomStays DEF Safe
<1>9. OwnedBut(y, t, {m, None})
  <2>. SUFFICES ASSUME NEW n \in Mirror, Runs(y, n), y.ctl.session # n, n # m
                PROVE  \E u \in Task \ {t} : n \in {y.task[u].stops, y.task[u].next}
    BY DEF OwnedBut
  <2>1. Runs(w, n) /\ w.ctl.session # n
    BY <1>1, <1>2 DEF Runs
  <2>2. PICK u \in Task : n \in {w.task[u].stops, w.task[u].next}
    BY <2>1 DEF Safe, Owned
  <2>3. u # t
    BY <1>0, <2>2 DEF Sits, Stops
  <2>. QED  BY <1>3, <2>2, <2>3
<1>10. Among(y, t)
  BY <1>0, <1>4, <1>5, <1>6, <1>7, <1>8 DEF Among
<1>. QED  BY <1>0, <1>1, <1>3, <1>9, <1>10 DEF Halting, Stops

\* A start of an iPhone that failed stops what it had begun.
LEMMA FailingHalts ==
    ASSUME NEW w, NEW t \in Task, NEW m \in Mirror, Safe(w),
           w.task[t].at = "connecting", w.task[t].mirror = m, ~OnAndroid(w),
           OnAndroid(w) <=> Android, NEW y, y = At(w, t, "failing")
    PROVE  Halting(y, t, m, None)
<1>0. /\ w \in Worlds /\ None \notin Mirror /\ HolderSits(w)
      /\ w.ctl.session \in Mirror \cup {None} /\ w.ctl.session # m
      /\ \A u \in Task : Sits(w, u)
  <2>1. Sits(w, t) /\ HolderSits(w)
    BY DEF Safe, Base
  <2>2. w.ctl.session # m
    BY <2>1 DEF Sits, HolderSits
  <2>. QED  BY <2>2, Parts, NotNone DEF Safe, Base, Controller
<1>a. "failing" \in Awaits
  BY DEF Awaits
<1>1. /\ y \in Worlds /\ y.ctl = w.ctl /\ y.mirror = w.mirror
      /\ y.task[t].at = "failing" /\ y.task[t].current = w.task[t].current
      /\ Marked(w.task[t], y.task[t])
      /\ \A u \in Task \ {t} : y.task[u] = w.task[u]
  BY <1>0, <1>a, AtView
<1>2. OnAndroid(y) <=> OnAndroid(w)
  BY <1>1 DEF OnAndroid
<1>3. HolderSits(y)
  BY <1>0, <1>1, <1>2 DEF HolderSits
<1>4. ASSUME NEW u \in Task \ {t} PROVE Sits(y, u)
  BY <1>0, <1>1, <1>2, <1>4 DEF Sits
<1>5. \A a, b \in Task : a # b => Apart(y, a, b)
  <2>1. \A a, b \in Task : a # b => Apart(w, a, b)
    BY DEF Safe, Base
  <2>. QED  BY <1>1, <2>1 DEF Apart
<1>6. Told(y)
  <2>1. CASE w.ctl.disposed
    <3>1. w.ctl.session = None /\ \A u \in Task : ~w.task[u].current
      BY <2>1 DEF Safe, Told
    <3>. QED  BY <1>1, <2>1, <3>1 DEF Told
  <2>2. CASE ~w.ctl.disposed
    <3>1. /\ \A u \in Task : StartTold(w, u)
          /\ Alone(w) /\ HolderTold(w) /\ Answered(w)
      BY <2>2 DEF Safe, Told
    <3>2. \A u \in Task : (Starts(y, u) <=> Starts(w, u)) /\ (Works(y, u) <=> Works(w, u))
      BY <1>1, <1>2 DEF Starts, Works, Ends
    <3>3. \A u \in Task : /\ y.task[u].crossed = w.task[u].crossed
                          /\ y.task[u].overtaken = w.task[u].overtaken
                          /\ y.task[u].at = "clearing" <=> w.task[u].at = "clearing"
      BY <1>1 DEF Marked
    <3>4. \A u \in Task : StartTold(y, u)
      BY <1>1, <1>2, <3>1, <3>2, <3>3 DEF StartTold
    <3>5. Alone(y)
      BY <3>1, <3>2, <3>3 DEF Alone
    <3>6. HolderTold(y)
      BY <1>1, <1>2, <3>1, <3>2 DEF HolderTold
    <3>7. Answered(y)
      BY <1>1, <3>1, <3>2 DEF Answered, Says
    <3>. QED  BY <1>1, <2>2, <3>4, <3>5, <3>6, <3>7 DEF Told
  <2>. QED  BY <2>1, <2>2
<1>7. Room(y)
  <2>1. Used(y) \subseteq Used(w) /\ Needs(y) \subseteq Needs(w)
    BY <1>1 DEF Used, Needs
  <2>. QED  BY <1>0, <1>1, <2>1, RoomStays DEF Safe
<1>8. OwnedBut(y, t, {m, None})
  <2>. SUFFICES ASSUME NEW n \in Mirror, Runs(y, n), y.ctl.session # n
                PROVE  \E u \in Task \ {t} : n \in {y.task[u].stops, y.task[u].next}
    BY DEF OwnedBut
  <2>1. Runs(w, n) /\ w.ctl.session # n
    BY <1>1 DEF Runs
  <2>2. PICK u \in Task : n \in {w.task[u].stops, w.task[u].next}
    BY <2>1 DEF Safe, Owned
  <2>3. u # t
    BY <1>0, <2>2 DEF Sits, Stops
  <2>. QED  BY <1>1, <2>2, <2>3
<1>9. Among(y, t)
  BY <1>1, <1>3, <1>4, <1>5, <1>6, <1>7 DEF Among
<1>. QED  BY <1>0, <1>1, <1>2, <1>8, <1>9 DEF Halting, Stops

\* scrcpy has taken down the mirror of a start that failed.
Fallen(w, t, m) ==
    [Return(w, t) EXCEPT !.mirror[m].life = "stopped", !.ctl.state = "error"]

SaysError(w) == [w EXCEPT !.ctl.state = "error"]

LEMMA ErrorView ==
    ASSUME NEW w \in Worlds, NEW v, v = SaysError(w)
    PROVE  /\ v \in Worlds /\ v.mirror = w.mirror /\ v.task = w.task /\ Keeps(w.ctl, v.ctl)
           /\ v.ctl.session = w.ctl.session /\ v.ctl.state = "error"
BY DEF Worlds, Controller, Keeps, SaysError

LEMMA FallenSafe ==
    ASSUME NEW w, NEW t \in Task, NEW m \in Mirror, Safe(w),
           w.task[t].at = "connecting", w.task[t].mirror = m, OnAndroid(w),
           NEW v, v = Fallen(w, t, m)
    PROVE  Safe(v) /\ v.ctl.session = w.ctl.session
<1>. DEFINE a == Return(w, t)
            b == WithLife(a, m, "stopped")
<1>0. /\ w \in Worlds /\ None \notin Mirror /\ Sits(w, t) /\ "stopped" \in Lives
  BY NotNone DEF Safe, Base, Lives
<1>1. v = SaysError(b)
  BY DEF Fallen, WithLife, SaysError
<1>2. /\ a \in Worlds /\ a.ctl = w.ctl /\ a.mirror = w.mirror /\ a.task[t] = IdleTask
      /\ \A u \in Task \ {t} : a.task[u] = w.task[u]
  BY <1>0, ReturnView
<1>. HIDE DEF a
<1>3. /\ b \in Worlds /\ b.task = a.task /\ b.ctl = a.ctl
      /\ b.mirror[m].life = "stopped" /\ b.mirror[m].watch = a.mirror[m].watch
      /\ Likes(a.mirror[m], b.mirror[m])
      /\ \A n \in Mirror \ {m} : b.mirror[n] = a.mirror[n]
  BY <1>0, <1>2, LifeView
<1>. HIDE DEF b
<1>4. /\ v \in Worlds /\ v.mirror = b.mirror /\ v.task = b.task /\ Keeps(b.ctl, v.ctl)
      /\ v.ctl.session = b.ctl.session /\ v.ctl.state = "error"
  BY <1>1, <1>3, ErrorView
<1>5. w.mirror[m].life \in {"connecting", "stopping", "stopped"}
  BY <1>0 DEF Sits
<1>6. ASSUME NEW n \in Mirror PROVE Rests(w.mirror[n], v.mirror[n])
  <2>1. CASE n = m
    BY <1>2, <1>3, <1>4, <1>5, <2>1 DEF Rests, Likes
  <2>2. CASE n # m
    BY <1>2, <1>3, <1>4, <2>2 DEF Rests, Likes, Marked
  <2>. QED  BY <2>1, <2>2
<1>7. Works(w, t)
  BY DEF Works, Starts
<1>8. Quits(w, v, t)
  BY <1>2, <1>3, <1>4, <1>6, <1>7 DEF Quits
<1>9. Among(w, t)
  BY <1>0 DEF Among, Safe, Base
<1>10. OwnedBut(w, t, {})
  <2>1. w.task[t].stops = None /\ w.task[t].next = None
    BY <1>0 DEF Sits, Stops
  <2>. QED  BY <1>0, <2>1 DEF Safe, Owned, OwnedBut
<1>. QED  BY <1>8, <1>9, <1>10, QuitSafe DEF Quits

\* The world in which a start that stopped to count has its mirror.
LEMMA RevivedIsDiscarded ==
    ASSUME NEW w \in Worlds, NEW t \in Task, NEW m \in Mirror,
           NEW y, y = At(Revived(w, t, m), t, "discarding")
    PROVE  Discarded(w, y, t, m)
<1>. DEFINE x == Revived(w, t, m)
<1>1. /\ x \in Worlds /\ x.task = w.task /\ Keeps(w.ctl, x.ctl)
      /\ x.ctl.session = w.ctl.session /\ x.ctl.state = w.ctl.state
      /\ x.mirror[m].life = "live" /\ x.mirror[m].watch = w.mirror[m].watch
      /\ x.mirror[m].quality = w.mirror[m].quality
      /\ \A n \in Mirror \ {m} : x.mirror[n] = w.mirror[n]
  BY RevivedView
<1>2. "discarding" \in Awaits
  BY DEF Awaits
<1>. HIDE DEF x
<1>3. /\ y \in Worlds /\ y.ctl = x.ctl /\ y.mirror = x.mirror
      /\ y.task[t].at = "discarding" /\ y.task[t].current = x.task[t].current
      /\ \A u \in Task \ {t} : y.task[u] = x.task[u]
  <2>1. y = At(x, t, "discarding")
    BY DEF x
  <2>. QED  BY <1>1, <1>2, <2>1, AtView
<1>. QED  BY <1>1, <1>3 DEF Discarded

LEMMA ConnectionReturnsStep ==
    ASSUME Inv, NEW t \in Task, NEW succeeds \in BOOLEAN, ConnectionReturns(t, succeeds)
    PROVE  Inv' /\ Heeds
<1>. DEFINE m == World.task[t].mirror
<1>0. /\ Safe(World) /\ World \in Worlds /\ Sits(World, t) /\ None \notin Mirror
      /\ World.task[t].at = "connecting" /\ m \in Mirror
      /\ (OnAndroid(World) <=> Android)
  <2>1. Sits(World, t) /\ World.task[t] \in Tasks /\ World.task[t].at = "connecting"
    BY WorldIs, Parts DEF Inv, Safe, Base, ConnectionReturns
  <2>2. m \in Mirror
    BY <2>1, NotNone DEF Sits, Tasks
  <2>. QED  BY <2>1, <2>2, WorldIs, NotNone DEF Inv, Safe, Base
<1>1. CASE succeeds
  <2>1. World.mirror[m].life = "connecting" /\ Become(Connected(World, t, m))
    BY <1>1, WorldIs DEF ConnectionReturns
  <2>2. CASE World.ctl.disposed \/ (~Android /\ ~World.task[t].current)
    <3>. DEFINE x == Revived(World, t, m)
                y == At(x, t, "discarding")
                v == AwaitStops(x, t, "discarding", m, None)
    <3>1. Become(v)
      BY <2>1, <2>2 DEF Connected, Revived
    <3>2. ~World.task[t].current
      BY <1>0, <2>2 DEF Safe, Told
    <3>. HIDE DEF m
    <3>3. Discarded(World, y, t, m)
      BY <1>0, RevivedIsDiscarded
    <3>4. x \in Worlds /\ x.ctl.session = World.ctl.session
      BY <1>0, RevivedView
    <3>. HIDE DEF x
    <3>5. Halting(y, t, m, None)
      <4>1. World.task[t].mirror = m
        BY DEF m
      <4>. HIDE DEF y
      <4>. QED  BY <1>0, <2>1, <2>2, <3>2, <3>3, <4>1, DiscardedHalts
    <3>6. "discarding" \in Stops
      BY DEF Stops
    <3>7. Safe(v) /\ v.ctl.session = x.ctl.session
      BY <3>4, <3>5, <3>6, AwaitSafe
    <3>. HIDE DEF v
    <3>. QED  BY <3>1, <3>4, <3>7, StepIs, WorldIs
  <2>3. CASE ~(World.ctl.disposed \/ (~Android /\ ~World.task[t].current))
    <3>. DEFINE v == Held(Return(Revived(World, t, m), t), m)
    <3>1. Become(v)
      BY <2>1, <2>3 DEF Connected, Revived, Held
    <3>2. World.task[t].mirror = m
      OBVIOUS
    <3>. HIDE DEF m
    <3>3. ComesUp(World, v, t, m)
      BY <1>0, ComesUpView
    <3>. HIDE DEF v
    <3>4. Safe(v) /\ v.ctl.session = m /\ (World.ctl.wanted \/ v.mirror[m].overtaken)
      BY <1>0, <2>1, <2>3, <3>2, <3>3, ComesUpSafe
    <3>. QED  BY <3>1, <3>4, StepIs, WorldIs
  <2>. QED  BY <2>2, <2>3
<1>2. CASE ~succeeds
  <2>1. Become(ConnectionFailed(World, t, m))
    BY <1>2, WorldIs DEF ConnectionReturns
  <2>2. CASE Android
    <3>. DEFINE v == Fallen(World, t, m)
    <3>1. Become(v)
      BY <2>1, <2>2 DEF ConnectionFailed, Fallen
    <3>2. World.task[t].mirror = m
      OBVIOUS
    <3>. HIDE DEF m
    <3>3. Safe(v) /\ v.ctl.session = World.ctl.session
      BY <1>0, <2>2, <3>2, FallenSafe
    <3>. HIDE DEF v
    <3>. QED  BY <3>1, <3>3, StepIs, WorldIs
  <2>3. CASE ~Android
    <3>. DEFINE v == AwaitStops(World, t, "failing", m, None)
    <3>1. Become(v)
      BY <2>1, <2>3 DEF ConnectionFailed
    <3>2. World.task[t].mirror = m /\ "failing" \in Stops
      BY DEF Stops
    <3>. HIDE DEF m
    <3>3. Halting(At(World, t, "failing"), t, m, None)
      BY <1>0, <2>3, <3>2, FailingHalts
    <3>4. Safe(v) /\ v.ctl.session = World.ctl.session
      BY <1>0, <3>2, <3>3, AwaitSafe
    <3>. HIDE DEF v
    <3>. QED  BY <3>1, <3>4, StepIs, WorldIs
  <2>. QED  BY <2>2, <2>3
<1>. QED  BY <1>1, <1>2

-----------------------------------------------------------------------------
(* The watchers of a mirror.                                               *)

Restarted(w, n) == [w EXCEPT !.ctl.restarts = n]
LettingGo(w)    == [w EXCEPT !.ctl.session = None]

LEMMA RestartedView ==
    ASSUME NEW w \in Worlds, NEW n \in 0..MaxAutoRestarts, NEW v, v = Restarted(w, n)
    PROVE  /\ v \in Worlds /\ v.task = w.task /\ v.mirror = w.mirror /\ Keeps(w.ctl, v.ctl)
           /\ v.ctl.session = w.ctl.session /\ v.ctl.state = w.ctl.state
BY DEF Restarted, Worlds, Controller, Keeps

LEMMA LettingGoView ==
    ASSUME NEW w \in Worlds, NEW v, v = LettingGo(w)
    PROVE  /\ v \in Worlds /\ v.task = w.task /\ v.mirror = w.mirror /\ Keeps(w.ctl, v.ctl)
           /\ v.ctl.session = None /\ v.ctl.state = w.ctl.state
BY DEF LettingGo, Worlds, Controller, Keeps

\* Whether a mirror is watched, and how often it was restarted, is no call's
\* business.
Watched(w, x, m) ==
    /\ x \in Worlds /\ x.task = w.task /\ Keeps(w.ctl, x.ctl)
    /\ x.ctl.session = w.ctl.session /\ x.ctl.state = w.ctl.state
    /\ x.mirror[m].life = w.mirror[m].life /\ Likes(w.mirror[m], x.mirror[m])
    /\ x.mirror[m].watch = "settling" => OnAndroid(w)
    /\ x.mirror[m].watch = "on" => OnAndroid(w)
    /\ \A n \in Mirror \ {m} : x.mirror[n] = w.mirror[n]

LEMMA WatchedShifts ==
    ASSUME NEW w, Safe(w), NEW m \in Mirror, NEW x, Watched(w, x, m)
    PROVE  Shifts(w, x)
<1>0. w \in Worlds /\ x \in Worlds
  BY DEF Safe, Base, Watched
<1>1. ASSUME NEW n \in Mirror
      PROVE  /\ x.mirror[n].life = w.mirror[n].life /\ Likes(w.mirror[n], x.mirror[n])
             /\ OnAndroid(w) \/ x.mirror[n].watch \in {"off", w.mirror[n].watch}
  <2>1. CASE n = m
    <3>1. x.mirror[m].watch \in {"off", "on", "settling"}
      BY <1>0, Parts DEF Mirrors
    <3>. QED  BY <2>1, <3>1 DEF Watched
  <2>2. CASE n # m
    BY <2>2 DEF Watched, Likes, Marked
  <2>. QED  BY <2>1, <2>2
<1>2. Room(x)
  <2>1. Used(x) = Used(w) /\ Needs(x) = Needs(w)
    BY <1>1 DEF Used, Needs, Watched
  <2>. QED  BY <1>0, <2>1, RoomStays DEF Safe
<1>3. Keeping(w, x)
  <2>1. w.ctl.session # None => w.mirror[w.ctl.session].life = "live"
    BY DEF Safe, Base, HolderSits
  <2>2. w.ctl.session \in Mirror \cup {None}
    BY <1>0, Parts DEF Controller
  <2>. QED  BY <1>1, <2>1, <2>2 DEF Keeping, Watched
<1>4. \A n \in Mirror : Ages(w.mirror[n].life, x.mirror[n].life)
  BY <1>1, AgesNot
<1>. QED  BY <1>0, <1>1, <1>2, <1>3, <1>4 DEF Shifts, Watched, Keeps

\* The mirror that was held is given up.
GivenUp(w, x, m) ==
    /\ x \in Worlds /\ x.task = w.task /\ Keeps(w.ctl, x.ctl)
    /\ x.ctl.session = None /\ x.ctl.state = w.ctl.state
    /\ x.mirror[m].watch = "off"
    /\ x.mirror[m].life = w.mirror[m].life /\ Likes(w.mirror[m], x.mirror[m])
    /\ \A n \in Mirror \ {m} : x.mirror[n] = w.mirror[n]

LEMMA GivenUpTold ==
    ASSUME NEW w, Safe(w), ~w.ctl.disposed, NEW t \in Task, w.task[t].at = "idle",
           w.ctl.session # None, NEW y,
           y.task[t].at = "givingUp", y.task[t].current = w.task[t].current,
           \A u \in Task \ {t} : y.task[u] = w.task[u],
           Keeps(w.ctl, y.ctl), y.ctl.session = None
    PROVE  Told(y)
<1>1. /\ \A u \in Task : StartTold(w, u)
      /\ Sits(w, t)
  BY DEF Safe, Told, Base
<1>2. ~y.ctl.disposed /\ y.ctl.wanted = w.ctl.wanted /\ (OnAndroid(y) <=> OnAndroid(w))
  BY DEF Keeps, OnAndroid
<1>3. ~Starts(y, t)
  BY <1>1 DEF Starts, Sits
<1>4. \A u \in Task \ {t} : Starts(y, u) <=> Starts(w, u)
  BY <1>2 DEF Starts
<1>5. \A u \in Task \ {t} :
         Starts(w, u) => w.task[u].crossed /\ (w.ctl.wanted \/ w.task[u].overtaken)
  BY <1>1 DEF StartTold
<1>6. \A u \in Task : StartTold(y, u)
  BY <1>2, <1>3, <1>4, <1>5 DEF StartTold
<1>7. Alone(y)
  BY <1>3, <1>4, <1>5 DEF Alone
<1>8. HolderTold(y)
  BY DEF HolderTold
<1>9. Answered(y)
  BY DEF Answered, Works, Ends
<1>. QED  BY <1>2, <1>6, <1>7, <1>8, <1>9 DEF Told

LEMMA GivenUpHalts ==
    ASSUME NEW w, Safe(w), ~w.ctl.disposed, NEW t \in Task, w.task[t].at = "idle",
           NEW m \in Mirror, w.ctl.session = m, OnAndroid(w) <=> Android,
           NEW x, GivenUp(w, x, m), NEW y, y = At(x, t, "givingUp")
    PROVE  Halting(y, t, m, None)
<1>0. /\ w \in Worlds /\ x \in Worlds /\ None \notin Mirror /\ HolderSits(w)
      /\ "givingUp" \in Awaits /\ \A u \in Task : Sits(w, u)
  BY NotNone DEF Safe, Base, GivenUp, Awaits
<1>1. /\ y \in Worlds /\ y.ctl = x.ctl /\ y.mirror = x.mirror
      /\ y.task[t].at = "givingUp" /\ y.task[t].current = x.task[t].current
      /\ \A u \in Task \ {t} : y.task[u] = x.task[u]
  BY <1>0, AtView
<1>2. /\ Keeps(w.ctl, y.ctl) /\ y.ctl.session = None
      /\ y.ctl.platform = w.ctl.platform /\ (OnAndroid(y) <=> OnAndroid(w))
      /\ y.ctl.quality = w.ctl.quality
      /\ y.ctl.disposed = w.ctl.disposed /\ y.ctl.wanted = w.ctl.wanted
      /\ y.task[t].current = w.task[t].current
      /\ \A u \in Task \ {t} : y.task[u] = w.task[u]
  BY <1>1 DEF GivenUp, Keeps, OnAndroid
<1>3. ASSUME NEW n \in Mirror
      PROVE  /\ y.mirror[n].life = w.mirror[n].life
             /\ y.mirror[n].quality = w.mirror[n].quality
             /\ y.mirror[n].watch \in {"off", w.mirror[n].watch}
             /\ Runs(y, n) => Runs(w, n)
  <2>1. CASE n = m
    BY <1>1, <2>1 DEF GivenUp, Likes, Marked, Runs
  <2>2. CASE n # m
    BY <1>1, <2>2 DEF GivenUp, Runs
  <2>. QED  BY <2>1, <2>2
<1>4. HolderSits(y)
  BY <1>0, <1>2, <1>3 DEF HolderSits
<1>5. ~y.task[t].current /\ w.task[t].stops = None /\ w.task[t].next = None
  BY <1>0, <1>2 DEF Sits, Stops
<1>6. ASSUME NEW u \in Task \ {t} PROVE Sits(y, u)
  <2>1. Follows(w.task[u], y.task[u])
    BY <1>2, FollowsItself
  <2>2. \A n \in Mirror : Ages(w.mirror[n].life, y.mirror[n].life)
    BY <1>3, AgesNot
  <2>3. w.task[u].at = "answered" => ~y.ctl.disposed /\ y.ctl.wanted
    BY <1>0, <1>2 DEF Sits
  <2>. QED  BY <1>0, <1>1, <1>2, <2>1, <2>2, <2>3, OtherSits
<1>7. \A a, b \in Task : a # b => Apart(y, a, b)
  <2>1. \A a, b \in Task : a # b => Apart(w, a, b)
    BY DEF Safe, Base
  <2>. QED  BY <1>1, <1>2, <1>5, <2>1 DEF Apart
<1>8. Told(y)
  BY <1>0, <1>1, <1>2, GivenUpTold
<1>9. Room(y)
  <2>1. Used(y) = Used(w) /\ Needs(y) \subseteq Needs(w)
    BY <1>1, <1>2, <1>3 DEF Used, Needs
  <2>. QED  BY <1>0, <1>1, <2>1, RoomStays DEF Safe
<1>10. OwnedBut(y, t, {m, None})
  <2>. SUFFICES ASSUME NEW n \in Mirror, Runs(y, n), n # m
                PROVE  \E u \in Task \ {t} : n \in {y.task[u].stops, y.task[u].next}
    BY DEF OwnedBut
  <2>1. Runs(w, n) /\ w.ctl.session # n
    BY <1>3
  <2>2. PICK u \in Task : n \in {w.task[u].stops, w.task[u].next}
    BY <2>1 DEF Safe, Owned
  <2>3. u # t
    BY <1>0, <1>5, <2>2
  <2>. QED  BY <1>2, <2>2, <2>3
<1>11. Among(y, t)
  BY <1>1, <1>4, <1>6, <1>7, <1>8, <1>9 DEF Among
<1>. QED  BY <1>0, <1>1, <1>2, <1>5, <1>10, <1>11 DEF Halting, Stops

\* What the controller does when it gives up the mirror it holds.
LEMMA GivesUp ==
    ASSUME Inv, NEW t \in Task, Call(t), NEW m \in Mirror, Holds(m),
           NEW x, GivenUp(World, x, m), Become(AwaitStops(x, t, "givingUp", m, None))
    PROVE  Inv' /\ Heeds
<1>. DEFINE v == AwaitStops(x, t, "givingUp", m, None)
<1>1. /\ World.task[t].at = "idle" /\ Safe(World) /\ ~World.ctl.disposed
      /\ World.ctl.session = m /\ (OnAndroid(World) <=> Android)
  BY CallFinds, WorldIs DEF Inv, Holds
<1>2. Halting(At(x, t, "givingUp"), t, m, None)
  BY <1>1, GivenUpHalts
<1>3. "givingUp" \in Stops /\ x \in Worlds /\ x.ctl.session = None
  BY DEF Stops, GivenUp
<1>4. Safe(v) /\ v.ctl.session = x.ctl.session
  BY <1>2, <1>3, AwaitSafe
<1>. HIDE DEF v
<1>5. Become(v)
  BY DEF v
<1>. QED  BY <1>3, <1>4, <1>5, StepIs

LEMMA UnwatchedIs ==
    ASSUME NEW w \in Worlds, NEW m \in Mirror, NEW x, x = Watching(w, m, "off")
    PROVE  Watched(w, x, m) /\ x.ctl = w.ctl /\ x.mirror[m].watch = "off"
<1>1. "off" \in Watches
  BY DEF Watches
<1>2. /\ x \in Worlds /\ x.task = w.task /\ x.ctl = w.ctl
      /\ x.mirror[m].life = w.mirror[m].life /\ x.mirror[m].watch = "off"
      /\ Likes(w.mirror[m], x.mirror[m])
      /\ \A n \in Mirror \ {m} : x.mirror[n] = w.mirror[n]
  BY <1>1, WatchingView
<1>. QED  BY <1>2 DEF Watched, Keeps

LEMMA RestartedIsWatched ==
    ASSUME NEW w, NEW m \in Mirror, NEW x, Watched(w, x, m),
           NEW n \in 0..MaxAutoRestarts, NEW z, z = Restarted(x, n)
    PROVE  Watched(w, z, m) /\ z.mirror = x.mirror
<1>1. x \in Worlds
  BY DEF Watched
<1>2. /\ z \in Worlds /\ z.task = x.task /\ z.mirror = x.mirror /\ Keeps(x.ctl, z.ctl)
      /\ z.ctl.session = x.ctl.session /\ z.ctl.state = x.ctl.state
  BY <1>1, RestartedView
<1>. QED  BY <1>2 DEF Watched, Keeps

LEMMA SettlingIsWatched ==
    ASSUME NEW w, NEW m \in Mirror, NEW x, Watched(w, x, m), OnAndroid(w),
           NEW z, z = Watching(x, m, "settling")
    PROVE  Watched(w, z, m)
<1>1. "settling" \in Watches /\ x \in Worlds
  BY DEF Watches, Watched
<1>2. /\ z \in Worlds /\ z.task = x.task /\ z.ctl = x.ctl
      /\ z.mirror[m].life = x.mirror[m].life
      /\ Likes(x.mirror[m], z.mirror[m])
      /\ \A n \in Mirror \ {m} : z.mirror[n] = x.mirror[n]
  BY <1>1, WatchingView
<1>3. Likes(w.mirror[m], z.mirror[m])
  BY <1>2 DEF Watched, Likes, Marked
<1>. QED  BY <1>2, <1>3 DEF Watched

LEMMA GivenUpIs ==
    ASSUME NEW w, NEW m \in Mirror, NEW x, Watched(w, x, m), x.mirror[m].watch = "off",
           NEW z, z = LettingGo(x)
    PROVE  GivenUp(w, z, m)
<1>1. x \in Worlds
  BY DEF Watched
<1>2. /\ z \in Worlds /\ z.task = x.task /\ z.mirror = x.mirror /\ Keeps(x.ctl, z.ctl)
      /\ z.ctl.session = None /\ z.ctl.state = x.ctl.state
  BY <1>1, LettingGoView
<1>. QED  BY <1>2 DEF Watched, GivenUp, Keeps

LEMMA StreamEndsStep ==
    ASSUME Inv, NEW m \in Mirror, NEW t \in Task, NEW long \in BOOLEAN, StreamEnds(m, t, long)
    PROVE  Inv' /\ Heeds
<1>. DEFINE restarts == IF long THEN 0 ELSE World.ctl.restarts
            off == Watching(World, m, "off")
            x   == Restarted(off, restarts)
<1>0. Safe(World) /\ World \in Worlds /\ OnAndroid(World) /\ Call(t)
  BY WorldIs DEF Inv, Safe, Base, StreamEnds
<1>1. restarts \in 0..MaxAutoRestarts
  BY <1>0, Parts, MirrorAssumption DEF Controller
<1>2. Watched(World, off, m) /\ off.mirror[m].watch = "off"
  BY <1>0, UnwatchedIs
<1>3. Watched(World, x, m) /\ x.mirror = off.mirror
  <2>. HIDE DEF off, restarts
  <2>. QED  BY <1>1, <1>2, RestartedIsWatched
<1>4. CASE ~Holds(m) \/ World.ctl.state # "running"
  <2>1. Become(off)
    BY <1>4 DEF StreamEnds, StreamGone, Watching
  <2>. HIDE DEF off
  <2>2. Shifts(World, off)
    BY <1>0, <1>2, WatchedShifts
  <2>. QED  BY <2>1, <2>2, ShiftStep
<1>5. CASE Holds(m) /\ World.ctl.state = "running" /\ restarts >= MaxAutoRestarts
  <2>. DEFINE z == LettingGo(x)
  <2>1. Become(AwaitStops(z, t, "givingUp", m, None))
    BY <1>5 DEF StreamEnds, StreamGone, Watching, Restarted, LettingGo
  <2>. HIDE DEF x, off
  <2>2. GivenUp(World, z, m)
    BY <1>2, <1>3, GivenUpIs
  <2>. HIDE DEF z
  <2>. QED  BY <1>0, <1>5, <2>1, <2>2, GivesUp
<1>6. CASE Holds(m) /\ World.ctl.state = "running" /\ ~(restarts >= MaxAutoRestarts)
  <2>. DEFINE y == Restarted(x, restarts + 1)
              z == Watching(y, m, "settling")
  <2>1. Become(z)
    BY <1>6 DEF StreamEnds, StreamGone, Watching, Restarted
  <2>2. restarts + 1 \in 0..MaxAutoRestarts
    BY <1>1, <1>6, MirrorAssumption
  <2>. HIDE DEF x, off, restarts
  <2>3. Watched(World, y, m)
    BY <1>3, <2>2, RestartedIsWatched
  <2>. HIDE DEF y
  <2>4. Watched(World, z, m)
    BY <1>0, <2>3, SettlingIsWatched
  <2>. HIDE DEF z
  <2>5. Shifts(World, z)
    BY <1>0, <2>4, WatchedShifts
  <2>. QED  BY <2>1, <2>5, ShiftStep
<1>. QED  BY <1>4, <1>5, <1>6

LEMMA MirrorEndsStep ==
    ASSUME Inv, NEW m \in Mirror, NEW t \in Task, MirrorEnds(m, t)
    PROVE  Inv' /\ Heeds
<1>. DEFINE off == Watching(World, m, "off")
<1>0. Safe(World) /\ World \in Worlds /\ Call(t)
  BY DEF Inv, Safe, Base, MirrorEnds
<1>1. Watched(World, off, m) /\ off.mirror[m].watch = "off"
  BY <1>0, UnwatchedIs
<1>2. CASE ~Holds(m)
  <2>1. Become(off)
    BY <1>2 DEF MirrorEnds, Watching
  <2>. HIDE DEF off
  <2>2. Shifts(World, off)
    BY <1>0, <1>1, WatchedShifts
  <2>. QED  BY <2>1, <2>2, ShiftStep
<1>3. CASE Holds(m)
  <2>. DEFINE z == LettingGo(off)
  <2>1. Become(AwaitStops(z, t, "givingUp", m, None))
    BY <1>3 DEF MirrorEnds, Watching, LettingGo
  <2>. HIDE DEF off
  <2>2. GivenUp(World, z, m)
    BY <1>1, GivenUpIs
  <2>. HIDE DEF z
  <2>. QED  BY <1>0, <1>3, <2>1, <2>2, GivesUp
<1>. QED  BY <1>2, <1>3

\* A restart inherits that its mirror's start was overtaken.
Inheriting(w, t, b) == [w EXCEPT !.task[t].overtaken = b]

LEMMA InheritingView ==
    ASSUME NEW w \in Worlds, NEW t \in Task, NEW b \in BOOLEAN,
           NEW v, v = Inheriting(w, t, b)
    PROVE  /\ v \in Worlds /\ v.ctl = w.ctl /\ v.mirror = w.mirror
           /\ v.task[t].at = w.task[t].at /\ v.task[t].overtaken = b
           /\ \A u \in Task \ {t} : v.task[u] = w.task[u]
<1>. DEFINE k == [w.task[t] EXCEPT !.overtaken = b]
<1>1. k \in Tasks /\ k.at = w.task[t].at /\ k.overtaken = b
  BY Parts DEF Tasks
<1>2. v = WithTask(w, t, k)
  BY DEF Inheriting, WithTask
<1>. HIDE DEF k
<1>. QED  BY <1>1, <1>2, TaskExcept

LEMMA SettlesStep ==
    ASSUME Inv, NEW m \in Mirror, NEW t \in Task, Settles(m, t)
    PROVE  Inv' /\ Heeds
<1>. DEFINE off == Watching(World, m, "off")
            b == World.mirror[m].overtaken
            x == Inheriting(off, t, b)
<1>0. /\ Safe(World) /\ World \in Worlds /\ Call(t) /\ HasRoom /\ OnAndroid(World)
      /\ b \in BOOLEAN /\ (OnAndroid(World) <=> Android)
  <2>1. World.mirror[m].watch = "settling" /\ HolderSits(World) /\ World \in Worlds
    BY WorldIs DEF Settles, Inv, Safe, Base
  <2>2. OnAndroid(World)
    BY <2>1 DEF HolderSits
  <2>. QED  BY <2>1, <2>2, WorldIs, Parts DEF Inv, Settles, Mirrors
<1>1. Watched(World, off, m) /\ off.ctl = World.ctl /\ off.mirror[m].watch = "off"
  BY <1>0, UnwatchedIs
<1>2. World.task[t].at = "idle" /\ World.task[t].stops = None /\ World.task[t].next = None
      /\ \A u \in Task : World.task[u].at # "answered"
  BY <1>0, CallFinds
<1>3. CASE ~Holds(m)
  <2>1. Become(off)
    BY <1>3 DEF Settles, Watching
  <2>. HIDE DEF off
  <2>2. Shifts(World, off)
    BY <1>0, <1>1, WatchedShifts
  <2>. QED  BY <2>1, <2>2, ShiftStep
<1>4. CASE Holds(m)
  <2>1. Become(EnterStart(x, t, FALSE))
    BY <1>4, WorldIs DEF Settles, Watching, Inheriting
  <2>. HIDE DEF off
  <2>2. off \in Worlds /\ off.task = World.task
    BY <1>1 DEF Watched
  <2>. HIDE DEF b
  <2>3. /\ x \in Worlds /\ x.ctl = World.ctl /\ x.mirror = off.mirror
        /\ x.task[t].at = "idle" /\ x.task[t].overtaken = b
        /\ \A u \in Task \ {t} : x.task[u] = World.task[u]
    BY <1>0, <1>1, <1>2, <2>2, InheritingView
  <2>. HIDE DEF x
  <2>4. \A n \in Mirror : /\ x.mirror[n].life = World.mirror[n].life
                          /\ Likes(World.mirror[n], x.mirror[n])
                          /\ x.mirror[n].watch \in {"off", World.mirror[n].watch}
    BY <1>1, <2>3 DEF Watched, Likes, Marked
  <2>5. CASE ~x.ctl.connected
    <3>. DEFINE v == Report(Return(x, t), "error")
    <3>1. Become(v)
      BY <2>1, <2>5 DEF EnterStart
    <3>2. Gone(World)
      BY <1>0, <2>3, <2>5 DEF Gone
    <3>3. Shifts(World, v)
      BY <1>0, <1>2, <2>3, <2>4, <3>2, GoneShifts
    <3>. HIDE DEF v
    <3>. QED  BY <3>1, <3>3, ShiftStep
  <2>6. CASE x.ctl.connected
    <3>. DEFINE v == EnterStop(x, t, "clearing")
    <3>1. Become(v)
      BY <2>1, <2>6 DEF EnterStart
    <3>2. Called(World, x, t)
      BY <1>0, <1>2, <2>3, <2>4 DEF Called
    <3>3. ~World.ctl.disposed /\ World.ctl.session = m
      BY <1>4, WorldIs DEF Holds
    <3>4. World.ctl.wanted \/ b
      <4>1. HolderTold(World) /\ m # None
        BY <1>0, <3>3, NotNone DEF Safe, Told
      <4>. QED  BY <3>3, <4>1 DEF HolderTold, b
    <3>5. Spare(World, t)
      BY <1>0, <1>2, RoomIsSpare
    <3>6. x.task[t].at = World.task[t].at
      BY <1>2, <2>3
    <3>7. Entering(x, t, "clearing")
      BY <1>0, <2>3, <2>6, <3>2, <3>3, <3>4, <3>5, <3>6, CalledEnters
    <3>8. Safe(v) /\ v.ctl.session = None
      BY <3>7, EnterStopSafe
    <3>. HIDE DEF v
    <3>. QED  BY <3>1, <3>8, StepIs
  <2>. QED  BY <2>5, <2>6
<1>. QED  BY <1>3, <1>4

Forgotten(w, state) == [w EXCEPT !.ctl.session = None, !.ctl.state = state]

LEMMA ForgottenView ==
    ASSUME NEW w \in Worlds, NEW s \in {"stopped", "error"}, NEW v, v = Forgotten(w, s)
    PROVE  /\ v \in Worlds /\ v.task = w.task /\ v.mirror = w.mirror /\ Keeps(w.ctl, v.ctl)
           /\ v.ctl.session = None /\ v.ctl.state = s
BY DEF Forgotten, Worlds, Controller, Keeps

\* The server of the mirror that is held exits.
LEMMA ForgottenShifts ==
    ASSUME NEW w, Safe(w), OnAndroid(w), NEW m \in Mirror, w.ctl.session = m,
           w.mirror[m].life = "live", NEW s \in {"stopped", "error"},
           NEW v, v = Forgotten(WithLife(w, m, "exited"), s)
    PROVE  Shifts(w, v)
<1>. DEFINE x == WithLife(w, m, "exited")
<1>0. w \in Worlds /\ "exited" \in Lives
  BY DEF Safe, Base, Lives
<1>1. /\ x \in Worlds /\ x.task = w.task /\ x.ctl = w.ctl
      /\ x.mirror[m].life = "exited" /\ x.mirror[m].watch = w.mirror[m].watch
      /\ Likes(w.mirror[m], x.mirror[m])
      /\ \A n \in Mirror \ {m} : x.mirror[n] = w.mirror[n]
  BY <1>0, LifeView
<1>. HIDE DEF x
<1>2. v = Forgotten(x, s)
  BY DEF x
<1>3. /\ v \in Worlds /\ v.task = w.task /\ v.mirror = x.mirror /\ Keeps(w.ctl, v.ctl)
      /\ v.ctl.session = None /\ v.ctl.state = s
  BY <1>1, <1>2, ForgottenView
<1>4. ASSUME NEW n \in Mirror
      PROVE  /\ Ages(w.mirror[n].life, v.mirror[n].life) /\ Likes(w.mirror[n], v.mirror[n])
             /\ v.mirror[n].life = "live" => w.mirror[n].life = "live"
             /\ v.mirror[n].life = "none" <=> w.mirror[n].life = "none"
  <2>1. CASE n = m
    BY <1>1, <1>3, <2>1 DEF Ages
  <2>2. CASE n # m
    BY <1>1, <1>3, <2>2, AgesNot DEF Likes, Marked
  <2>. QED  BY <2>1, <2>2
<1>5. Room(v)
  <2>1. Used(v) = Used(w) /\ Needs(v) = Needs(w)
    BY <1>3, <1>4 DEF Used, Needs
  <2>. QED  BY <1>0, <1>3, <2>1, RoomStays DEF Safe
<1>6. Keeping(w, v)
  BY <1>1, <1>3 DEF Keeping
<1>. QED  BY <1>3, <1>4, <1>5, <1>6 DEF Shifts, Keeps

LEMMA ServerExitsStep ==
    ASSUME Inv, NEW m \in Mirror, NEW clean \in BOOLEAN, ServerExits(m, clean)
    PROVE  Inv' /\ Heeds
<1>. DEFINE x == WithLife(World, m, "exited")
<1>0. Safe(World) /\ OnAndroid(World) /\ World.mirror[m].life = "live"
  BY WorldIs DEF Inv, ServerExits
<1>1. CASE ~Holds(m)
  <2>1. Become(x)
    BY <1>1 DEF ServerExits, WithLife
  <2>2. World.ctl.session # m
    BY <1>0, <1>1, WorldIs, NotNone DEF Holds, Safe, Told
  <2>3. Shifts(World, x)
    BY <1>0, <2>2, LifeShifts DEF Ages
  <2>. HIDE DEF x
  <2>. QED  BY <2>1, <2>3, ShiftStep
<1>2. CASE Holds(m)
  <2>. DEFINE s == IF clean THEN "stopped" ELSE "error"
              v == Forgotten(x, s)
  <2>1. Become(v)
    BY <1>2 DEF ServerExits, WithLife, Forgotten
  <2>2. World.ctl.session = m /\ s \in {"stopped", "error"}
    BY <1>2, WorldIs DEF Holds
  <2>. HIDE DEF s
  <2>3. Shifts(World, v)
    BY <1>0, <2>2, ForgottenShifts
  <2>. HIDE DEF v
  <2>. QED  BY <2>1, <2>3, ShiftStep
<1>. QED  BY <1>1, <1>2

-----------------------------------------------------------------------------
(* The invariant.                                                          *)

LEMMA FirstWorldIsSafe ==
    ASSUME Init
    PROVE  Inv
<1>1. PICK p \in Platforms :
        World.ctl = [platform |-> p, state |-> "stopped",
                     session |-> None, iosStarting |-> None, restarts |-> 0,
                     quality |-> FALSE, connected |-> TRUE, disposed |-> FALSE,
                     wanted |-> FALSE]
  BY WorldIs DEF Init
<1>2. /\ World.mirror = [m \in Mirror |->
                            [life |-> "none", quality |-> FALSE, watch |-> "off",
                             overtaken |-> FALSE, crossed |-> FALSE]]
      /\ World.task = [t \in Task |-> IdleTask]
  BY WorldIs DEF Init
<1>3. World \in Worlds
  <2>1. 0 \in 0..MaxAutoRestarts
    BY MirrorAssumption
  <2>2. World.ctl \in Controller
    BY <1>1, <2>1 DEF Controller
  <2>3. World.mirror \in [Mirror -> Mirrors]
    BY <1>2 DEF Mirrors
  <2>4. World.task \in [Task -> Tasks]
    BY <1>2, NotNone
  <2>. QED  BY <2>2, <2>3, <2>4, Whole, WorldIs DEF World
<1>4. /\ World.ctl.session = None /\ World.ctl.state = "stopped"
      /\ ~World.ctl.quality /\ ~World.ctl.disposed
      /\ \A t \in Task : World.task[t] = IdleTask
      /\ \A m \in Mirror : /\ World.mirror[m].life = "none"
                           /\ ~World.mirror[m].quality /\ World.mirror[m].watch = "off"
  BY <1>1, <1>2
<1>5. Base(World)
  <2>1. HolderSits(World)
    BY <1>4 DEF HolderSits
  <2>2. \A t \in Task : Sits(World, t)
    BY <1>4, IdleIs DEF Sits, Stops
  <2>3. \A t, u \in Task : Apart(World, t, u)
    BY <1>4, IdleIs DEF Apart
  <2>. QED  BY <1>3, <2>1, <2>2, <2>3 DEF Base
<1>6. Told(World)
  <2>1. \A t \in Task : ~Works(World, t) /\ ~Starts(World, t)
    BY <1>4, IdleIs DEF Works, Starts, Ends
  <2>2. /\ \A t \in Task : StartTold(World, t)
        /\ Alone(World)
    BY <2>1 DEF StartTold, Alone
  <2>3. HolderTold(World) /\ Answered(World)
    BY <1>4 DEF HolderTold, Answered, Says
  <2>. QED  BY <1>4, <2>2, <2>3 DEF Told
<1>7. Owned(World)
  BY <1>4 DEF Owned, Runs
<1>8. Room(World)
  <2>1. Used(World) = {} /\ Needs(World) = {}
    BY <1>4, IdleIs DEF Used, Needs
  <2>. QED  BY <2>1, FS_EmptySet, MirrorAssumption DEF Room
<1>. QED  BY <1>5, <1>6, <1>7, <1>8 DEF Inv, Safe

LEMMA StutterStep ==
    ASSUME Inv, UNCHANGED vars
    PROVE  Inv' /\ Heeds
<1>1. Heeds
  BY DEF vars, Heeds
<1>2. World' = World
  BY DEF vars, World
<1>3. Safe(World')
  BY <1>2 DEF Inv
<1>. QED  BY <1>1, <1>3 DEF Inv

\* Every step keeps the invariant, and heeds what was asked last.
LEMMA EveryStep ==
    ASSUME Inv, [Next]_vars
    PROVE  Inv' /\ Heeds
<1>1. ASSUME NEW t \in Task, CallActs(t) PROVE Inv' /\ Heeds
  <2>1. CASE Confirmed(t)
    BY <2>1, ConfirmedStep
  <2>2. CASE StopReturns(t)
    BY <2>2, StopReturnsStep
  <2>3. CASE Probed(t)
    BY <2>3, ProbedStep
  <2>4. ASSUME NEW succeeds \in BOOLEAN, ConnectionReturns(t, succeeds) PROVE Inv' /\ Heeds
    BY <2>4, ConnectionReturnsStep
  <2>. QED  BY <1>1, <2>1, <2>2, <2>3, <2>4 DEF CallActs
<1>2. ASSUME NEW t \in Task, UserActs(t) PROVE Inv' /\ Heeds
  <2>1. ASSUME NEW asks \in BOOLEAN, Start(t, asks) PROVE Inv' /\ Heeds
    BY <2>1, StartStep
  <2>2. CASE Stop(t)
    BY <2>2, StopStep
  <2>3. CASE SetQuality(t)
    BY <2>3, SetQualityStep
  <2>. QED  BY <1>2, <2>1, <2>2, <2>3 DEF UserActs
<1>3. ASSUME NEW t \in Task, DeviceActs(t) PROVE Inv' /\ Heeds
  <2>1. CASE Disconnect(t)
    BY <2>1, DisconnectStep
  <2>2. ASSUME NEW m \in Mirror, NEW long \in BOOLEAN, StreamEnds(m, t, long)
        PROVE  Inv' /\ Heeds
    BY <2>2, StreamEndsStep
  <2>3. ASSUME NEW m \in Mirror, Settles(m, t) PROVE Inv' /\ Heeds
    BY <2>3, SettlesStep
  <2>4. ASSUME NEW m \in Mirror, MirrorEnds(m, t) PROVE Inv' /\ Heeds
    BY <2>4, MirrorEndsStep
  <2>. QED  BY <1>3, <2>1, <2>2, <2>3, <2>4 DEF DeviceActs
<1>4. ASSUME NEW t \in Task, Dispose(t) PROVE Inv' /\ Heeds
  BY <1>4, DisposeStep
<1>5. ASSUME NEW proceed \in BOOLEAN, AnswerNotice(proceed) PROVE Inv' /\ Heeds
  BY <1>5, AnswerStep
<1>6. ASSUME NEW m \in Mirror, NEW clean \in BOOLEAN, ServerExits(m, clean)
      PROVE  Inv' /\ Heeds
  BY <1>6, ServerExitsStep
<1>7. CASE Connect
  BY <1>7, ConnectStep
<1>8. CASE UNCHANGED vars
  BY <1>8, StutterStep
<1>. QED
  BY <1>1, <1>2, <1>3, <1>4, <1>5, <1>6, <1>7, <1>8 DEF Next

-----------------------------------------------------------------------------
(* What the invariant says of a mirror.                                    *)

LEMMA InvIsEnough ==
    ASSUME Inv
    PROVE  MirrorInv
<1>0. /\ Safe(World) /\ World \in Worlds /\ HolderSits(World) /\ Owned(World)
      /\ ctl.session \in Mirror \cup {None} /\ None \notin Mirror
  BY WorldIs, Parts, NotNone DEF Inv, Safe, Base, Controller
<1>1. TypeOK
  BY <1>0, Parts, WorldIs DEF TypeOK
<1>2. MirrorsAreOwned
  <2>. SUFFICES ASSUME NEW m \in Up \ Lost
                PROVE  ctl.session = m
                       \/ \E t \in Task : m \in {task[t].stops, task[t].next}
    BY DEF MirrorsAreOwned
  <2>1. m \in Mirror /\ Runs(World, m)
    BY WorldIs DEF Up, Lost, Runs
  <2>. QED  BY <1>0, <2>1, WorldIs DEF Owned
<1>3. ctl.session # None => ~ctl.disposed /\ HolderTold(World)
  BY <1>0, WorldIs DEF Safe, Told
<1>4. StateIsTrue
  <2>1. ctl.session # None => mirror[ctl.session].life = "live"
    BY <1>0, WorldIs DEF HolderSits
  <2>2. ctl.session # None => ctl.state = "running" \/ mirror[ctl.session].crossed
    BY <1>3, WorldIs DEF HolderTold
  <2>3. ASSUME ~ctl.disposed, Running, ctl.session = None
        PROVE  \E t \in Task : Busy(t)
    <3>1. \E t \in Task : Works(World, t)
      BY <1>0, <2>3, WorldIs DEF Safe, Told, Answered, Says, Running
    <3>2. PICK t \in Task : Works(World, t)
      BY <3>1
    <3>3. Sits(World, t)
      BY <1>0 DEF Safe, Base
    <3>4. World.task[t].at # "idle"
      BY <3>2, <3>3 DEF Works, Starts, Ends, Sits
    <3>. QED  BY <3>4, WorldIs DEF Busy
  <2>. QED  BY <2>1, <2>2, <2>3 DEF StateIsTrue
<1>5. QualityTakesEffect
  <2>. SUFFICES ASSUME NEW m \in Mirror, ctl.session = m
                PROVE  mirror[m].quality = ctl.quality \/ mirror[m].crossed
    BY DEF QualityTakesEffect
  <2>. QED  BY <1>0, <1>3, WorldIs DEF HolderTold
<1>. QED  BY <1>1, <1>2, <1>4, <1>5 DEF MirrorInv

-----------------------------------------------------------------------------
(* The theorems.                                                           *)

\* The invariant holds of every state.
LEMMA AlwaysSafe == Spec => []Inv
<1>1. Init => Inv
  BY FirstWorldIsSafe
<1>2. Inv /\ [Next]_vars => Inv'
  BY EveryStep
<1>. QED  BY <1>1, <1>2, PTL DEF Spec

\* However starts, stops, losses of the device and the end of the session
\* overlap: every mirror that is up is held or about to be stopped
\* (mirror_controller.dart:57-60), those excepted whose server exited or whose
\* start crossed another call; the mirror that is held is live; while the
\* controller is in use the pane says that it runs and it has the quality that
\* was picked, unless its start was crossed; and what is said to start or run is
\* held or in the hands of a call.
THEOREM MirrorIsCorrect == Spec => []MirrorInv
<1>1. Inv => MirrorInv
  BY InvIsEnough
<1>. QED  BY <1>1, AlwaysSafe, PTL

\* However they overlap: a mirror that comes up was asked for last, by a start
\* that no stop, disconnection or disposal followed, or its start was overtaken
\* by another call at an await after which the code does not look (start, stop,
\* dispose).
THEOREM StopsAreHeeded == Spec => StopIsHeeded
<1>1. Inv /\ [Next]_vars => [\A m \in Mirror :
                                (ctl'.session = m /\ ctl.session # m)
                                    => ctl.wanted \/ mirror'[m].overtaken]_vars
  BY EveryStep DEF Heeds
<1>. QED  BY <1>1, AlwaysSafe, PTL DEF Spec, StopIsHeeded
=============================================================================
