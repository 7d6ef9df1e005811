----------------------------- MODULE IosBackend ------------------------------
(***************************************************************************)
(* The iOS back end in Rust: its streams, its input sessions, its port     *)
(* forwards, and its calls.  Bridge calls run concurrently, but the parts  *)
(* share nothing on the host: every registry is a static of its own and    *)
(* every call opens its own connections.  Any of them may be at work at    *)
(* once, their steps interleaved; the instance TLC explores lets them move *)
(* one at a time.                                                          *)
(***************************************************************************)
EXTENDS IosStreams, IosInput, IosForwards, IosCalls, IosApps, IosFiles

Parts == {"streams", "input", "forwards", "calls", "apps", "files"}

CONSTANT Moving \* bound: the sets of parts that may be at work together

ASSUME BackendAssumption == Moving \subseteq SUBSET Parts

VARIABLE moving \* the parts at work

backendVars == <<moving, streamsVars, inputVars, forwardsVars, callsVars, appsVars, filesVars>>

\* The parts that do not move start in any one state.
BackendInit ==
    /\ moving \in Moving
    /\ StreamsInit
    /\ InputInit
    /\ ForwardsInit
    /\ CallsInit
    /\ AppsInit
    /\ FilesInit
    /\ "streams" \notin moving => kind = CHOOSE mix \in Mixes : TRUE
    /\ "calls" \notin moving => call = CHOOSE c \in Call : TRUE
    /\ "calls" \notin moving => phone = {}
    /\ "apps" \notin moving => op = "stop_ios_app" /\ running = Foreign
    /\ "files" \notin moving => walk = "pull"

BackendNext ==
    \/ /\ "streams" \in moving /\ StreamsNext
       /\ UNCHANGED <<moving, inputVars, forwardsVars, callsVars, appsVars, filesVars>>
    \/ /\ "input" \in moving /\ InputNext
       /\ UNCHANGED <<moving, streamsVars, forwardsVars, callsVars, appsVars, filesVars>>
    \/ /\ "forwards" \in moving /\ ForwardsNext
       /\ UNCHANGED <<moving, streamsVars, inputVars, callsVars, appsVars, filesVars>>
    \/ /\ "calls" \in moving /\ CallsNext
       /\ UNCHANGED <<moving, streamsVars, inputVars, forwardsVars, appsVars, filesVars>>
    \/ /\ "apps" \in moving /\ AppsNext
       /\ UNCHANGED <<moving, streamsVars, inputVars, forwardsVars, callsVars, filesVars>>
    \/ /\ "files" \in moving /\ FilesNext
       /\ UNCHANGED <<moving, streamsVars, inputVars, forwardsVars, callsVars, appsVars>>

\* What a part that does not move could be fair to is never enabled.
BackendSpec ==
    /\ BackendInit /\ [][BackendNext]_backendVars
    /\ StreamsFairness /\ InputFairness /\ ForwardsFairness
=============================================================================
