----------------------------- MODULE IosForwards -----------------------------
(***************************************************************************)
(* The port forwards to an iPhone (src/rust/src/api/ios_network.rs), by    *)
(* which the network pane reaches an app: a listener on a free host port,  *)
(* and a pipe through usbmuxd for every client it accepts.  Forwards are   *)
(* registered, and halted, under their host port, which the host gives    *)
(* out again as soon as its listener is gone.                              *)
(***************************************************************************)
EXTENDS Integers, FiniteSets

CONSTANTS
    Forward, \* calls of start_ios_port_forward
    Port,    \* host ports
    Client,  \* connections to them
    NoPort, NoForward

ASSUME ForwardsAssumption == NoPort \notin Port /\ NoForward \notin Forward

VARIABLES
    forward,  \* starting, listening (its accept loop runs) or ended
    hostPort, \* the port its listener holds
    stopping, \* forwards whose stop call Dart has posted
    ports,    \* PORT_FORWARDS: the forward under each port
    halted,  \* forwards whose token, and with it their pipes' tokens, is cancelled
    client,   \* none, queued (not accepted yet), connecting, piping or closed
    via       \* the forward that accepted a client

forwardsVars == <<forward, hostPort, stopping, ports, halted, client, via>>

ForwardsInit ==
    /\ forward = [f \in Forward |-> "none"]
    /\ hostPort = [f \in Forward |-> NoPort]
    /\ stopping = {}
    /\ ports = [p \in Port |-> NoForward]
    /\ halted = {}
    /\ client = [c \in Client |-> "none"]
    /\ via = [c \in Client |-> NoForward]

Holder(p) == {f \in Forward : forward[f] = "listening" /\ hostPort[f] = p}

-----------------------------------------------------------------------------
\* Deviation: under the device's port, the same for every phone.
DevicePort(p) == CHOOSE q \in Port : TRUE

\* What a forward is registered under: its host port.
EntryOf(p) == p

\* start_ios_port_forward: the host picks a port nobody listens on.
StartForward(f, p) ==
    /\ forward[f] = "none" /\ Holder(p) = {}
    /\ forward' = [forward EXCEPT ![f] = "listening"]
    /\ hostPort' = [hostPort EXCEPT ![f] = p]
    /\ ports' = [ports EXCEPT ![EntryOf(p)] = f]
    /\ UNCHANGED <<stopping, halted, client, via>>

\* Dart, given the port, lets go of the forward once.
PostStop(f) ==
    /\ forward[f] = "listening" /\ f \notin stopping
    /\ stopping' = stopping \cup {f}
    /\ UNCHANGED <<forward, hostPort, ports, halted, client, via>>

\* stop_ios_port_forward: the entry is taken out and its token cancelled.
StopForward(f) ==
    LET entry == EntryOf(hostPort[f])
    IN /\ f \in stopping \ halted
       /\ ports' = [ports EXCEPT ![entry] = NoForward]
       /\ halted' = halted \cup ({ports[entry]} \ {NoForward})
       /\ UNCHANGED <<forward, hostPort, stopping, client, via>>

\* The loop breaks; with the listener go the clients it has not accepted.
ForwardEnds(f) ==
    /\ forward[f] = "listening" /\ f \in halted
    /\ forward' = [forward EXCEPT ![f] = "ended"]
    /\ client' = [c \in Client |->
          IF client[c] = "queued" /\ via[c] = f THEN "closed" ELSE client[c]]
    /\ UNCHANGED <<hostPort, stopping, ports, halted, via>>

-----------------------------------------------------------------------------
\* A client connects to whoever listens on a port.
ClientConnects(c, f) ==
    /\ client[c] = "none" /\ forward[f] = "listening"
    /\ client' = [client EXCEPT ![c] = "queued"]
    /\ via' = [via EXCEPT ![c] = f]
    /\ UNCHANGED <<forward, hostPort, stopping, ports, halted>>

\* The select is not biased: a stopped loop may still accept.
Accept(c) ==
    /\ client[c] = "queued" /\ forward[via[c]] = "listening"
    /\ client' = [client EXCEPT ![c] = "connecting"]
    /\ UNCHANGED <<forward, hostPort, stopping, ports, halted, via>>

SetClient(c, phase) ==
    /\ client' = [client EXCEPT ![c] = phase]
    /\ UNCHANGED <<forward, hostPort, stopping, ports, halted, via>>

\* pipe: the device is looked up and connected to; one it refuses is closed.
PipeOpens(c) == client[c] = "connecting" /\ SetClient(c, "piping")

PipeIsRefused(c) == client[c] = "connecting" /\ SetClient(c, "closed")

\* Either side hangs up.
PipeHangsUp(c) == client[c] = "piping" /\ SetClient(c, "closed")

\* Deviation: a pipe does not hear of the stop while it connects.
PipingOnly == {"piping"}

Stoppable == {"connecting", "piping"}

\* The forward's token covers its pipes, also one accepted after the stop.
PipeHeedsStop(c) ==
    /\ client[c] \in Stoppable /\ via[c] \in halted
    /\ SetClient(c, "closed")

ForwardsNext ==
    \/ \E f \in Forward :
          \/ PostStop(f) \/ StopForward(f) \/ ForwardEnds(f)
          \/ \E p \in Port : StartForward(f, p)
          \/ \E c \in Client : ClientConnects(c, f)
    \/ \E c \in Client :
          \/ Accept(c) \/ PipeOpens(c) \/ PipeIsRefused(c) \/ PipeHangsUp(c)
          \/ PipeHeedsStop(c)

\* Calls posted run, a loop hears its token, and so does a pipe: both select on it.
ForwardsFairness ==
    /\ \A f \in Forward :
          WF_forwardsVars(StopForward(f)) /\ WF_forwardsVars(ForwardEnds(f))
    /\ \A c \in Client : WF_forwardsVars(PipeHeedsStop(c))

ForwardsSpec == ForwardsInit /\ [][ForwardsNext]_forwardsVars /\ ForwardsFairness

-----------------------------------------------------------------------------
(* Properties.                                                             *)

\* The state has the types of its fields.
ForwardsTypeOK ==
    /\ forward \in [Forward -> {"none", "listening", "ended"}]
    /\ hostPort \in [Forward -> Port \cup {NoPort}]
    /\ stopping \subseteq Forward /\ halted \subseteq Forward
    /\ ports \in [Port -> Forward \cup {NoForward}]
    /\ client \in [Client -> {"none", "queued", "connecting", "piping", "closed"}]
    /\ via \in [Client -> Forward \cup {NoForward}]

\* The host port Dart was given finds its own forward for as long as that runs
\* unstopped, though ports are used again: no stop ends another's forward.
ForwardIsStoppable ==
    \A f \in Forward :
       /\ forward[f] = "listening" /\ f \notin halted => ports[EntryOf(hostPort[f])] = f
       /\ f \in halted => f \in stopping

\* "Stops the forward and closes every connection through it": also one that was
\* waiting to be accepted, or still connecting to the device.
StopClosesPipes ==
    \A f \in Forward : f \in stopping ~>
       /\ forward[f] = "ended"
       /\ \A c \in Client : via[c] = f => client[c] = "closed"
=============================================================================
