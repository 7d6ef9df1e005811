------------------------------ MODULE IosCalls -------------------------------
(***************************************************************************)
(* The calls of the Rust back end that ask an iPhone something and return  *)
(* (src/rust/src/api/ios.rs, ios_mirror.rs, ios_app_control.rs,            *)
(* ios_network.rs and tunnel.rs).  Each is a script of awaits: the muxer,  *)
(* the device, lockdown or a CoreDevice tunnel, the service, the request.  *)
(* The phone changes between any two of them, and an await that fails      *)
(* gives one of the errors that the state of the phone can cause.          *)
(***************************************************************************)
EXTENDS Integers, Sequences

CONSTANT MaxChanges \* bound: changes of the phone during a call

ASSUME CallsAssumption == MaxChanges \in Nat

VARIABLES
    call,    \* the call made
    at,      \* the await it has come to
    phone,   \* the phone: the troubles it is in
    met,     \* troubles it has been in since the call was made
    error,   \* an error met that is not returned yet, or NoError
    tunnel,  \* the tunnel of the call: none, open, closed, or dropped unclosed
    reply,   \* what the call has returned, or Pending
    changes

callsVars == <<call, at, phone, met, error, tunnel, reply, changes>>

\* What can be wrong: no muxer, no such device, not paired, the trust prompt on
\* its screen or turned down, locked, no developer image, or what it refuses.
Trouble == {"muxer", "gone", "unpaired", "prompt", "denied", "locked", "image", "refused"}

-----------------------------------------------------------------------------
(* The scripts.  A step is an await and where its error takes the call: it *)
(* returns at once (?), or goes on at a later step.                        *)

Steps(awaits, onError) ==
    [i \in 1 .. Len(awaits) |-> [await |-> awaits[i], onError |-> onError]]

Asks(awaits) == Steps(awaits, "return")

provider_for == Asks(<<"muxer", "device">>)
open_session == Asks(<<"attach", "session">>)
connect      == Asks(<<"attach", "service">>)      \* a lockdown service
request      == Asks(<<"request">>)
afc_client   == provider_for \o connect
installation_proxy == provider_for \o connect

\* A tunnel, what is asked over it whatever comes of it (async { .. }.await), and
\* its end.
TunnelOpen     == provider_for \o connect \o Asks(<<"tunnel">>)
TunnelClose    == Asks(<<"close">>)
Guarded(awaits) == Steps(awaits, "close")

\* Over the muxer alone, and over a lockdown session.
list_ios_devices    == Asks(<<"muxer", "devices">>)
describe            == open_session \o Asks(<<"value">>)
describe_ios_device == provider_for \o describe
domain              == Asks(<<"domain">>)
read_ios_device_domains ==
    provider_for \o open_session \o domain \o domain \o domain \o domain
probe_ios_ports     == provider_for \o Asks(<<"port">>) \* a connection per port

\* Over a lockdown service.  The walks go on as IosFiles has it.
start_ios_syslog       == provider_for \o connect \o request
list_ios_apps          == installation_proxy \o request
install_ios_app        == provider_for \o connect \o request \o request
uninstall_ios_app      == provider_for \o connect \o request
ios_app_bundle_path    == installation_proxy \o request
fetch_ios_app_icon     == provider_for \o connect \o request
read_ios_interface_orientation == provider_for \o connect \o request
create_ios_directory   == afc_client \o request
rename_ios_path        == afc_client \o request
delete_ios_path        == afc_client \o request
pull_ios_crash_reports == provider_for \o connect
list_ios_files         == afc_client \o request
download_ios_path      == afc_client \o request \o request
upload_ios_path        == afc_client \o request \o request

\* Over a tunnel, closed again.  What a service list offers cannot fail to be read.
streams_display        == Asks(<<"offer">>)
probe_ios_mirror       == TunnelOpen \o streams_display \o TunnelClose
probe_ios_app_control  == TunnelOpen \o TunnelClose
launch_ios_app         == TunnelOpen \o Guarded(<<"rsd", "request">>) \o TunnelClose
stop_ios_app ==
    ios_app_bundle_path \o TunnelOpen \o Guarded(<<"rsd", "request", "request">>)
        \o TunnelClose

\* The connection to the screen capture service is not guarded.
capture_ios_screenshot ==
    TunnelOpen \o Asks(<<"rsd">>) \o Guarded(<<"request">>) \o TunnelClose

\* Stopping the app, let _ = .., then emptying its directories.
Ignored(steps) ==
    [i \in 1 .. Len(steps) |->
        [steps[i] EXCEPT !.onError = IF @ = "return" THEN "ignored" ELSE @]]
clear_ios_app_data ==
    provider_for \o connect \o request \o Ignored(stop_ios_app)
        \o Asks(<<"ignored", "request", "request">>)

\* Over a tunnel that the stream or the session goes on with.  A phone that streams
\* its display lets input in only beside an audio and a video stream.
start_ios_screenshot_stream == TunnelOpen \o Asks(<<"rsd", "rsd">>)
InputGate             == Asks(<<"rsd", "request", "request">>)
start_ios_input       == TunnelOpen \o streams_display \o Asks(<<"rsd", "rsd">>)
start_ios_input_gated ==
    TunnelOpen \o streams_display \o InputGate \o Asks(<<"rsd", "rsd">>)

Script == [
    list_ios_devices |-> list_ios_devices,
    describe_ios_device |-> describe_ios_device,
    read_ios_device_domains |-> read_ios_device_domains,
    probe_ios_ports |-> probe_ios_ports,
    start_ios_syslog |-> start_ios_syslog,
    list_ios_apps |-> list_ios_apps, install_ios_app |-> install_ios_app,
    uninstall_ios_app |-> uninstall_ios_app,
    fetch_ios_app_icon |-> fetch_ios_app_icon,
    read_ios_interface_orientation |-> read_ios_interface_orientation,
    create_ios_directory |-> create_ios_directory,
    rename_ios_path |-> rename_ios_path, delete_ios_path |-> delete_ios_path,
    pull_ios_crash_reports |-> pull_ios_crash_reports,
    list_ios_files |-> list_ios_files,
    download_ios_path |-> download_ios_path, upload_ios_path |-> upload_ios_path,
    probe_ios_mirror |-> probe_ios_mirror,
    probe_ios_app_control |-> probe_ios_app_control,
    launch_ios_app |-> launch_ios_app,
    stop_ios_app |-> stop_ios_app,
    capture_ios_screenshot |-> capture_ios_screenshot,
    clear_ios_app_data |-> clear_ios_app_data,
    start_ios_screenshot_stream |-> start_ios_screenshot_stream,
    start_ios_input |-> start_ios_input,
    start_ios_input_gated |-> start_ios_input_gated]

Call == DOMAIN Script

-----------------------------------------------------------------------------
(* Errors.                                                                 *)

\* What an await may give under a trouble of the phone, if that matters to it.
\* External: as idevice reports it.
OverLockdown == {"session", "service"}
Kinds(await, trouble) ==
    IF await \in {"offer", "close", "ignored"} THEN {} ELSE
    CASE trouble = "muxer" -> {"Socket"}
      [] trouble = "gone" /\ await = "device" -> {"DeviceNotFound"}
      [] trouble = "gone" /\ await \in {"attach", "port"} -> {"BadDevice"}
      [] trouble = "gone" /\ await \notin {"muxer", "devices", "device", "attach", "port"} ->
            {"Socket"}
      [] trouble = "unpaired" /\ await \in OverLockdown -> {"InvalidHostID"}
      [] trouble = "unpaired" /\ await \in {"value", "domain"} -> {"SessionInactive"}
      [] trouble = "prompt" /\ await \in OverLockdown -> {"PairingDialogResponsePending"}
      [] trouble = "denied" /\ await \in OverLockdown -> {"UserDeniedPairing"}
      [] trouble = "locked" /\ await \in OverLockdown -> {"PasswordProtected", "DeviceLocked"}
      [] trouble = "image" /\ await = "rsd" -> {"ServiceNotFound"}
      [] trouble = "refused" /\ await = "request" -> {"UnexpectedResponse"}
      [] trouble = "refused" /\ await \in {"value", "domain"} ->
            {"GetProhibited", "UnknownErrorType"}
      [] trouble = "refused" /\ await = "port" -> {"ConnectionRefused"}
      [] OTHER -> {}

\* From<IdeviceError>: usbmuxd's own errors, whichever, are "unavailable".
FromIdevice(kind) ==
    CASE kind \in {"BadDevice", "ConnectionRefused"} -> "UsbmuxdUnavailable"
      [] kind = "DeviceNotFound" -> "DeviceNotFound"
      [] kind \in {"DeviceLocked", "PasswordProtected"} -> "Locked"
      [] kind \in {"InvalidHostID", "SessionInactive", "UserDeniedPairing"} -> "NotPaired"
      [] kind = "PairingDialogResponsePending" -> "PairingDialogPending"
      [] OTHER -> "Other"

\* connect_usbmuxd, and a port's probe, tell for themselves.
ErrorOf(await, kind) ==
    CASE await = "muxer" -> "UsbmuxdUnavailable"
      [] await = "port" /\ kind = "BadDevice" -> "DeviceNotFound"
      [] OTHER -> FromIdevice(kind)

\* IosError::status.
Status(failure) ==
    CASE failure \in {"NotPaired", "PairingDialogPending"} -> "unpaired"
      [] failure = "Locked" -> "locked"
      [] OTHER -> "unavailable"

Pending == "pending"
NoError == "none"
Errors == {"UsbmuxdUnavailable", "DeviceNotFound", "NotPaired",
           "PairingDialogPending", "Locked", "Other"}
Statuses == {"device", "unpaired", "locked", "unavailable"}

\* A device that was found is described whatever it answers: its status says why.
Outcome(failure, await) ==
    IF call = "describe_ios_device" /\ await \notin {"muxer", "device"}
    THEN Status(failure) ELSE failure

\* A domain the phone withholds is read as empty, and a port that refuses is not open.
Tolerated(await) ==
    CASE await = "domain" -> {"GetProhibited", "UnknownErrorType"}
      [] await = "port" -> {"ConnectionRefused"}
      [] OTHER -> {}

Failures(await, trouble) == Kinds(await, trouble) \ Tolerated(await)

-----------------------------------------------------------------------------
CallsInit ==
    /\ call \in Call
    /\ at = 1
    /\ phone \in {{}} \cup {{t} : t \in Trouble}
    /\ met = phone
    /\ error = NoError /\ tunnel = "none" /\ reply = Pending /\ changes = 0

PhoneChanges(t) ==
    /\ reply = Pending /\ changes < MaxChanges
    /\ changes' = changes + 1
    /\ phone' = IF t \in phone THEN phone \ {t} ELSE phone \cup {t}
    /\ met' = met \cup phone'
    /\ UNCHANGED <<call, at, error, tunnel, reply>>

\* Where an error leads: to the step of that name ahead, or out of the call.
Over == Len(Script[call]) + 1
Onwards(onError) ==
    LET ahead == {i \in at + 1 .. Len(Script[call]) : Script[call][i].await = onError}
    IN IF ahead = {} THEN Over ELSE CHOOSE i \in ahead : TRUE

\* What a call that is over returns: its error, or its result.
Answer(failure) ==
    IF failure # NoError THEN failure
    ELSE IF call = "describe_ios_device" THEN "device" ELSE "Ok"

\* The call goes on at next, or returns.  What an error leaves behind is dropped.
GoTo(next, held) ==
    /\ at' = next
    /\ IF next # Over THEN reply' = Pending /\ tunnel' = held
       ELSE /\ reply' = Answer(error')
            /\ tunnel' = IF error' # NoError /\ held = "open" THEN "dropped" ELSE held
    /\ UNCHANGED <<call, phone, met, changes>>

AfterAwait(await) ==
    CASE await = "tunnel" -> "open" [] await = "close" -> "closed" [] OTHER -> tunnel

\* An await that goes well.
AwaitDone ==
    LET step == Script[call][at]
    IN /\ reply = Pending /\ \A t \in phone : Failures(step.await, t) = {}
       /\ error' = IF step.await = "ignored" THEN NoError ELSE error
       /\ GoTo(IF error' = NoError THEN at + 1 ELSE Onwards(step.onError),
               AfterAwait(step.await))

AwaitFails(t) ==
    LET step == Script[call][at]
    IN /\ reply = Pending /\ t \in phone
       /\ \E kind \in Failures(step.await, t) :
             error' = Outcome(ErrorOf(step.await, kind), step.await)
       /\ GoTo(Onwards(step.onError), tunnel)

CallsNext ==
    \/ AwaitDone
    \/ \E t \in Trouble : AwaitFails(t) \/ PhoneChanges(t)

CallsSpec == CallsInit /\ [][CallsNext]_callsVars

-----------------------------------------------------------------------------
(* Properties.                                                             *)

\* The state has the types of its fields.
CallsTypeOK ==
    /\ call \in Call /\ at \in 1 .. Over
    /\ phone \subseteq Trouble /\ met \subseteq Trouble
    /\ error \in {NoError} \cup Errors \cup Statuses
    /\ tunnel \in {"none", "open", "closed", "dropped"}
    /\ reply \in {Pending, "Ok"} \cup Errors \cup Statuses

\* The troubles an answer may come of; "Other" and "unavailable" name none.
CausesOf(answer) ==
    CASE answer = "DeviceNotFound" -> {"gone"}
      [] answer = "NotPaired" -> {"unpaired", "denied"}
      [] answer = "PairingDialogPending" -> {"prompt"}
      [] answer = "unpaired" -> {"unpaired", "denied", "prompt"}
      [] answer \in {"Locked", "locked"} -> {"locked"}
      [] answer = "UsbmuxdUnavailable" -> {"muxer", "gone"}
      [] OTHER -> Trouble

\* Calls that go on with their tunnel, and those that can drop one unclosed.
Keeping == {"start_ios_screenshot_stream", "start_ios_input", "start_ios_input_gated"}
Dropping == Keeping \cup {"capture_ios_screenshot"}

\* The error, or the status of a description, names a trouble the phone was in
\* while the call was under way, however it changed meanwhile; a device that is
\* merely locked or not paired is described, never an error.  A call that opened a
\* tunnel has closed it whichever await failed, stopping an app before its data is
\* cleared included; only a stream or a session goes on with it, and it is dropped
\* unclosed only where one could not be set up, or by a screenshot.
AnswersAreTrue ==
    /\ CallsTypeOK
    /\ reply \in (Errors \cup Statuses) \ {"device"} => met \cap CausesOf(reply) # {}
    /\ call = "describe_ios_device" /\ reply \in Errors =>
          met \cap {"muxer", "gone"} # {}
    /\ reply # Pending /\ tunnel = "open" => reply = "Ok" /\ call \in Keeping
    /\ tunnel = "dropped" => call \in Dropping

\* "usbmuxd itself is unreachable" (ios.rs:68).  A phone unplugged between its
\* lookup and the connection to it gives the same error, muxer or not.
UnavailableIsUnreachable == reply = "UsbmuxdUnavailable" => "muxer" \in met
=============================================================================
