----------------------- MODULE SelfCheckCancellation -----------------------
(***************************************************************************)
(* runPreSelfCheck in its detached background thread, and the web server   *)
(* thread that accepts other actions meanwhile (ui/web_server.cpp,         *)
(* runNamedAction).  The controller has no lock of its own: a step here is *)
(* what one thread does between two accesses to state the other one also   *)
(* uses: the cancel flag, the top state, the motor output.  A dispatch     *)
(* reads the top state in one step and writes it in a later one.           *)
(*                                                                         *)
(* pc[t] names what thread t does next; "idle" is a worker that is not     *)
(* running and a server that waits for a request.                          *)
(***************************************************************************)
EXTENDS GripperTopState

CONSTANT WebActions    \* the requests the server receives

AllWebActions == {"stop", "disable", "clearFault", "enable", "disconnect",
                  "connect"}

ASSUME WebActionsAssumption == WebActions \subseteq AllWebActions

VARIABLES
  topState,     \* state_machine_.state()
  cancel,       \* operation_cancel_requested_
  enabled,      \* motor_->isEnabled()
  connected,    \* motor_->isConnected()
  preChecked,   \* pre_self_check_completed_
  pc,           \* what each thread does next
  due,          \* the state each thread's dispatch is about to write
  interfered    \* history: enable() or connect() was asked for during this
                \* self-check

vars == <<topState, cancel, enabled, connected, preChecked, pc, due, interfered>>

Threads == {"worker", "web"}

\* From the entry of the first probe to the last check before the results
\* are stored, and the ways out.
Probing  == {"probe", "turnOn", "command", "send", "wait", "degrade", "profile"}
Leaving  == {"fail", "failed", "abort", "aborted"}
Storing  == {"store", "succeed", "settle", "settled", "late", "unload"}
Entering == {"ensure", "gate", "clear", "check", "pass", "switchOn", "arrive",
             "read"}
Serving  == {"stopLook", "stopOff", "stopSay", "disableLook", "disableOff",
             "disableSay", "disableRead", "clearSay", "closeOff", "close",
             "closeSay", "forget", "open", "openSay"}

TypeOK ==
  /\ topState \in States
  /\ due \in [Threads -> States \union {"none"}]
  /\ pc.worker \in {"idle", "start", "request"} \union Entering \union Probing
                   \union Leaving \union Storing
  /\ pc.web \in {"idle"} \union Entering \union Serving
  /\ DOMAIN pc = Threads
  /\ cancel \in BOOLEAN /\ enabled \in BOOLEAN
  /\ connected \in BOOLEAN /\ preChecked \in BOOLEAN /\ interfered \in BOOLEAN

\* Connected, and switched on, off again or not yet, ready for a self-check.
Init ==
  /\ topState \in {"Connected", "Enabled", "Disabled"}
  /\ enabled = (topState = "Enabled")
  /\ connected = TRUE /\ cancel = FALSE /\ preChecked = FALSE
  /\ pc = [t \in Threads |-> "idle"]
  /\ due = [t \in Threads |-> "none"]
  /\ interfered = FALSE

-----------------------------------------------------------------------------
(* Steps of a thread. *)

\* Mutant of Cancelled: only the top state counts.
CancelledByState == topState \in Latched

\* operationCancelRequested, as checkOperationCancelled reads it.
Cancelled == cancel \/ topState \in Latched

\* Thread t goes from one label to the next; it first finishes its dispatch.
Goes(t, from, to) ==
  /\ pc[t] = from /\ due[t] = "none"
  /\ pc' = [pc EXCEPT ![t] = to]

motor == <<enabled, connected>>
quiet == <<topState, due>>

\* dispatch(e): an accepted event computes the state to write from the one it
\* read, a rejected one writes nothing.
Dispatching(t, e) ==
  /\ due' = IF Accepts(topState, e) THEN [due EXCEPT ![t] = Dispatch(topState, e)]
            ELSE due
  /\ UNCHANGED topState

\* Mutant of Write: a rejected event is written as well.
WriteAlways(t) ==
  /\ topState' = due[t] /\ due' = [due EXCEPT ![t] = "none"]
  /\ UNCHANGED <<cancel, motor, preChecked, pc>>

\* The rest of a dispatch.
Write(t) ==
  /\ due[t] # "none"
  /\ topState' = due[t] /\ due' = [due EXCEPT ![t] = "none"]
  /\ UNCHANGED <<cancel, motor, preChecked, pc>>

\* updateFeedback: nothing, or a fault frame, after which the output is off.
\* The frame's arrival is taken together with the read that sees it.
Feedback(on) ==
  /\ UNCHANGED <<due, connected>>
  /\ \/ enabled' = on /\ UNCHANGED topState
     \/ connected /\ enabled' = FALSE /\ topState' = "Fault"

\* disableAfterMotion.
DisableAfterMotion == Feedback(FALSE)

-----------------------------------------------------------------------------
(* enable(), which both threads run, the worker from ensureEnabled.  A     *)
(* self-check is never asked for in Ready, nor in the bring-up mode.        *)

Ensure ==
  /\ UNCHANGED <<quiet, cancel, motor, preChecked>>
  /\ \/ (Cancelled \/ ~connected) /\ Goes("worker", "ensure", "idle")
     \/ /\ ~Cancelled /\ connected
        /\ Goes("worker", "ensure", IF enabled THEN "request" ELSE "gate")

Gate(t) ==
  /\ UNCHANGED <<quiet, cancel, motor, preChecked>>
  /\ \/ (~connected \/ topState \in Latched) /\ Goes(t, "gate", "idle")
     \/ /\ connected /\ topState \notin Latched
        /\ Goes(t, "gate", IF cancel THEN "clear" ELSE "check")

Clear(t) ==
  /\ Goes(t, "clear", "check")
  /\ cancel' = FALSE
  /\ UNCHANGED <<quiet, motor, preChecked>>

\* From Connected the check and its result; elsewhere both are skipped.
Check(t) ==
  /\ UNCHANGED <<cancel, motor, preChecked>>
  /\ \/ /\ topState = "Connected" /\ Goes(t, "check", "pass")
        /\ Dispatching(t, "HardwareCheckRequested")
     \/ /\ topState # "Connected" /\ Goes(t, "check", "switchOn")
        /\ UNCHANGED quiet

Pass(t) ==
  /\ Goes(t, "pass", "switchOn")
  /\ Dispatching(t, "HardwareCheckPassed")
  /\ UNCHANGED <<cancel, motor, preChecked>>

\* MotorInterface::enable; a failure only dispatches the ignored EnableFailed.
SwitchOn(t) ==
  /\ UNCHANGED <<quiet, cancel, connected, preChecked>>
  /\ \/ connected /\ enabled' = TRUE /\ Goes(t, "switchOn", "arrive")
     \/ enabled' = FALSE /\ Goes(t, "switchOn", "idle")

\* EnableSucceeded: when it is rejected outside Enabled the call fails and the
\* output stays as it is.
Arrive(t) ==
  /\ UNCHANGED <<cancel, motor, preChecked>>
  /\ Goes(t, "arrive", IF Accepts(topState, "EnableSucceeded") \/ topState = "Enabled"
                       THEN "read" ELSE "idle")
  /\ Dispatching(t, "EnableSucceeded")

Read(t) ==
  /\ Goes(t, "read", IF t = "worker" THEN "request" ELSE "idle")
  /\ Feedback(enabled)
  /\ UNCHANGED <<cancel, preChecked>>

Enabling(t) == Gate(t) \/ Clear(t) \/ Check(t) \/ Pass(t) \/ SwitchOn(t)
               \/ Arrive(t) \/ Read(t)

-----------------------------------------------------------------------------
(* The self-check thread. *)

W(from, to) == Goes("worker", from, to)

\* runNamedAction("selfcheck"): refused while g_self_check_running, which the
\* thread clears as its last act.  The server serves one request after the other:
\* its earlier call has returned, with its dispatch written.
StartSelfCheck ==
  /\ pc.web = "idle" /\ due["web"] = "none" /\ W("idle", "start")
  /\ UNCHANGED <<quiet, cancel, motor, preChecked>>

Start == /\ W("start", "ensure") /\ cancel' = FALSE
         /\ UNCHANGED <<quiet, motor, preChecked>>

\* A rejected request returns with the output on.
Request ==
  /\ UNCHANGED <<cancel, motor, preChecked>>
  /\ W("request", IF Accepts(topState, "PreSelfCheckRequested") THEN "probe" ELSE "idle")
  /\ Dispatching("worker", "PreSelfCheckRequested")

\* A probe, its refresh or its hold sends a command: sendLimitedCommand checks
\* for a cancel request and switches the output on if need be, ...
Probe ==
  /\ UNCHANGED <<quiet, cancel, motor, preChecked>>
  /\ \/ Cancelled /\ (W("probe", "fail") \/ W("probe", "degrade"))
     \/ ~Cancelled /\ ~connected /\ W("probe", "fail")
     \/ ~Cancelled /\ connected /\ W("probe", IF enabled THEN "command" ELSE "turnOn")

TurnOn ==
  /\ UNCHANGED <<cancel, preChecked>>
  /\ \/ connected /\ Feedback(TRUE) /\ W("turnOn", "command")
     \/ /\ enabled' = FALSE /\ W("turnOn", "fail")
        /\ UNCHANGED <<quiet, connected>>

\* ... may stop on a limit, and checks again in sendNutMotionCommand before ...
Command ==
  /\ UNCHANGED <<due, cancel, motor, preChecked>>
  /\ \/ /\ topState' = "ActiveStop"
        /\ W("command", "fail") \/ W("command", "degrade")
     \/ /\ UNCHANGED topState
        /\ \/ Cancelled /\ (W("command", "fail") \/ W("command", "degrade"))
           \/ ~Cancelled /\ W("command", "send")

\* Mutant of Send: the motor does not look at its enabled flag.
SendUnchecked ==
  /\ UNCHANGED <<quiet, cancel, motor, preChecked>>
  /\ W("send", IF connected THEN "wait" ELSE "fail")

\* ... the frame is sent, which the motor refuses when it is not enabled.
Send ==
  /\ UNCHANGED <<quiet, cancel, motor, preChecked>>
  /\ W("send", IF connected /\ enabled THEN "wait" ELSE "fail")

\* The wait for feedback: cancelled, failed, refreshed, at the end of a probe
\* with the output held or switched off, or at the end of the probes.  A probe
\* that did not fail because of a cancel may be degraded instead of failed.
Wait ==
  /\ UNCHANGED <<cancel, preChecked>>
  /\ \/ /\ Cancelled /\ UNCHANGED <<quiet, motor>>
        /\ W("wait", "fail") \/ W("wait", "degrade")
     \/ /\ ~Cancelled /\ Feedback(enabled)
        /\ W("wait", "probe") \/ W("wait", "profile") \/ W("wait", "fail")
     \/ ~Cancelled /\ DisableAfterMotion /\ W("wait", "probe")

\* A degraded phase ends by a check for a cancel request.
Degrade ==
  /\ UNCHANGED <<quiet, cancel, motor, preChecked>>
  /\ \/ Cancelled /\ W("degrade", "abort")
     \/ ~Cancelled /\ (W("degrade", "probe") \/ W("degrade", "profile"))

Profile ==
  /\ UNCHANGED <<quiet, cancel, motor, preChecked>>
  /\ W("profile", IF Cancelled THEN "abort" ELSE "store")

\* Mutant of Fail: the early return forgets the event.
FailSilently ==
  \/ W("fail", "failed") /\ DisableAfterMotion /\ UNCHANGED <<cancel, preChecked>>
  \/ W("failed", "idle") /\ UNCHANGED <<quiet, cancel, motor, preChecked>>

\* A failed phase: disableAfterMotion, then PreSelfCheckFailed.
Fail ==
  \/ W("fail", "failed") /\ DisableAfterMotion /\ UNCHANGED <<cancel, preChecked>>
  \/ /\ W("failed", "idle") /\ Dispatching("worker", "PreSelfCheckFailed")
     /\ UNCHANGED <<cancel, motor, preChecked>>

\* Mutant of Abort: the output is not disabled.
AbortUnderPower ==
  \/ W("abort", "aborted") /\ UNCHANGED <<quiet, cancel, motor, preChecked>>
  \/ /\ W("aborted", "idle") /\ Dispatching("worker", "StopRequested")
     /\ UNCHANGED <<cancel, motor, preChecked>>

\* abortPreSelfCheck.
Abort ==
  \/ W("abort", "aborted") /\ DisableAfterMotion /\ UNCHANGED <<cancel, preChecked>>
  \/ /\ W("aborted", "idle") /\ Dispatching("worker", "StopRequested")
     /\ UNCHANGED <<cancel, motor, preChecked>>

\* The completed self-check: the flag is set and the event dispatched whether or
\* not a stop came in between.
Store ==
  /\ W("store", "succeed") /\ preChecked' = TRUE
  /\ UNCHANGED <<quiet, cancel, motor>>

Succeed ==
  /\ W("succeed", "settle") /\ Dispatching("worker", "PreSelfCheckSucceeded")
  /\ UNCHANGED <<cancel, motor, preChecked>>

\* stopAndWaitForSettledFeedback, and the last event.
Settle ==
  \/ W("settle", "settled") /\ DisableAfterMotion /\ UNCHANGED <<cancel, preChecked>>
  \/ /\ UNCHANGED <<quiet, cancel, motor, preChecked>>
     /\ W("settled", "late") \/ (~Cancelled /\ W("settled", "unload"))

Unload ==
  /\ UNCHANGED <<cancel, motor, preChecked>>
  /\ \/ W("late", "idle") /\ Dispatching("worker", "ActiveStopTriggered")
     \/ W("unload", "idle") /\ Dispatching("worker", "DisableRequested")

SelfCheck == Start \/ Ensure \/ Enabling("worker") \/ Request \/ Probe \/ TurnOn \/ Command
             \/ Send \/ Wait \/ Degrade \/ Profile \/ Fail \/ Abort \/ Store
             \/ Succeed \/ Settle \/ Unload \/ Write("worker")

-----------------------------------------------------------------------------
(* The server thread. *)

Serve(from, to)     == Goes("web", from, to)
Receive(action, to) == action \in WebActions /\ Serve("idle", to)

\* requestOperationCancel, the first thing stop, disable and disconnect do.
Cancelling(action, to) ==
  /\ Receive(action, to) /\ cancel' = TRUE
  /\ UNCHANGED <<quiet, motor, preChecked>>

\* disable() of the motor: isEnabled() is false afterwards.
SwitchOff(from, to) ==
  /\ Serve(from, to) /\ enabled' = FALSE
  /\ UNCHANGED <<quiet, cancel, connected, preChecked>>

\* motor_->isConnected() && motor_->isEnabled().
Look(from, on, off) ==
  /\ Serve(from, IF connected /\ enabled THEN on ELSE off)
  /\ UNCHANGED <<quiet, cancel, motor, preChecked>>

Say(from, to, e) ==
  /\ Serve(from, to) /\ Dispatching("web", e)
  /\ UNCHANGED <<cancel, motor, preChecked>>

Stop == \/ Cancelling("stop", "stopLook")
        \/ Look("stopLook", "stopOff", "stopSay")
        \/ SwitchOff("stopOff", "stopSay")
        \/ Say("stopSay", "idle", "StopRequested")

\* A motor that refuses the frame ends the call before the event.
Disable ==
  \/ Cancelling("disable", "disableLook")
  \/ Look("disableLook", "disableOff", "disableSay")
  \/ SwitchOff("disableOff", "disableSay")
  \/ SwitchOff("disableOff", "idle")
  \/ topState # "Disconnected" /\ Say("disableSay", "disableRead", "DisableRequested")
  \/ /\ topState = "Disconnected" /\ Serve("disableSay", "disableRead")
     /\ UNCHANGED <<quiet, cancel, motor, preChecked>>
  \/ /\ Serve("disableRead", "idle") /\ Feedback(enabled)
     /\ UNCHANGED <<cancel, preChecked>>

\* The clear-fault frame switches the output off too; its failure is ignored.
ClearFault ==
  \/ connected /\ "clearFault" \in WebActions /\ SwitchOff("idle", "clearSay")
  \/ /\ Receive("clearFault", "clearSay")
     /\ UNCHANGED <<quiet, cancel, motor, preChecked>>
  \/ topState \in Latched /\ Say("clearSay", "idle", "FaultCleared")
  \/ /\ topState \notin Latched /\ Serve("clearSay", "idle")
     /\ UNCHANGED <<quiet, cancel, motor, preChecked>>

Enable == Receive("enable", "gate") /\ UNCHANGED <<quiet, cancel, motor, preChecked>>

Disconnect ==
  \/ Cancelling("disconnect", "closeOff")
  \/ SwitchOff("closeOff", "close")
  \/ /\ Serve("close", "closeSay") /\ enabled' = FALSE /\ connected' = FALSE
     /\ UNCHANGED <<quiet, cancel, preChecked>>
  \/ Say("closeSay", "forget", "DisconnectRequested")
  \/ /\ Serve("forget", "idle") /\ preChecked' = FALSE
     /\ UNCHANGED <<quiet, cancel, motor>>

\* DamiaoMotor::connect closes first; a failure dispatches the ignored
\* ConnectFailed.
Connect ==
  \/ /\ Receive("connect", "open") /\ enabled' = FALSE /\ connected' = FALSE
     /\ UNCHANGED <<quiet, cancel, preChecked>>
  \/ /\ Serve("open", "openSay") /\ connected' = TRUE
     /\ UNCHANGED <<quiet, cancel, enabled, preChecked>>
  \/ Serve("open", "idle") /\ UNCHANGED <<quiet, cancel, motor, preChecked>>
  \/ Say("openSay", "idle", "ConnectSucceeded")

\* /api/view: update(), only while no self-check runs.
View ==
  /\ pc.worker = "idle" /\ pc.web = "idle" /\ due = [t \in Threads |-> "none"]
  /\ Feedback(enabled)
  /\ UNCHANGED <<cancel, preChecked, pc>>

Server == Stop \/ Disable \/ ClearFault \/ Enable \/ Enabling("web")
          \/ Disconnect \/ Connect \/ Write("web")

Observe ==
  interfered' = (pc'.web \in {"gate", "open"} \/ (interfered /\ pc.worker # "idle"))

Next == (StartSelfCheck \/ SelfCheck \/ Server \/ View) /\ Observe

\* Both threads run as long as they have something to do; no request has to
\* arrive.
Spec == /\ Init /\ [][Next]_vars
        /\ WF_vars(SelfCheck /\ Observe)
        /\ WF_vars(Server /\ (pc.web # "idle" \/ due["web"] # "none") /\ Observe)

-----------------------------------------------------------------------------
(* Properties. *)

AtRest == pc = [t \in Threads |-> "idle"] /\ due = [t \in Threads |-> "none"]

\* Once stop() or disable() has returned, the self-check sends no further
\* position command, whatever check it had already passed (sendNutMotionCommand,
\* DamiaoMotor::sendCommand).
NoMotionAfterStop ==
  [][pc.worker = "send" /\ pc'.worker = "wait" => ~(cancel /\ pc.web = "idle")]_vars

\* A self-check that got as far as moving leaves the motor off when its thread
\* ends, however it was interrupted (disableAfterMotion on every way out); only
\* an enable() asked for meanwhile switches it on again.
SelfCheckEndsUnpowered ==
  [][/\ pc.worker \in Probing \union Leaving \union Storing
     /\ pc'.worker = "idle" /\ ~interfered
     => ~enabled']_vars

\* When neither thread has anything left to do, the top state is no motion
\* state: the lost updates of two concurrent dispatches never leave the
\* controller inside PreSelfCheck or another operation.
NoMotionStateAtRest == AtRest => topState \notin ActiveMotion

\* Whatever requests, retries and pending dispatches overlap, at rest a
\* Disconnected controller has a closed link and its output off.
DisconnectedAtRest ==
  AtRest /\ topState = "Disconnected" => ~connected /\ ~enabled

CoherentAtRest == NoMotionStateAtRest /\ DisconnectedAtRest

\* A cancel request raised while the self-check moves ends its thread, unless an
\* enable() withdraws the request before the thread has seen it.
CancelEndsSelfCheck ==
  (pc.worker \in Probing /\ cancel) ~> (pc.worker = "idle" \/ ~cancel)

\* The workflow test of a cancelled self-check expects the output off once it
\* has returned: "cancelled PreSelfCheck must leave motor output disabled".
CancelledIsUnpowered == AtRest /\ topState = "ActiveStop" => ~enabled

\* The control architecture: an interrupted workflow's state machine enters
\* ActiveStop (here the only request is stop, and nothing clears it).
StopIsKept == AtRest /\ cancel => topState \in Latched
=============================================================================
