--------------------- MODULE SelfCheckCancellation_proof ---------------------
(***************************************************************************)
(* The self-check thread and the server's requests, for any set of        *)
(* requests: nothing moves after a stop has returned, the self-check ends  *)
(* unpowered, and at rest the top state agrees with the link and the       *)
(* output, although dispatches of the two threads overwrite one another.   *)
(***************************************************************************)
EXTENDS SelfCheckCancellation, GripperStateMachine_proof

\* The link is open whenever the output is on.
Powered == enabled => connected

\* An enable() of the server has withdrawn the cancel request before it switches
\* the output on.
Withdrawn == pc.web \in {"check", "pass", "switchOn"} => ~cancel

\* A command that has passed its checks meets a cancel request only while the
\* call that raised it has yet to switch the output off.
Stopping ==
  pc.worker = "send" /\ cancel /\ enabled =>
    pc.web \in {"stopLook", "stopOff", "disableLook", "disableOff", "closeOff"}

\* enable() in the server during a self-check is an interference.
Interfering == pc.worker # "idle" /\ pc.web \in Entering => interfered

\* Past the disable of its way out the self-check has no power.
Unpowered ==
  pc.worker \in {"failed", "aborted", "settled", "late", "unload"} /\ ~interfered
    => ~enabled

\* The motion state is the worker's own, and it has yet to leave it.
Moving ==
  /\ due.web \notin ActiveMotion
  /\ due.worker \in ActiveMotion => due.worker = "PreSelfCheck" /\ pc.worker = "probe"
  /\ topState \in ActiveMotion =>
       /\ topState = "PreSelfCheck"
       /\ \/ due.worker \notin ActiveMotion \union {"none"}
          \/ pc.worker \in Probing \union Leaving \union {"store", "succeed"}

\* Disconnected is written by the call that has closed the link, and an open link
\* is still to be announced.
Announced ==
  /\ due.worker # "Disconnected"
  /\ due.web = "Disconnected" \/ pc.web = "closeSay" => ~connected
  /\ topState = "Disconnected" /\ connected =>
       pc.web = "openSay" \/ due.web \notin {"none", "Disconnected"}

IInv == /\ TypeOK /\ Powered /\ Withdrawn /\ Stopping /\ Interfering /\ Unpowered
        /\ Moving /\ Announced

-----------------------------------------------------------------------------
(* What a step is made of. *)

\* A step of the worker leaves the server where it is.
LEMMA WorkerGoes ==
  ASSUME TypeOK, NEW from, NEW to, Goes("worker", from, to)
  PROVE  /\ pc.worker = from /\ due.worker = "none"
         /\ pc'.worker = to /\ pc'.web = pc.web /\ DOMAIN pc' = Threads
  BY DEF TypeOK, Goes, Threads

\* A step of the server leaves the worker where it is.
LEMMA WebGoes ==
  ASSUME TypeOK, NEW from, NEW to, Goes("web", from, to)
  PROVE  /\ pc.web = from /\ due.web = "none"
         /\ pc'.web = to /\ pc'.worker = pc.worker /\ DOMAIN pc' = Threads
  BY DEF TypeOK, Goes, Threads

\* A dispatch of the worker leaves what the server is about to write.
LEMMA WorkerDispatches ==
  ASSUME TypeOK, NEW e, Dispatching("worker", e)
  PROVE  /\ due' \in [Threads -> States \union {"none"}]
         /\ topState' = topState /\ due'.web = due.web
         /\ due'.worker = IF Accepts(topState, e) THEN Dispatch(topState, e)
                          ELSE due.worker
  BY DispatchType DEF TypeOK, Dispatching, Threads

\* A dispatch of the server leaves what the worker is about to write.
LEMMA WebDispatches ==
  ASSUME TypeOK, NEW e, Dispatching("web", e)
  PROVE  /\ due' \in [Threads -> States \union {"none"}]
         /\ topState' = topState /\ due'.worker = due.worker
         /\ due'.web = IF Accepts(topState, e) THEN Dispatch(topState, e)
                       ELSE due.web
  BY DispatchType DEF TypeOK, Dispatching, Threads

\* Feedback that is only read can switch the output off, and then shows a fault.
LEMMA FeedbackKeeps ==
  ASSUME TypeOK, Feedback(enabled) \/ Feedback(FALSE)
  PROVE  /\ UNCHANGED <<due, connected>>
         /\ topState' \in {topState, "Fault"}
         /\ enabled' \in BOOLEAN /\ (enabled' => enabled)
  <1>1. /\ UNCHANGED <<due, connected>>
        /\ topState' \in {topState, "Fault"}
    BY DEF Feedback
  <1>2. enabled' = enabled \/ enabled' = FALSE
    BY Zenon DEF Feedback
  <1>3. enabled' \in BOOLEAN
    BY <1>2, Zenon DEF TypeOK
  <1>4. QED BY <1>1, <1>2, <1>3

\* The history variable of a step during a self-check.
LEMMA Observed ==
  ASSUME TypeOK, Observe
  PROVE  /\ interfered' \in BOOLEAN
         /\ pc.worker # "idle" /\ interfered => interfered'
         /\ pc'.web \in {"gate", "open"} => interfered'
  BY DEF TypeOK, Observe
-----------------------------------------------------------------------------
(* The worker. *)

Labels == {"idle", "start", "request"} \union Entering \union Probing
          \union Leaving \union Storing

\* The labels at which the motion state is still to be left, and those past the
\* disable of a way out.
Owning == Probing \union Leaving \union {"store", "succeed"}
Ended  == {"failed", "aborted", "settled", "late", "unload"}

\* What the worker may write.
Written == {"none", "HardwareSanityCheck", "ModeSwitching", "Enabled", "PreSelfCheck",
            "ActiveStop", "Disabled"}

\* A step of the worker from one label to the next.
Turn ==
  /\ due.worker = "none" /\ pc.worker # "idle"
  /\ DOMAIN pc' = Threads /\ pc'.web = pc.web /\ pc'.worker \in Labels
  /\ due' \in [Threads -> States \union {"none"}]
  /\ due'.web = due.web /\ due'.worker \in Written
  /\ topState' \in {topState, "Fault", "ActiveStop"}
  /\ connected' = connected
  /\ enabled' \in BOOLEAN /\ (enabled' => connected)
  /\ cancel' \in BOOLEAN /\ (cancel' => cancel)
  /\ preChecked' \in BOOLEAN

\* What such a step has to respect: it sends only without a cancel request, it
\* keeps the output off past the disable, and it leaves the motion state.
Lawful ==
  /\ pc'.worker = "send" => ~cancel'
  /\ pc'.worker \in Ended /\ enabled' => pc.worker \in Ended /\ enabled
  /\ due'.worker = "PreSelfCheck" => pc'.worker = "probe"
  /\ topState' = "PreSelfCheck" /\ pc.worker \in Owning =>
       due'.worker \notin {"none", "PreSelfCheck"} \/ pc'.worker \in Owning

\* A lawful step of the worker keeps the invariant, whatever the server is at.
LEMMA TurnKeeps ==
  ASSUME IInv, Observe, Turn, Lawful
  PROVE  IInv'
  <1>1. /\ interfered' \in BOOLEAN
        /\ interfered => interfered'
    BY Observed DEF IInv, Turn
  <1>2. TypeOK'
    BY <1>1 DEF IInv, TypeOK, Turn, Labels, States, Latched
  <1>3. (Powered /\ Withdrawn)'
    BY DEF IInv, TypeOK, Turn, Powered, Withdrawn
  <1>4. (Stopping /\ Interfering)'
    BY <1>1 DEF IInv, Turn, Lawful, Stopping, Interfering
  <1>5. Unpowered'
    BY <1>1 DEF IInv, Turn, Lawful, Unpowered, Ended
  <1>6. Moving'
    BY DEF IInv, Turn, Lawful, Moving, ActiveMotion, Owning, Written
  <1>7. Announced'
    BY DEF IInv, Turn, Announced, Written
  <1>8. QED BY <1>2, <1>3, <1>4, <1>5, <1>6, <1>7 DEF IInv

\* The labels, expanded where a step names one.
USE DEF Entering, Probing, Leaving, Storing, Labels, Owning, Ended

\* Asking ensureEnabled, and looking at the enabled flag.
LEMMA EnsureTurns ==
  ASSUME IInv, Start \/ Ensure
  PROVE  Turn /\ Lawful
  <1>1. CASE Start
    <2>1. pc.worker = "start" /\ pc'.worker = "ensure" /\ due.worker = "none"
          /\ pc'.web = pc.web /\ DOMAIN pc' = Threads
      BY <1>1, WorkerGoes DEF Start, W, IInv
    <2>2. QED
      BY <1>1, <2>1 DEF Start, Turn, Lawful, quiet, motor, IInv, TypeOK, Powered, Written
  <1>2. CASE Ensure
    <2>1. pc.worker = "ensure" /\ pc'.worker \in {"idle", "request", "gate"}
          /\ due.worker = "none" /\ pc'.web = pc.web /\ DOMAIN pc' = Threads
      BY <1>2, WorkerGoes DEF Ensure, IInv
    <2>2. QED
      BY <1>2, <2>1 DEF Ensure, Turn, Lawful, quiet, motor, IInv, TypeOK, Powered, Written
  <1>3. QED BY <1>1, <1>2
\* enable() in the worker: it may show a check or Enabled, never a motion state.
LEMMA EnablingTurns ==
  ASSUME IInv, Enabling("worker")
  PROVE  Turn /\ Lawful
  <1> USE DEF Turn, Lawful, Written, quiet, motor, IInv, TypeOK, Powered
  <1>1. CASE Gate("worker")
    <2>1. pc.worker = "gate" /\ pc'.worker \in {"idle", "clear", "check"}
          /\ due.worker = "none" /\ pc'.web = pc.web /\ DOMAIN pc' = Threads
      BY <1>1, WorkerGoes DEF Gate
    <2>2. QED BY <1>1, <2>1 DEF Gate
  <1>2. CASE Clear("worker")
    <2>1. pc.worker = "clear" /\ pc'.worker = "check"
          /\ due.worker = "none" /\ pc'.web = pc.web /\ DOMAIN pc' = Threads
      BY <1>2, WorkerGoes DEF Clear
    <2>2. QED BY <1>2, <2>1 DEF Clear
  <1>3. CASE Check("worker")
    <2>1. pc.worker = "check" /\ pc'.worker \in {"pass", "switchOn"}
          /\ due.worker = "none" /\ pc'.web = pc.web /\ DOMAIN pc' = Threads
      BY <1>3, WorkerGoes DEF Check
    <2>2. /\ due' \in [Threads -> States \union {"none"}]
          /\ topState' = topState /\ due'.web = due.web
          /\ due'.worker \in {"none", "HardwareSanityCheck"}
      BY <1>3, <2>1, WorkerDispatches, OnEnabling DEF Check
    <2>3. QED BY <1>3, <2>1, <2>2 DEF Check
  <1>4. CASE Pass("worker")
    <2>1. pc.worker = "pass" /\ pc'.worker = "switchOn"
          /\ due.worker = "none" /\ pc'.web = pc.web /\ DOMAIN pc' = Threads
      BY <1>4, WorkerGoes DEF Pass
    <2>2. /\ due' \in [Threads -> States \union {"none"}]
          /\ topState' = topState /\ due'.web = due.web
          /\ due'.worker \in {"none", "ModeSwitching"}
      BY <1>4, <2>1, WorkerDispatches, OnEnabling DEF Pass
    <2>3. QED BY <1>4, <2>1, <2>2 DEF Pass
  <1>5. CASE SwitchOn("worker")
    <2>1. pc.worker = "switchOn" /\ pc'.worker \in {"arrive", "idle"}
          /\ due.worker = "none" /\ pc'.web = pc.web /\ DOMAIN pc' = Threads
      BY <1>5, WorkerGoes DEF SwitchOn
    <2>2. QED BY <1>5, <2>1 DEF SwitchOn
  <1>6. CASE Arrive("worker")
    <2>1. pc.worker = "arrive" /\ pc'.worker \in {"read", "idle"}
          /\ due.worker = "none" /\ pc'.web = pc.web /\ DOMAIN pc' = Threads
      BY <1>6, WorkerGoes DEF Arrive
    <2>2. /\ due' \in [Threads -> States \union {"none"}]
          /\ topState' = topState /\ due'.web = due.web
          /\ due'.worker \in {"none", "Enabled"}
      BY <1>6, <2>1, WorkerDispatches, OnEnabling DEF Arrive
    <2>3. QED BY <1>6, <2>1, <2>2 DEF Arrive
  <1>7. CASE Read("worker")
    <2>1. pc.worker = "read" /\ pc'.worker = "request"
          /\ due.worker = "none" /\ pc'.web = pc.web /\ DOMAIN pc' = Threads
      BY <1>7, WorkerGoes DEF Read
    <2>2. /\ UNCHANGED <<due, connected>>
          /\ topState' \in {topState, "Fault"}
          /\ enabled' \in BOOLEAN /\ (enabled' => enabled)
      BY <1>7, FeedbackKeeps DEF Read
    <2>3. QED BY <1>7, <2>1, <2>2 DEF Read
  <1>8. QED BY <1>1, <1>2, <1>3, <1>4, <1>5, <1>6, <1>7 DEF Enabling

\* A probe: the request, the checks and the command, and the wait for feedback.
LEMMA ProbeTurns ==
  ASSUME IInv, Request \/ Probe \/ TurnOn \/ Command \/ Send \/ Wait
  PROVE  Turn /\ Lawful
  <1> USE DEF Turn, Lawful, Written, W, quiet, motor, IInv, TypeOK, Powered
  <1>1. CASE Request
    <2>1. /\ pc.worker = "request"
          /\ pc'.worker = IF Accepts(topState, "PreSelfCheckRequested") THEN "probe"
                          ELSE "idle"
          /\ due.worker = "none" /\ pc'.web = pc.web /\ DOMAIN pc' = Threads
      BY <1>1, WorkerGoes DEF Request
    <2>2. /\ due' \in [Threads -> States \union {"none"}]
          /\ topState' = topState /\ due'.web = due.web
          /\ due'.worker = IF Accepts(topState, "PreSelfCheckRequested")
                           THEN "PreSelfCheck" ELSE "none"
      BY <1>1, <2>1, WorkerDispatches, OnPreSelfCheck DEF Request
    <2>3. QED BY <1>1, <2>1, <2>2 DEF Request
  <1>2. CASE Probe
    <2>1. pc.worker = "probe" /\ pc'.worker \in {"fail", "degrade", "command", "turnOn"}
          /\ due.worker = "none" /\ pc'.web = pc.web /\ DOMAIN pc' = Threads
      BY <1>2, WorkerGoes DEF Probe
    <2>2. QED BY <1>2, <2>1 DEF Probe
  <1>3. CASE TurnOn
    <2>1. pc.worker = "turnOn" /\ pc'.worker \in {"command", "fail"}
          /\ due.worker = "none" /\ pc'.web = pc.web /\ DOMAIN pc' = Threads
      BY <1>3, WorkerGoes DEF TurnOn
    <2>2. QED BY <1>3, <2>1 DEF TurnOn, Feedback
  <1>4. CASE Command
    <2>1. pc.worker = "command" /\ pc'.worker \in {"fail", "degrade", "send"}
          /\ due.worker = "none" /\ pc'.web = pc.web /\ DOMAIN pc' = Threads
      BY <1>4, WorkerGoes DEF Command
    <2>2. pc'.worker = "send" => ~cancel'
      BY <1>4, <2>1, WorkerGoes DEF Command, Cancelled
    <2>3. QED BY <1>4, <2>1, <2>2 DEF Command
  <1>5. CASE Send
    <2>1. pc.worker = "send" /\ pc'.worker \in {"wait", "fail"}
          /\ due.worker = "none" /\ pc'.web = pc.web /\ DOMAIN pc' = Threads
      BY <1>5, WorkerGoes DEF Send
    <2>2. QED BY <1>5, <2>1 DEF Send
  <1>6. CASE Wait
    <2>1. pc.worker = "wait" /\ pc'.worker \in {"fail", "degrade", "probe", "profile"}
          /\ due.worker = "none" /\ pc'.web = pc.web /\ DOMAIN pc' = Threads
      BY <1>6, WorkerGoes DEF Wait
    <2>2. \/ UNCHANGED <<quiet, motor>>
          \/ /\ UNCHANGED <<due, connected>>
             /\ topState' \in {topState, "Fault"}
             /\ enabled' \in BOOLEAN /\ (enabled' => enabled)
      BY <1>6, FeedbackKeeps DEF Wait, DisableAfterMotion
    <2>3. QED BY <1>6, <2>1, <2>2 DEF Wait
  <1>7. QED BY <1>1, <1>2, <1>3, <1>4, <1>5, <1>6

\* The end of the self-check, by a failure, an abort or its completion.
LEMMA EndTurns ==
  ASSUME IInv, Degrade \/ Profile \/ Fail \/ Abort \/ Store \/ Succeed \/ Settle \/ Unload
  PROVE  Turn /\ Lawful
  <1> USE DEF Turn, Lawful, Written, W, quiet, motor, IInv, TypeOK, Powered
  <1>1. CASE Degrade \/ Profile
    <2>1. pc.worker \in {"degrade", "profile"}
          /\ pc'.worker \in {"abort", "probe", "profile", "store"}
          /\ due.worker = "none" /\ pc'.web = pc.web /\ DOMAIN pc' = Threads
      BY <1>1, WorkerGoes DEF Degrade, Profile
    <2>2. QED BY <1>1, <2>1 DEF Degrade, Profile
  <1>2. CASE Fail
    <2>1. CASE W("fail", "failed") /\ DisableAfterMotion /\ UNCHANGED <<cancel, preChecked>>
      <3>1. pc.worker = "fail" /\ pc'.worker = "failed"
            /\ due.worker = "none" /\ pc'.web = pc.web /\ DOMAIN pc' = Threads
        BY <2>1, WorkerGoes
      <3>2. QED BY <2>1, <3>1 DEF DisableAfterMotion, Feedback
    <2>2. CASE /\ W("failed", "idle") /\ Dispatching("worker", "PreSelfCheckFailed")
               /\ UNCHANGED <<cancel, motor, preChecked>>
      <3>1. pc.worker = "failed" /\ pc'.worker = "idle"
            /\ due.worker = "none" /\ pc'.web = pc.web /\ DOMAIN pc' = Threads
        BY <2>2, WorkerGoes
      <3>2. /\ due' \in [Threads -> States \union {"none"}]
            /\ topState' = topState /\ due'.web = due.web
            /\ due'.worker = IF topState = "PreSelfCheck" THEN "ActiveStop" ELSE "none"
        BY <2>2, <3>1, WorkerDispatches, OnPreSelfCheck
      <3>3. QED BY <2>2, <3>1, <3>2
    <2>3. QED BY <1>2, <2>1, <2>2 DEF Fail
  <1>3. CASE Abort
    <2>1. CASE W("abort", "aborted") /\ DisableAfterMotion /\ UNCHANGED <<cancel, preChecked>>
      <3>1. pc.worker = "abort" /\ pc'.worker = "aborted"
            /\ due.worker = "none" /\ pc'.web = pc.web /\ DOMAIN pc' = Threads
        BY <2>1, WorkerGoes
      <3>2. QED BY <2>1, <3>1 DEF DisableAfterMotion, Feedback
    <2>2. CASE /\ W("aborted", "idle") /\ Dispatching("worker", "StopRequested")
               /\ UNCHANGED <<cancel, motor, preChecked>>
      <3>1. pc.worker = "aborted" /\ pc'.worker = "idle"
            /\ due.worker = "none" /\ pc'.web = pc.web /\ DOMAIN pc' = Threads
        BY <2>2, WorkerGoes
      <3>2. /\ due' \in [Threads -> States \union {"none"}]
            /\ topState' = topState /\ due'.web = due.web
            /\ due'.worker = "ActiveStop"
        BY <2>2, <3>1, WorkerDispatches, DispatchGlobal DEF Accepts, GlobalEvents
      <3>3. QED BY <2>2, <3>1, <3>2
    <2>3. QED BY <1>3, <2>1, <2>2 DEF Abort
  <1>4. CASE Store
    <2>1. pc.worker = "store" /\ pc'.worker = "succeed"
          /\ due.worker = "none" /\ pc'.web = pc.web /\ DOMAIN pc' = Threads
      BY <1>4, WorkerGoes DEF Store
    <2>2. QED BY <1>4, <2>1 DEF Store
  <1>5. CASE Succeed
    <2>1. pc.worker = "succeed" /\ pc'.worker = "settle"
          /\ due.worker = "none" /\ pc'.web = pc.web /\ DOMAIN pc' = Threads
      BY <1>5, WorkerGoes DEF Succeed
    <2>2. /\ due' \in [Threads -> States \union {"none"}]
          /\ topState' = topState /\ due'.web = due.web
          /\ due'.worker = IF topState = "PreSelfCheck" THEN "Enabled" ELSE "none"
      BY <1>5, <2>1, WorkerDispatches, OnPreSelfCheck DEF Succeed
    <2>3. QED BY <1>5, <2>1, <2>2 DEF Succeed
  <1>6. CASE Settle
    <2>1. CASE W("settle", "settled") /\ DisableAfterMotion /\ UNCHANGED <<cancel, preChecked>>
      <3>1. pc.worker = "settle" /\ pc'.worker = "settled"
            /\ due.worker = "none" /\ pc'.web = pc.web /\ DOMAIN pc' = Threads
        BY <2>1, WorkerGoes
      <3>2. QED BY <2>1, <3>1 DEF DisableAfterMotion, Feedback
    <2>2. CASE /\ UNCHANGED <<quiet, cancel, motor, preChecked>>
               /\ W("settled", "late") \/ W("settled", "unload")
      <3>1. pc.worker = "settled" /\ pc'.worker \in {"late", "unload"}
            /\ due.worker = "none" /\ pc'.web = pc.web /\ DOMAIN pc' = Threads
        BY <2>2, WorkerGoes
      <3>2. QED BY <2>2, <3>1
    <2>3. QED BY <1>6, <2>1, <2>2 DEF Settle
  <1>7. CASE Unload
    <2>1. CASE W("late", "idle") /\ Dispatching("worker", "ActiveStopTriggered")
      <3>1. pc.worker = "late" /\ pc'.worker = "idle"
            /\ due.worker = "none" /\ pc'.web = pc.web /\ DOMAIN pc' = Threads
        BY <2>1, WorkerGoes
      <3>2. /\ due' \in [Threads -> States \union {"none"}]
            /\ topState' = topState /\ due'.web = due.web
            /\ due'.worker = "ActiveStop"
        BY <2>1, <3>1, WorkerDispatches, DispatchGlobal DEF Accepts, GlobalEvents
      <3>3. QED BY <1>7, <3>1, <3>2 DEF Unload
    <2>2. CASE W("unload", "idle") /\ Dispatching("worker", "DisableRequested")
      <3>1. pc.worker = "unload" /\ pc'.worker = "idle"
            /\ due.worker = "none" /\ pc'.web = pc.web /\ DOMAIN pc' = Threads
        BY <2>2, WorkerGoes
      <3>2. /\ due' \in [Threads -> States \union {"none"}]
            /\ topState' = topState /\ due'.web = due.web
            /\ due'.worker \in {"none", "Disabled"}
        BY <2>2, <3>1, WorkerDispatches, OnConnection
      <3>3. QED BY <1>7, <3>1, <3>2 DEF Unload
    <2>3. QED BY <1>7, <2>1, <2>2 DEF Unload
  <1>8. QED BY <1>1, <1>2, <1>3, <1>4, <1>5, <1>6, <1>7
-----------------------------------------------------------------------------
(* The server. *)

\* The labels at which a call has raised the cancel request and has yet to
\* switch the output off.
Stoppers == {"stopLook", "stopOff", "disableLook", "disableOff", "closeOff"}

\* A step of the server from one label to the next.
Served ==
  /\ due.web = "none"
  /\ DOMAIN pc' = Threads /\ pc'.worker = pc.worker
  /\ pc'.web \in {"idle"} \union Entering \union Serving
  /\ due' \in [Threads -> States \union {"none"}]
  /\ due'.worker = due.worker /\ due'.web \notin ActiveMotion
  /\ topState' \in {topState, "Fault"}
  /\ enabled' \in BOOLEAN /\ connected' \in BOOLEAN /\ (enabled' => connected')
  /\ cancel' \in BOOLEAN /\ preChecked' \in BOOLEAN

\* What such a step has to respect: a cancel request is withdrawn by enable() or
\* followed by a disable, only enable() switches on, and the top state shows
\* Disconnected only for a closed link.
Rightful ==
  /\ pc'.web \in {"check", "pass", "switchOn"} => ~cancel'
  /\ cancel' /\ enabled' =>
       pc'.web \in Stoppers \/ (cancel /\ enabled /\ pc.web \notin Stoppers)
  /\ pc'.web \in Entering => pc.web \in Entering \/ pc'.web = "gate"
  /\ enabled' => enabled \/ pc.web \in Entering
  /\ connected' => connected \/ pc'.web = "openSay"
  /\ due'.web = "Disconnected" \/ pc'.web = "closeSay" => ~connected'
  /\ pc.web = "openSay" /\ topState' = "Disconnected" => due'.web = "Connected"

\* A rightful step of the server keeps the invariant, whatever the worker is at.
LEMMA ServedKeeps ==
  ASSUME IInv, Observe, Served, Rightful
  PROVE  IInv'
  <1>1. /\ interfered' \in BOOLEAN
        /\ pc.worker # "idle" /\ interfered => interfered'
        /\ pc'.web \in {"gate", "open"} => interfered'
    BY Observed DEF IInv
  <1>2. TypeOK'
    BY <1>1 DEF IInv, TypeOK, Served, States, Latched
  <1>3. (Powered /\ Withdrawn)'
    BY DEF Served, Rightful, Powered, Withdrawn
  <1>4. Stopping'
    BY DEF IInv, Served, Rightful, Stopping, Stoppers
  <1>5. (Interfering /\ Unpowered)'
    BY <1>1 DEF IInv, Served, Rightful, Interfering, Unpowered
  <1>6. Moving'
    BY DEF IInv, Served, Moving, ActiveMotion
  <1>7. Announced'
    BY DEF IInv, Served, Rightful, Announced
  <1>8. QED BY <1>2, <1>3, <1>4, <1>5, <1>6, <1>7 DEF IInv

USE DEF Serving, Stoppers

\* enable() in the server.
LEMMA EnablingServes ==
  ASSUME IInv, Enable \/ Enabling("web")
  PROVE  Served /\ Rightful
  <1> USE DEF Served, Rightful, quiet, motor, IInv, TypeOK, Powered, Moving
  <1>1. CASE Enable
    <2>1. pc.web = "idle" /\ pc'.web = "gate"
          /\ due.web = "none" /\ pc'.worker = pc.worker /\ DOMAIN pc' = Threads
      BY <1>1, WebGoes DEF Enable, Receive, Serve
    <2>2. QED BY <1>1, <2>1 DEF Enable
  <1>2. CASE Gate("web")
    <2>1. pc.web = "gate" /\ pc'.web \in {"idle", "clear", "check"}
          /\ due.web = "none" /\ pc'.worker = pc.worker /\ DOMAIN pc' = Threads
      BY <1>2, WebGoes DEF Gate
    <2>2. pc'.web = "check" => ~cancel
      BY <1>2, WebGoes DEF Gate
    <2>3. QED BY <1>2, <2>1, <2>2 DEF Gate
  <1>3. CASE Clear("web")
    <2>1. pc.web = "clear" /\ pc'.web = "check"
          /\ due.web = "none" /\ pc'.worker = pc.worker /\ DOMAIN pc' = Threads
      BY <1>3, WebGoes DEF Clear
    <2>2. QED BY <1>3, <2>1 DEF Clear
  <1>4. CASE Check("web")
    <2>1. pc.web = "check" /\ pc'.web \in {"pass", "switchOn"}
          /\ due.web = "none" /\ pc'.worker = pc.worker /\ DOMAIN pc' = Threads
      BY <1>4, WebGoes DEF Check
    <2>2. /\ due' \in [Threads -> States \union {"none"}]
          /\ topState' = topState /\ due'.worker = due.worker
          /\ due'.web \in {"none", "HardwareSanityCheck"}
      BY <1>4, <2>1, WebDispatches, OnEnabling DEF Check
    <2>3. QED BY <1>4, <2>1, <2>2 DEF Check, Withdrawn, ActiveMotion
  <1>5. CASE Pass("web")
    <2>1. pc.web = "pass" /\ pc'.web = "switchOn"
          /\ due.web = "none" /\ pc'.worker = pc.worker /\ DOMAIN pc' = Threads
      BY <1>5, WebGoes DEF Pass
    <2>2. /\ due' \in [Threads -> States \union {"none"}]
          /\ topState' = topState /\ due'.worker = due.worker
          /\ due'.web \in {"none", "ModeSwitching"}
      BY <1>5, <2>1, WebDispatches, OnEnabling DEF Pass
    <2>3. QED BY <1>5, <2>1, <2>2 DEF Pass, Withdrawn, ActiveMotion
  <1>6. CASE SwitchOn("web")
    <2>1. pc.web = "switchOn" /\ pc'.web \in {"arrive", "idle"}
          /\ due.web = "none" /\ pc'.worker = pc.worker /\ DOMAIN pc' = Threads
      BY <1>6, WebGoes DEF SwitchOn
    <2>2. QED BY <1>6, <2>1 DEF SwitchOn, Withdrawn
  <1>7. CASE Arrive("web")
    <2>1. pc.web = "arrive" /\ pc'.web \in {"read", "idle"}
          /\ due.web = "none" /\ pc'.worker = pc.worker /\ DOMAIN pc' = Threads
      BY <1>7, WebGoes DEF Arrive
    <2>2. /\ due' \in [Threads -> States \union {"none"}]
          /\ topState' = topState /\ due'.worker = due.worker
          /\ due'.web \in {"none", "Enabled"}
      BY <1>7, <2>1, WebDispatches, OnEnabling DEF Arrive
    <2>3. QED BY <1>7, <2>1, <2>2 DEF Arrive, ActiveMotion
  <1>8. CASE Read("web")
    <2>1. pc.web = "read" /\ pc'.web = "idle"
          /\ due.web = "none" /\ pc'.worker = pc.worker /\ DOMAIN pc' = Threads
      BY <1>8, WebGoes DEF Read
    <2>2. /\ UNCHANGED <<due, connected>>
          /\ topState' \in {topState, "Fault"}
          /\ enabled' \in BOOLEAN /\ (enabled' => enabled)
      BY <1>8, FeedbackKeeps DEF Read
    <2>3. QED BY <1>8, <2>1, <2>2 DEF Read
  <1>9. QED BY <1>1, <1>2, <1>3, <1>4, <1>5, <1>6, <1>7, <1>8 DEF Enabling

\* The requests that switch the output off.
LEMMA StopServes ==
  ASSUME IInv, Stop \/ ClearFault
  PROVE  Served /\ Rightful
  <1> USE DEF Served, Rightful, quiet, motor, IInv, TypeOK, Powered, Moving
  <1>1. CASE Cancelling("stop", "stopLook")
    <2>1. pc.web = "idle" /\ pc'.web = "stopLook"
          /\ due.web = "none" /\ pc'.worker = pc.worker /\ DOMAIN pc' = Threads
      BY <1>1, WebGoes DEF Cancelling, Receive, Serve
    <2>2. QED BY <1>1, <2>1 DEF Cancelling
  <1>2. CASE Look("stopLook", "stopOff", "stopSay")
    <2>1. pc.web = "stopLook" /\ pc'.web \in {"stopOff", "stopSay"}
          /\ due.web = "none" /\ pc'.worker = pc.worker /\ DOMAIN pc' = Threads
      BY <1>2, WebGoes DEF Look, Serve
    <2>2. pc'.web = IF connected /\ enabled THEN "stopOff" ELSE "stopSay"
      BY <1>2, WebGoes DEF Look, Serve
    <2>3. QED BY <1>2, <2>1, <2>2 DEF Look
  <1>3. CASE SwitchOff("stopOff", "stopSay")
    <2>1. pc.web = "stopOff" /\ pc'.web = "stopSay"
          /\ due.web = "none" /\ pc'.worker = pc.worker /\ DOMAIN pc' = Threads
      BY <1>3, WebGoes DEF SwitchOff, Serve
    <2>2. QED BY <1>3, <2>1 DEF SwitchOff
  <1>4. CASE Say("stopSay", "idle", "StopRequested")
    <2>1. pc.web = "stopSay" /\ pc'.web = "idle"
          /\ due.web = "none" /\ pc'.worker = pc.worker /\ DOMAIN pc' = Threads
      BY <1>4, WebGoes DEF Say, Serve
    <2>2. /\ due' \in [Threads -> States \union {"none"}]
          /\ topState' = topState /\ due'.worker = due.worker
          /\ due'.web = "ActiveStop"
      BY <1>4, <2>1, WebDispatches, DispatchGlobal DEF Say, Accepts, GlobalEvents
    <2>3. QED BY <1>4, <2>1, <2>2 DEF Say, ActiveMotion
  <1>5. CASE ClearFault
    <2>1. CASE SwitchOff("idle", "clearSay")
      <3>1. pc.web = "idle" /\ pc'.web = "clearSay"
            /\ due.web = "none" /\ pc'.worker = pc.worker /\ DOMAIN pc' = Threads
        BY <2>1, WebGoes DEF SwitchOff, Serve
      <3>2. QED BY <2>1, <3>1 DEF SwitchOff
    <2>2. CASE /\ Receive("clearFault", "clearSay")
               /\ UNCHANGED <<quiet, cancel, motor, preChecked>>
      <3>1. pc.web = "idle" /\ pc'.web = "clearSay"
            /\ due.web = "none" /\ pc'.worker = pc.worker /\ DOMAIN pc' = Threads
        BY <2>2, WebGoes DEF Receive, Serve
      <3>2. QED BY <2>2, <3>1
    <2>3. CASE Say("clearSay", "idle", "FaultCleared")
      <3>1. pc.web = "clearSay" /\ pc'.web = "idle"
            /\ due.web = "none" /\ pc'.worker = pc.worker /\ DOMAIN pc' = Threads
        BY <2>3, WebGoes DEF Say, Serve
      <3>2. /\ due' \in [Threads -> States \union {"none"}]
            /\ topState' = topState /\ due'.worker = due.worker
            /\ due'.web \in {"none", "Disabled"}
        BY <2>3, <3>1, WebDispatches, OnConnection, DispatchFollows DEF Say, Latched
      <3>3. QED BY <2>3, <3>1, <3>2 DEF Say, ActiveMotion
    <2>4. CASE /\ Serve("clearSay", "idle")
               /\ UNCHANGED <<quiet, cancel, motor, preChecked>>
      <3>1. pc.web = "clearSay" /\ pc'.web = "idle"
            /\ due.web = "none" /\ pc'.worker = pc.worker /\ DOMAIN pc' = Threads
        BY <2>4, WebGoes DEF Serve
      <3>2. QED BY <2>4, <3>1
    <2>5. QED BY <1>5, <2>1, <2>2, <2>3, <2>4 DEF ClearFault
  <1>6. QED BY <1>1, <1>2, <1>3, <1>4, <1>5 DEF Stop

\* disable(), which also reads a frame.
LEMMA DisableServes ==
  ASSUME IInv, Disable
  PROVE  Served /\ Rightful
  <1> USE DEF Served, Rightful, quiet, motor, IInv, TypeOK, Powered, Moving
  <1>1. CASE Cancelling("disable", "disableLook")
    <2>1. pc.web = "idle" /\ pc'.web = "disableLook"
          /\ due.web = "none" /\ pc'.worker = pc.worker /\ DOMAIN pc' = Threads
      BY <1>1, WebGoes DEF Cancelling, Receive, Serve
    <2>2. QED BY <1>1, <2>1 DEF Cancelling
  <1>2. CASE Look("disableLook", "disableOff", "disableSay")
    <2>1. pc.web = "disableLook" /\ pc'.web \in {"disableOff", "disableSay"}
          /\ due.web = "none" /\ pc'.worker = pc.worker /\ DOMAIN pc' = Threads
      BY <1>2, WebGoes DEF Look, Serve
    <2>2. pc'.web = IF connected /\ enabled THEN "disableOff" ELSE "disableSay"
      BY <1>2, WebGoes DEF Look, Serve
    <2>3. QED BY <1>2, <2>1, <2>2 DEF Look
  <1>3. CASE SwitchOff("disableOff", "disableSay") \/ SwitchOff("disableOff", "idle")
    <2>1. pc.web = "disableOff" /\ pc'.web \in {"disableSay", "idle"}
          /\ due.web = "none" /\ pc'.worker = pc.worker /\ DOMAIN pc' = Threads
      BY <1>3, WebGoes DEF SwitchOff, Serve
    <2>2. enabled' = FALSE /\ UNCHANGED <<quiet, cancel, connected, preChecked>>
      BY <1>3 DEF SwitchOff
    <2>3. QED BY <2>1, <2>2
  <1>4. CASE Say("disableSay", "disableRead", "DisableRequested")
    <2>1. pc.web = "disableSay" /\ pc'.web = "disableRead"
          /\ due.web = "none" /\ pc'.worker = pc.worker /\ DOMAIN pc' = Threads
      BY <1>4, WebGoes DEF Say, Serve
    <2>2. /\ due' \in [Threads -> States \union {"none"}]
          /\ topState' = topState /\ due'.worker = due.worker
          /\ due'.web \in {"none", "Disabled"}
      BY <1>4, <2>1, WebDispatches, OnConnection DEF Say
    <2>3. QED BY <1>4, <2>1, <2>2 DEF Say, ActiveMotion
  <1>5. CASE /\ Serve("disableSay", "disableRead")
             /\ UNCHANGED <<quiet, cancel, motor, preChecked>>
    <2>1. pc.web = "disableSay" /\ pc'.web = "disableRead"
          /\ due.web = "none" /\ pc'.worker = pc.worker /\ DOMAIN pc' = Threads
      BY <1>5, WebGoes DEF Serve
    <2>2. QED BY <1>5, <2>1
  <1>6. CASE /\ Serve("disableRead", "idle") /\ Feedback(enabled)
             /\ UNCHANGED <<cancel, preChecked>>
    <2>1. pc.web = "disableRead" /\ pc'.web = "idle"
          /\ due.web = "none" /\ pc'.worker = pc.worker /\ DOMAIN pc' = Threads
      BY <1>6, WebGoes DEF Serve
    <2>2. /\ UNCHANGED <<due, connected>>
          /\ topState' \in {topState, "Fault"}
          /\ enabled' \in BOOLEAN /\ (enabled' => enabled)
      BY <1>6, FeedbackKeeps
    <2>3. QED BY <1>6, <2>1, <2>2
  <1>7. QED BY <1>1, <1>2, <1>3, <1>4, <1>5, <1>6 DEF Disable

\* The link calls: Disconnected is dispatched after the close, Connected after the
\* open.
LEMMA LinkServes ==
  ASSUME IInv, Disconnect \/ Connect
  PROVE  Served /\ Rightful
  <1> USE DEF Served, Rightful, quiet, motor, IInv, TypeOK, Powered, Moving
  <1>1. CASE Cancelling("disconnect", "closeOff")
    <2>1. pc.web = "idle" /\ pc'.web = "closeOff"
          /\ due.web = "none" /\ pc'.worker = pc.worker /\ DOMAIN pc' = Threads
      BY <1>1, WebGoes DEF Cancelling, Receive, Serve
    <2>2. QED BY <1>1, <2>1 DEF Cancelling
  <1>2. CASE SwitchOff("closeOff", "close")
    <2>1. pc.web = "closeOff" /\ pc'.web = "close"
          /\ due.web = "none" /\ pc'.worker = pc.worker /\ DOMAIN pc' = Threads
      BY <1>2, WebGoes DEF SwitchOff, Serve
    <2>2. QED BY <1>2, <2>1 DEF SwitchOff
  <1>3. CASE /\ Serve("close", "closeSay") /\ enabled' = FALSE /\ connected' = FALSE
             /\ UNCHANGED <<quiet, cancel, preChecked>>
    <2>1. pc.web = "close" /\ pc'.web = "closeSay"
          /\ due.web = "none" /\ pc'.worker = pc.worker /\ DOMAIN pc' = Threads
      BY <1>3, WebGoes DEF Serve
    <2>2. QED BY <1>3, <2>1
  <1>4. CASE Say("closeSay", "forget", "DisconnectRequested")
    <2>1. pc.web = "closeSay" /\ pc'.web = "forget"
          /\ due.web = "none" /\ pc'.worker = pc.worker /\ DOMAIN pc' = Threads
      BY <1>4, WebGoes DEF Say, Serve
    <2>2. /\ due' \in [Threads -> States \union {"none"}]
          /\ topState' = topState /\ due'.worker = due.worker
          /\ due'.web = "Disconnected"
      BY <1>4, <2>1, WebDispatches, DispatchGlobal DEF Say, Accepts, GlobalEvents
    <2>3. QED BY <1>4, <2>1, <2>2 DEF Say, ActiveMotion, Announced
  <1>5. CASE /\ Serve("forget", "idle") /\ preChecked' = FALSE
             /\ UNCHANGED <<quiet, cancel, motor>>
    <2>1. pc.web = "forget" /\ pc'.web = "idle"
          /\ due.web = "none" /\ pc'.worker = pc.worker /\ DOMAIN pc' = Threads
      BY <1>5, WebGoes DEF Serve
    <2>2. QED BY <1>5, <2>1
  <1>6. CASE /\ Receive("connect", "open") /\ enabled' = FALSE /\ connected' = FALSE
             /\ UNCHANGED <<quiet, cancel, preChecked>>
    <2>1. pc.web = "idle" /\ pc'.web = "open"
          /\ due.web = "none" /\ pc'.worker = pc.worker /\ DOMAIN pc' = Threads
      BY <1>6, WebGoes DEF Receive, Serve
    <2>2. QED BY <1>6, <2>1
  <1>7. CASE /\ Serve("open", "openSay") /\ connected' = TRUE
             /\ UNCHANGED <<quiet, cancel, enabled, preChecked>>
    <2>1. pc.web = "open" /\ pc'.web = "openSay"
          /\ due.web = "none" /\ pc'.worker = pc.worker /\ DOMAIN pc' = Threads
      BY <1>7, WebGoes DEF Serve
    <2>2. QED BY <1>7, <2>1
  <1>8. CASE Serve("open", "idle") /\ UNCHANGED <<quiet, cancel, motor, preChecked>>
    <2>1. pc.web = "open" /\ pc'.web = "idle"
          /\ due.web = "none" /\ pc'.worker = pc.worker /\ DOMAIN pc' = Threads
      BY <1>8, WebGoes DEF Serve
    <2>2. QED BY <1>8, <2>1
  <1>9. CASE Say("openSay", "idle", "ConnectSucceeded")
    <2>1. pc.web = "openSay" /\ pc'.web = "idle"
          /\ due.web = "none" /\ pc'.worker = pc.worker /\ DOMAIN pc' = Threads
      BY <1>9, WebGoes DEF Say, Serve
    <2>2. /\ due' \in [Threads -> States \union {"none"}]
          /\ topState' = topState /\ due'.worker = due.worker
          /\ due'.web = IF topState = "Disconnected" THEN "Connected" ELSE "none"
      BY <1>9, <2>1, WebDispatches, OnConnection DEF Say
    <2>3. QED BY <1>9, <2>1, <2>2 DEF Say, ActiveMotion
  <1>10. QED
    BY <1>1, <1>2, <1>3, <1>4, <1>5, <1>6, <1>7, <1>8, <1>9 DEF Disconnect, Connect
-----------------------------------------------------------------------------
(* The rest: starting a self-check, finishing a dispatch, looking at the state. *)

\* A self-check starts while the server waits for a request.
LEMMA StartKeeps ==
  ASSUME IInv, Observe, StartSelfCheck
  PROVE  IInv'
  <1>1. /\ pc.worker = "idle" /\ pc'.worker = "start" /\ due.worker = "none"
        /\ pc.web = "idle" /\ pc'.web = pc.web /\ DOMAIN pc' = Threads
    BY WorkerGoes DEF StartSelfCheck, W, IInv
  <1>2. UNCHANGED <<topState, due, cancel, enabled, connected, preChecked>>
    BY DEF StartSelfCheck, quiet, motor
  <1>3. TypeOK'
    BY <1>1, <1>2, Observed DEF IInv, TypeOK
  <1>4. (Powered /\ Withdrawn /\ Stopping /\ Interfering /\ Unpowered)'
    BY <1>1, <1>2 DEF IInv, Powered, Withdrawn, Stopping, Interfering, Unpowered
  <1>5. (Moving /\ Announced)'
    BY <1>1, <1>2 DEF IInv, Moving, Announced, ActiveMotion
  <1>6. QED BY <1>3, <1>4, <1>5 DEF IInv

\* What a dispatch writes is a state the thread may show.
LEMMA WriteKeeps ==
  ASSUME IInv, Observe, NEW t \in Threads, Write(t)
  PROVE  IInv'
  <1>1. /\ topState' = due[t] /\ due[t] # "none" /\ due' = [due EXCEPT ![t] = "none"]
        /\ UNCHANGED <<cancel, enabled, connected, preChecked, pc>>
    BY DEF Write, motor
  <1>2. /\ due' \in [Threads -> States \union {"none"}] /\ topState' \in States
        /\ t = "worker" => topState' = due.worker /\ due'.worker = "none" /\ due'.web = due.web
        /\ t = "web" => topState' = due.web /\ due'.web = "none" /\ due'.worker = due.worker
        /\ t \in {"worker", "web"}
    BY <1>1 DEF IInv, TypeOK, Threads
  <1>3. /\ interfered' \in BOOLEAN
        /\ pc.worker # "idle" /\ interfered => interfered'
    BY Observed DEF IInv
  <1>4. TypeOK'
    BY <1>1, <1>2, <1>3 DEF IInv, TypeOK
  <1>5. (Powered /\ Withdrawn /\ Stopping)'
    BY <1>1 DEF IInv, Powered, Withdrawn, Stopping
  <1>6. (Interfering /\ Unpowered)'
    BY <1>1, <1>3 DEF IInv, Interfering, Unpowered
  <1>7. Moving'
    BY <1>1, <1>2 DEF IInv, Moving, ActiveMotion
  <1>8. Announced'
    BY <1>1, <1>2 DEF IInv, Announced
  <1>9. QED BY <1>4, <1>5, <1>6, <1>7, <1>8 DEF IInv

\* A view only reads a frame.
LEMMA ViewKeeps ==
  ASSUME IInv, Observe, View
  PROVE  IInv'
  <1>1. /\ UNCHANGED <<due, connected, cancel, preChecked, pc>>
        /\ topState' \in {topState, "Fault"}
        /\ enabled' \in BOOLEAN /\ (enabled' => enabled)
        /\ pc.worker = "idle" /\ pc.web = "idle"
    BY FeedbackKeeps DEF View, IInv
  <1>2. TypeOK'
    BY <1>1, Observed DEF IInv, TypeOK, States, Latched
  <1>3. (Powered /\ Withdrawn /\ Stopping /\ Interfering /\ Unpowered)'
    BY <1>1 DEF IInv, Powered, Withdrawn, Stopping, Interfering, Unpowered
  <1>4. (Moving /\ Announced)'
    BY <1>1 DEF IInv, Moving, Announced, ActiveMotion
  <1>5. QED BY <1>2, <1>3, <1>4 DEF IInv

\* Every step keeps the invariant.
LEMMA StepKeeps == IInv /\ [Next]_vars => IInv'
  <1> SUFFICES ASSUME IInv, [Next]_vars PROVE IInv'
    OBVIOUS
  <1>1. CASE UNCHANGED vars
    BY <1>1 DEF vars, IInv, TypeOK, Powered, Withdrawn, Stopping, Interfering, Unpowered,
                Moving, Announced
  <1>2. CASE Observe /\ StartSelfCheck
    BY <1>2, StartKeeps
  <1>3. CASE Observe /\ SelfCheck
    <2>1. CASE Write("worker")
      BY <1>3, <2>1, WriteKeeps DEF Threads
    <2>2. CASE ~Write("worker")
      BY <1>3, <2>2, TurnKeeps, EnsureTurns, EnablingTurns, ProbeTurns,
         EndTurns DEF SelfCheck
    <2>3. QED BY <2>1, <2>2
  <1>4. CASE Observe /\ Server
    <2>1. CASE Write("web")
      BY <1>4, <2>1, WriteKeeps DEF Threads
    <2>2. CASE ~Write("web")
      BY <1>4, <2>2, ServedKeeps, EnablingServes, StopServes, DisableServes, LinkServes
         DEF Server
    <2>3. QED BY <2>1, <2>2
  <1>5. CASE Observe /\ View
    BY <1>5, ViewKeeps
  <1>6. QED BY <1>1, <1>2, <1>3, <1>4, <1>5 DEF Next

\* The controller before a self-check is asked for.
LEMMA InitHolds == Init => IInv
  <1> SUFFICES ASSUME Init PROVE IInv
    OBVIOUS
  <1>1. /\ pc.worker = "idle" /\ pc.web = "idle" /\ DOMAIN pc = Threads
        /\ due.worker = "none" /\ due.web = "none"
        /\ due \in [Threads -> States \union {"none"}]
    BY DEF Init, Threads
  <1>2. topState \in {"Connected", "Enabled", "Disabled"}
        /\ enabled \in BOOLEAN /\ connected = TRUE /\ cancel = FALSE
        /\ preChecked = FALSE /\ interfered = FALSE
    BY DEF Init
  <1>3. TypeOK
    BY <1>1, <1>2 DEF TypeOK, States
  <1>4. QED
    BY <1>1, <1>2, <1>3 DEF IInv, Powered, Withdrawn, Stopping, Interfering, Unpowered,
                            Moving, Announced, ActiveMotion

-----------------------------------------------------------------------------
(* Theorems. *)

\* The inductive invariant holds of every interleaving of the two threads.
THEOREM Inductive == Spec => []IInv
  BY InitHolds, StepKeeps, PTL DEF Spec

\* Labels, flags and states stay in their types.
THEOREM TypeCorrect == Spec => []TypeOK
  <1>1. IInv => TypeOK
    BY DEF IInv
  <1>2. QED BY <1>1, Inductive, PTL

\* At rest no motion state is left over and Disconnected means a closed link,
\* whichever dispatches of the two threads have overwritten one another.
THEOREM RestIsCoherent == Spec => []CoherentAtRest
  <1> SUFFICES ASSUME IInv, AtRest PROVE /\ topState \notin ActiveMotion
                                         /\ topState = "Disconnected" => ~connected /\ ~enabled
    BY Inductive, PTL DEF CoherentAtRest, NoMotionStateAtRest, DisconnectedAtRest
  <1>1. pc.worker = "idle" /\ pc.web = "idle" /\ due.worker = "none" /\ due.web = "none"
    BY DEF AtRest, Threads
  <1>2. QED BY <1>1 DEF IInv, Moving, Announced, Powered

\* Only the worker's own steps move it from one label to another.
LEMMA OthersStay ==
  ASSUME IInv, Next, ~SelfCheck
  PROVE  pc'.worker = pc.worker \/ StartSelfCheck
  <1>1. CASE Write("web") \/ View
    BY <1>1 DEF Write, View
  <1>2. CASE Server /\ ~Write("web")
    BY <1>2, EnablingServes, StopServes, DisableServes, LinkServes DEF Server, Served
  <1>3. QED BY <1>1, <1>2 DEF Next

\* A command reaches the motor by Send alone.
LEMMA SendsOnly ==
  ASSUME IInv, Next, pc.worker = "send", pc'.worker = "wait"
  PROVE  connected /\ enabled
  <1>1. SelfCheck
    BY OthersStay DEF StartSelfCheck, W, Goes
  <1>2. ~Write("worker")
    BY DEF Write
  <1>3. ~(Start \/ Ensure \/ Enabling("worker") \/ Request)
    BY DEF Start, Ensure, Enabling, Gate, Clear, Check, Pass, SwitchOn, Arrive, Read,
           Request, W, Goes
  <1>4. ~(Probe \/ TurnOn \/ Command \/ Wait \/ Degrade \/ Profile \/ Fail \/ Abort
          \/ Store \/ Succeed \/ Settle \/ Unload)
    BY DEF Probe, TurnOn, Command, Wait, Degrade, Profile, Fail, Abort, Store, Succeed,
           Settle, Unload, W, Goes
  <1>5. Send
    BY <1>1, <1>2, <1>3, <1>4 DEF SelfCheck
  <1>6. Goes("worker", "send", IF connected /\ enabled THEN "wait" ELSE "fail")
    BY <1>5 DEF Send, W
  <1>7. pc'.worker = IF connected /\ enabled THEN "wait" ELSE "fail"
    BY <1>6, WorkerGoes DEF IInv
  <1>8. QED BY <1>7

\* No position command follows a stop that has returned (sendNutMotionCommand,
\* DamiaoMotor::sendCommand).
THEOREM NothingMovesAfterStop == Spec => NoMotionAfterStop
  <1>1. IInv /\ [Next]_vars
          => [pc.worker = "send" /\ pc'.worker = "wait" => ~(cancel /\ pc.web = "idle")]_vars
    BY SendsOnly DEF IInv, Stopping
  <1>2. QED BY <1>1, Inductive, PTL DEF Spec, NoMotionAfterStop

\* The worker ends a self-check that has moved past the disable of a way out.
LEMMA EndsDisabled ==
  ASSUME IInv, Next, pc'.worker = "idle",
         pc.worker \in Probing \union Leaving \union Storing
  PROVE  pc.worker \in Ended /\ enabled' = enabled
  <1>1. SelfCheck
    BY OthersStay DEF StartSelfCheck, W, Goes
  <1>2. ~Write("worker")
    BY DEF Write
  <1>3. ~(Start \/ Ensure \/ Enabling("worker") \/ Request)
    BY DEF Start, Ensure, Enabling, Gate, Clear, Check, Pass, SwitchOn, Arrive, Read,
           Request, W, Goes
  <1>4. ~(Probe \/ TurnOn \/ Command \/ Send \/ Wait)
    <2>1. ~Probe /\ ~TurnOn
      <3>1. Probe => pc'.worker \in {"fail", "degrade", "command", "turnOn"}
        BY WorkerGoes DEF Probe, W, IInv
      <3>2. TurnOn => pc'.worker \in {"command", "fail"}
        BY WorkerGoes DEF TurnOn, W, IInv
      <3>3. QED BY <3>1, <3>2
    <2>2. ~Command /\ ~Wait
      BY WorkerGoes DEF Command, Wait, W, IInv
    <2>3. ~Send
      BY WorkerGoes DEF Send, W, IInv
    <2>4. QED BY <2>1, <2>2, <2>3
  <1>5. ~(Degrade \/ Profile \/ Store \/ Succeed)
    BY WorkerGoes DEF Degrade, Profile, Store, Succeed, W, IInv
  <1>6. CASE Fail \/ Abort
    <2>1. ~W("fail", "failed") /\ ~W("abort", "aborted")
      BY WorkerGoes DEF W, IInv
    <2>2. QED BY <1>6, <2>1, WorkerGoes DEF Fail, Abort, W, motor, IInv
  <1>7. CASE Settle
    BY <1>7, WorkerGoes DEF Settle, W, IInv
  <1>8. CASE Unload
    BY <1>8, WorkerGoes DEF Unload, W, motor, IInv
  <1>9. QED BY <1>1, <1>2, <1>3, <1>4, <1>5, <1>6, <1>7, <1>8 DEF SelfCheck

\* A self-check that has moved ends with the output off, unless an enable() or a
\* connect() came in between (disableAfterMotion on every way out).
THEOREM EndsUnpowered == Spec => SelfCheckEndsUnpowered
  <1>1. IInv /\ [Next]_vars
          => [/\ pc.worker \in Probing \union Leaving \union Storing
              /\ pc'.worker = "idle" /\ ~interfered
              => ~enabled']_vars
    BY EndsDisabled DEF IInv, Unpowered
  <1>2. QED BY <1>1, Inductive, PTL DEF Spec, SelfCheckEndsUnpowered
=============================================================================
