----------------------------- MODULE DamiaoMotor -----------------------------
(***************************************************************************)
(* hardware_interface/damiao/damiao_motor.cpp: the threads that call the   *)
(* driver (the web server and the self-check), its feedback thread, the    *)
(* command and transport mutexes, and the drive on the other side of the   *)
(* bus.  A frame written to the drive may fail, reach it and be answered,  *)
(* or reach it and have its answer lost; answers wait in the receive queue *)
(* of the transport until the feedback thread reads them.                  *)
(*                                                                         *)
(* The copies of an enable or disable frame, with the mode frame before    *)
(* and the stop frame, are one step that may fail before or after the      *)
(* first copy has had its effect; the drive answers it at most once.  The  *)
(* transport mutex is held across steps only by the feedback thread, while *)
(* it reads.  sendCommand without enable is disable().  The link calls of  *)
(* one thread overlap with no call of another: otherwise a thread could be *)
(* assigned to a feedback thread not yet joined, which ends the program.   *)
(***************************************************************************)
EXTENDS Naturals, Sequences

CONSTANTS
  Callers,      \* threads that call the driver
  Calls,        \* the calls they make
  QueueSize     \* bound of the receive queue (256 in the code)

CommandCalls == {"enable", "disable", "send", "clear"}
LinkCalls    == {"connect", "disconnect", "probe"}

ASSUME CallsAssumption == Calls \subseteq CommandCalls \union LinkCalls
ASSUME QueueAssumption == QueueSize \in Nat \ {0}
ASSUME CallersAssumption == "free" \notin Callers

VARIABLES
  connected,    \* connected_
  enabled,      \* enabled_
  running,      \* feedback_thread_running_
  cache,        \* last_feedback_, "none" while last_feedback_valid_ is false
  heard,        \* a frame read since waitForFreshFeedback began: none, parsed, stored
  queue,        \* rx_queue_ of the transport
  drive,        \* what the drive does
  power,        \* the last power frame that reached the drive
  lock,         \* the owner of command_mutex_
  poll,         \* what the feedback thread does next
  newest,       \* newest_feedback of refreshFeedback
  pc            \* what each caller does next

vars == <<connected, enabled, running, cache, heard, queue, drive, power, lock,
          poll, newest, pc>>

Drive == {"off", "on", "fault"}

\* A feedback frame carries the state of the drive; "old" marks what is left
\* of an earlier link.
Frames == Drive \union {"old"}

\* Labels of a caller that owns the command mutex.
Critical == {"eSend", "eFlag", "eWait", "eHold", "eOk", "dSend", "dFlag",
             "xSend", "xFlag", "sSend", "cSend", "pRead"}

Labels == {"idle", "eLock", "dLock", "sLock", "cLock", "kJoin", "kOpen",
           "kClear", "kWait", "xDisable", "xLock", "xStop", "xClose",
           "pJoin", "pLock"}
          \union Critical \union CommandCalls \union LinkCalls

TypeOK ==
  /\ connected \in BOOLEAN /\ enabled \in BOOLEAN /\ running \in BOOLEAN
  /\ cache \in Frames \union {"none"} /\ newest \in Frames \union {"none"}
  /\ heard \in {"no", "parsed", "yes"}
  /\ queue \in Seq(Frames) /\ Len(queue) <= QueueSize
  /\ drive \in Drive /\ power \in {"enable", "disable"}
  /\ lock \in Callers \union {"free"}
  /\ poll \in {"none", "top", "read"}
  /\ pc \in [Callers -> Labels]

\* The driver before its first connect().
Fresh ==
  /\ connected = FALSE /\ enabled = FALSE /\ running = FALSE
  /\ cache = "none" /\ newest = "none" /\ heard = "no"
  /\ queue = << >> /\ drive = "off" /\ power = "disable"
  /\ lock = "free" /\ poll = "none"
  /\ pc = [c \in Callers |-> "idle"]

\* The driver after a connect() that nothing has answered yet.
Linked ==
  /\ connected = TRUE /\ enabled = FALSE /\ running = TRUE
  /\ cache = "none" /\ newest = "none" /\ heard = "no"
  /\ queue = << >> /\ drive = "off" /\ power = "disable"
  /\ lock = "free" /\ poll = "top"
  /\ pc = [c \in Callers |-> "idle"]

Init == Fresh \/ Linked

-----------------------------------------------------------------------------
(* The bus and the drive. *)

flags == <<connected, enabled, running>>
reads == <<cache, heard, newest, poll>>
bus   == <<queue, drive, power>>

\* Mutant of Enqueue: every frame is kept.
EnqueueAlways(q, f) == Append(q, f)

\* pushReceivedFrame: the oldest frame gives way.
Enqueue(q, f) == Append(IF Len(q) = QueueSize THEN Tail(q) ELSE q, f)

\* transport_mutex_.
BusFree == poll # "read"

\* A frame that leaves the drive in state d, answered or not.
Reaches(d) == /\ BusFree /\ drive' = d
              /\ queue' \in {queue, Enqueue(queue, d)}

\* A power frame: a fault stays.
PowerFrames(frame) ==
  /\ Reaches(IF drive = "fault" THEN "fault"
             ELSE IF frame = "enable" THEN "on" ELSE "off")
  /\ power' = frame

\* The write of the first or of a later copy fails.
PowerFramesFail(frame) == (BusFree /\ UNCHANGED bus) \/ PowerFrames(frame)

\* A drive trips at any time.
DriveTrips == /\ drive # "fault" /\ drive' = "fault"
              /\ UNCHANGED <<flags, reads, queue, power, lock, pc>>

-----------------------------------------------------------------------------
(* The callers. *)

Goes(c, from, to) == pc[c] = from /\ pc' = [pc EXCEPT ![c] = to]

Take(c)    == lock = "free" /\ lock' = c
Release(c) == lock = c /\ lock' = "free"

\* A step that only takes the command mutex.
Locks(c, from, to) ==
  Goes(c, from, to) /\ Take(c) /\ UNCHANGED <<flags, reads, bus>>

\* requireConnected; the transport is open while connected_ is true.
Enter(c, from, to) ==
  /\ Goes(c, from, IF connected THEN to ELSE "idle")
  /\ UNCHANGED <<flags, reads, bus, lock>>

\* Labels of a caller inside a link call.
Linking == LinkCalls \union {"kJoin", "kOpen", "kClear", "kWait", "xDisable", "xLock",
                             "xSend", "xFlag", "xStop", "xClose", "pJoin", "pLock", "pRead"}

\* A caller begins a call; a link call overlaps with no other call.
Call(c) ==
  /\ \E op \in Calls :
       /\ Goes(c, "idle", op)
       /\ \A d \in Callers \ {c} :
            pc[d] \notin Linking /\ (op \in LinkCalls => pc[d] = "idle")
  /\ UNCHANGED <<flags, reads, bus, lock>>

\* last_feedback_.enabled, written over the cached frame.
Overwritten(on) == IF cache \in {"on", "off"} THEN (IF on THEN "on" ELSE "off")
                   ELSE cache

\* startFeedbackThread: over a thread that has not been joined it would end
\* the program.
StartThread == IF running THEN UNCHANGED <<running, poll>>
               ELSE poll = "none" /\ running' = TRUE /\ poll' = "top"

\* stopFeedbackThread has joined the thread.
Joined == poll = "none"

\* enable(): the flag is set when the frames are written and cleared again
\* when no fresh feedback is stored in time or the hold frame fails.
Enable(c) ==
  \/ Enter(c, "enable", "eLock")
  \/ /\ Goes(c, "eLock", "eSend") /\ Take(c) /\ StartThread
     /\ UNCHANGED <<connected, enabled, cache, heard, newest, bus>>
  \/ /\ Goes(c, "eSend", "eFlag") /\ PowerFrames("enable")
     /\ UNCHANGED <<flags, reads, lock>>
  \/ /\ Goes(c, "eSend", "idle") /\ PowerFramesFail("enable") /\ Release(c)
     /\ enabled' = FALSE /\ UNCHANGED <<connected, running, reads>>
  \/ /\ Goes(c, "eFlag", "eWait")
     /\ enabled' = TRUE /\ cache' = Overwritten(TRUE) /\ heard' = "no"
     /\ UNCHANGED <<connected, running, newest, poll, bus, lock>>
  \/ /\ heard = "yes" /\ Goes(c, "eWait", "eHold")
     /\ UNCHANGED <<flags, reads, bus, lock>>
  \/ /\ Goes(c, "eWait", "idle") /\ Release(c)
     /\ enabled' = FALSE /\ cache' = Overwritten(FALSE)
     /\ UNCHANGED <<connected, running, heard, newest, poll, bus>>
  \/ /\ Goes(c, "eHold", "eOk") /\ Reaches(drive)
     /\ UNCHANGED <<flags, reads, power, lock>>
  \/ /\ Goes(c, "eHold", "idle") /\ Release(c) /\ BusFree
     /\ enabled' = FALSE /\ cache' = Overwritten(FALSE)
     /\ UNCHANGED <<connected, running, heard, newest, poll, bus>>
  \/ Goes(c, "eOk", "idle") /\ Release(c) /\ UNCHANGED <<flags, reads, bus>>

\* The body of disable(), which leaves the flag at unsent if a frame fails.
SwitchOffBody(c, enter, locking, sending, flagging, after, unsent) ==
  \/ /\ Goes(c, enter, IF connected THEN locking ELSE after)
     /\ enabled' = (connected /\ enabled)
     /\ UNCHANGED <<connected, running, reads, bus, lock>>
  \/ Locks(c, locking, sending)
  \/ /\ Goes(c, sending, flagging) /\ PowerFrames("disable")
     /\ UNCHANGED <<flags, reads, lock>>
  \/ /\ Goes(c, sending, after) /\ PowerFramesFail("disable") /\ Release(c)
     /\ enabled' = unsent /\ UNCHANGED <<connected, running, reads>>
  \/ /\ Goes(c, flagging, after) /\ Release(c)
     /\ enabled' = FALSE /\ cache' = Overwritten(FALSE)
     /\ UNCHANGED <<connected, running, heard, newest, poll, bus>>

\* Mutant of SwitchOff: the flag stays when a frame cannot be written.
SwitchOffIfSent(c, enter, locking, sending, flagging, after) ==
  SwitchOffBody(c, enter, locking, sending, flagging, after, enabled)

\* disable(), which goes on to label after.
SwitchOff(c, enter, locking, sending, flagging, after) ==
  SwitchOffBody(c, enter, locking, sending, flagging, after, FALSE)

Disable(c) == SwitchOff(c, "disable", "dLock", "dSend", "dFlag", "idle")

\* Mutant of Send: the flag is looked at before the lock is taken.
SendCheckedEarly(c) ==
  \/ enabled /\ Enter(c, "send", "sLock")
  \/ ~enabled /\ Goes(c, "send", "idle") /\ UNCHANGED <<flags, reads, bus, lock>>
  \/ Locks(c, "sLock", "sSend")
  \/ /\ Goes(c, "sSend", "idle") /\ Release(c)
     /\ Reaches(drive) /\ UNCHANGED <<flags, reads, power>>

\* sendCommand with a motion command.
Send(c) ==
  \/ Enter(c, "send", "sLock")
  \/ enabled /\ Locks(c, "sLock", "sSend")
  \/ /\ ~enabled /\ lock = "free" /\ Goes(c, "sLock", "idle")
     /\ UNCHANGED <<flags, reads, bus, lock>>
  \/ /\ Goes(c, "sSend", "idle") /\ Release(c)
     /\ (Reaches(drive) /\ UNCHANGED power) \/ (BusFree /\ UNCHANGED bus)
     /\ UNCHANGED <<flags, reads>>

\* Mutant of Clear: disable() is called with the lock held.
ClearKeepsLock(c) ==
  \/ Enter(c, "clear", "cLock")
  \/ Locks(c, "cLock", "cSend")
  \/ /\ Goes(c, "cSend", "disable")
     /\ Reaches(IF drive = "fault" THEN "off" ELSE drive)
     /\ UNCHANGED <<flags, reads, power, lock>>

\* sendCommand with clear_fault: the clear frame, which the drive may refuse,
\* then disable().
Clear(c) ==
  \/ Enter(c, "clear", "cLock")
  \/ Locks(c, "cLock", "cSend")
  \/ /\ Goes(c, "cSend", "disable") /\ Release(c)
     /\ \E d \in {drive, IF drive = "fault" THEN "off" ELSE drive} : Reaches(d)
     /\ UNCHANGED <<flags, reads, power>>
  \/ /\ Goes(c, "cSend", "idle") /\ Release(c) /\ BusFree
     /\ UNCHANGED <<flags, reads, bus>>

\* What an earlier link has left.
Aged(q) == [i \in 1..Len(q) |-> "old"]

\* connect(): the old thread is joined, the queue is dropped; opening the
\* adapter or reading the registers may fail; the cached feedback is dropped
\* before the thread starts.  The result of the first wait is ignored.
ConnectBody(c, cleared) ==
  \/ /\ Goes(c, "connect", "kJoin")
     /\ connected' = FALSE /\ enabled' = FALSE /\ running' = FALSE
     /\ UNCHANGED <<reads, bus, lock>>
  \/ /\ Joined /\ Goes(c, "kJoin", "kOpen")
     /\ queue' = Aged(queue) /\ newest' = "none"
     /\ cache' = IF cache = "none" THEN "none" ELSE "old"
     /\ UNCHANGED <<flags, heard, poll, drive, power, lock>>
  \/ /\ Goes(c, "kOpen", "idle") /\ queue' = << >>
     /\ UNCHANGED <<flags, reads, drive, power, lock>>
  \/ /\ Goes(c, "kOpen", "kClear") /\ queue' = << >> /\ connected' = TRUE
     /\ UNCHANGED <<enabled, running, reads, drive, power, lock>>
  \/ /\ Goes(c, "kClear", "kWait") /\ cache' = cleared /\ StartThread
     /\ UNCHANGED <<connected, enabled, heard, newest, bus, lock>>
  \/ Goes(c, "kWait", "idle") /\ UNCHANGED <<flags, reads, bus, lock>>

\* Mutant of Connect: the cached feedback stays.
ConnectKeepsFeedback(c) == ConnectBody(c, cache)

\* connect(), as its body says.
Connect(c) == ConnectBody(c, "none")

\* disconnect(): close() empties the queue and never fails.
Disconnect(c) ==
  \/ /\ Goes(c, "disconnect", IF connected /\ enabled THEN "xDisable" ELSE "xStop")
     /\ UNCHANGED <<flags, reads, bus, lock>>
  \/ SwitchOff(c, "xDisable", "xLock", "xSend", "xFlag", "xStop")
  \/ /\ Goes(c, "xStop", "xClose") /\ running' = FALSE
     /\ UNCHANGED <<connected, enabled, reads, bus, lock>>
  \/ /\ Joined /\ Goes(c, "xClose", "idle")
     /\ connected' = FALSE /\ enabled' = FALSE /\ queue' = << >>
     /\ UNCHANGED <<running, reads, drive, power, lock>>

\* runCommunicationProbe: it takes the queue and the answers to its own
\* frames, and restarts the thread; of its last wait nothing is kept.
Probe(c) ==
  \/ /\ Goes(c, "probe", IF connected THEN "pJoin" ELSE "idle")
     /\ running' = (running /\ ~connected)
     /\ UNCHANGED <<connected, enabled, reads, bus, lock>>
  \/ Joined /\ Goes(c, "pJoin", "pLock") /\ UNCHANGED <<flags, reads, bus, lock>>
  \/ /\ Goes(c, "pLock", "pRead") /\ Take(c)
     /\ queue' = << >> /\ UNCHANGED <<flags, reads, drive, power>>
  \/ /\ Goes(c, "pRead", "idle") /\ Release(c)
     /\ IF connected THEN StartThread ELSE UNCHANGED <<running, poll>>
     /\ UNCHANGED <<connected, enabled, cache, heard, newest, bus>>

-----------------------------------------------------------------------------
(* The feedback thread.  A pass that finds no link, or whose frame cannot be *)
(* written, changes nothing.                                                 *)

\* refreshFeedback writes its frame ...
PollRefresh ==
  /\ poll = "top" /\ running /\ connected
  /\ poll' = "read" /\ newest' = "none"
  /\ queue' \in {queue, Enqueue(queue, drive)}
  /\ UNCHANGED <<flags, cache, heard, drive, power, lock, pc>>

\* Mutant of PollParse: the fault bit is left to the cached feedback.
PollParseOnly ==
  /\ poll = "read" /\ queue # << >>
  /\ newest' = Head(queue) /\ queue' = Tail(queue)
  /\ heard' = IF heard = "no" THEN "parsed" ELSE heard
  /\ UNCHANGED <<flags, cache, poll, drive, power, lock, pc>>

\* ... and reads what has arrived: a fault clears enabled_ at once, ...
PollParse ==
  /\ poll = "read" /\ queue # << >>
  /\ newest' = Head(queue) /\ queue' = Tail(queue)
  /\ enabled' = (enabled /\ Head(queue) # "fault")
  /\ heard' = IF heard = "no" THEN "parsed" ELSE heard
  /\ UNCHANGED <<connected, running, cache, poll, drive, power, lock, pc>>

\* ... until nothing is left or its time is up; the last frame is kept.
PollStore ==
  /\ poll = "read" /\ (queue = << >> \/ newest # "none")
  /\ poll' = "top"
  /\ cache' = IF newest = "none" THEN cache ELSE newest
  /\ heard' = IF heard = "parsed" THEN "yes" ELSE heard
  /\ UNCHANGED <<flags, newest, bus, lock, pc>>

PollEnds ==
  /\ poll = "top" /\ ~running /\ poll' = "none"
  /\ UNCHANGED <<flags, cache, heard, newest, bus, lock, pc>>

Poll == PollRefresh \/ PollParse \/ PollStore \/ PollEnds

-----------------------------------------------------------------------------

\* What caller c does inside a call.
Works(c) == Enable(c) \/ Disable(c) \/ Send(c) \/ Clear(c)
            \/ Connect(c) \/ Disconnect(c) \/ Probe(c)

Next == (\E c \in Callers : Call(c) \/ Works(c)) \/ Poll \/ DriveTrips

\* The feedback thread runs; a caller that waits for a mutex that comes free
\* again and again gets it.
Fairness == WF_vars(Poll) /\ \A c \in Callers : SF_vars(Works(c))

Spec == Init /\ [][Next]_vars /\ Fairness

-----------------------------------------------------------------------------
(* Properties. *)

\* enabled_ is true between calls only if the last power frame the drive got
\* was an enable frame, whatever write failed and whoever called.
EnabledIsBacked == enabled /\ lock = "free" => power = "enable"

\* A motion or hold frame is never about to be written after a disable frame
\* has reached the drive: enable(), disable() and sendCommand() of two threads
\* exclude each other from the look at enabled_ to the write.
NoMotionPastDisable ==
  \A c \in Callers : pc[c] \in {"sSend", "eHold"} => power = "enable"

\* Once a fault is what readFeedback() shows, isEnabled() is false unless an
\* enable() is under way: an enable() that raced with the fault frame and
\* returned has seen a later frame than that one.
FaultShownIsDisabled == cache = "fault" /\ lock = "free" => ~enabled

\* What isEnabled() answers between calls is backed by the frames sent to the
\* drive and by the fault last read from it.
EnabledIsHonest == EnabledIsBacked /\ FaultShownIsDisabled

\* A fault that the drive has reported and that lasts is heeded, even when
\* the frame is pushed out of the queue or hidden by a later one of its poll;
\* only a link call may drop it.
FaultFrameIsHeeded ==
  drive = "fault" /\ (\E i \in 1..Len(queue) : queue[i] = "fault")
    ~> \/ ~enabled \/ drive # "fault"
       \/ \E c \in Callers : pc[c] \in Linking

\* Every call returns: no caller waits forever for a mutex or for the thread
\* it joins, not even one that disables while it clears a fault.
CallsReturn == \A c \in Callers : pc[c] # "idle" ~> pc[c] = "idle"

AllIdle == \A c \in Callers : pc[c] = "idle"

\* Between calls a driver that is not connected claims no power, has no
\* feedback thread and no frame waiting; a connected one has its thread.
ThreadFollowsLink ==
  AllIdle => /\ ~connected => ~enabled /\ Joined /\ queue = << >>
             /\ connected => running /\ ~Joined

\* What readFeedback() shows while the feedback thread runs never comes from
\* an earlier link, whichever connect() failed or found the adapter open.
FeedbackOfThisLink == running => cache # "old" /\ newest # "old"

LinksAreSeparate == ThreadFollowsLink /\ FeedbackOfThisLink

\* Claim of motor_interface.hpp:25, "Fails when the motor is disconnected or
\* faulted": enable() does not succeed on feedback that reports a fault.
EnableFailsWhenFaulted ==
  [][\A c \in Callers : pc[c] = "eHold" /\ pc'[c] = "eOk" => cache # "fault"]_vars

\* Claim of motor_interface.hpp:21, "Implementations should leave the motor
\* disabled after success": disconnect() always succeeds.
DisconnectLeavesDisabled ==
  [][\A c \in Callers : pc[c] = "xClose" /\ pc'[c] = "idle" => power = "disable"]_vars
=============================================================================
