-------------------------- MODULE DamiaoMotor_proof --------------------------
(***************************************************************************)
(* The mutex of the driver does what it is for, for any number of callers, *)
(* any calls and any queue.  Three facts hold together: the owner of       *)
(* command_mutex_ is the one caller at a critical label; enabled_ is true  *)
(* without power only between the frames of a disable() and its flag; and  *)
(* enabled_ is true over a fault only while an enable() waits for newer    *)
(* feedback.  And the feedback thread follows the link, because a link     *)
(* call overlaps with no other call.                                       *)
(***************************************************************************)
EXTENDS DamiaoMotor, TLAPS

Typed == /\ enabled \in BOOLEAN /\ heard \in {"no", "parsed", "yes"}
         /\ lock \in Callers \union {"free"}
         /\ pc \in [Callers -> Labels]

Mutex == \A c \in Callers : pc[c] \in Critical <=> lock = c

PowerInv ==
  /\ enabled /\ power # "enable" =>
       lock \in Callers /\ pc[lock] \in {"dFlag", "xFlag"}
  /\ \A c \in Callers :
       pc[c] \in {"eFlag", "eWait", "eHold", "sSend"} => power = "enable"

FaultInv ==
  /\ enabled /\ cache = "fault" =>
       lock \in Callers /\ pc[lock] = "eWait" /\ heard # "yes"
  /\ enabled /\ newest = "fault" =>
       lock \in Callers /\ pc[lock] = "eWait" /\ heard = "no"
  /\ heard = "parsed" => poll = "read" /\ newest # "none"

IInv == Typed /\ Mutex /\ PowerInv /\ FaultInv

-----------------------------------------------------------------------------
(* Types. *)

\* TypeOK in two parts: the queue, and everything else.
QueueTyped == queue \in Seq(Frames) /\ Len(queue) <= QueueSize

Scalars ==
  /\ connected \in BOOLEAN /\ enabled \in BOOLEAN /\ running \in BOOLEAN
  /\ cache \in Frames \union {"none"} /\ newest \in Frames \union {"none"}
  /\ heard \in {"no", "parsed", "yes"}
  /\ drive \in Drive /\ power \in {"enable", "disable"}
  /\ lock \in Callers \union {"free"}
  /\ poll \in {"none", "top", "read"}
  /\ pc \in [Callers -> Labels]

\* What a step can make of the queue.
NextQueues == {queue, << >>, Aged(queue)}
              \union {Enqueue(queue, d) : d \in Drive}

\* The queue never grows beyond its bound, and only its oldest frame is lost.
LEMMA EnqueueType ==
  ASSUME NEW q \in Seq(Frames), Len(q) <= QueueSize, NEW f \in Frames
  PROVE  Enqueue(q, f) \in Seq(Frames) /\ Len(Enqueue(q, f)) <= QueueSize
  BY QueueAssumption DEF Enqueue

\* A frame read from the queue is a frame.
LEMMA HeadFrame ==
  ASSUME QueueTyped, queue # << >>
  PROVE  /\ Head(queue) \in Frames /\ Head(queue) # "none"
         /\ Tail(queue) \in Seq(Frames) /\ Len(Tail(queue)) <= QueueSize
  BY QueueAssumption DEF QueueTyped, Frames, Drive

\* Whatever a caller makes of the queue is a queue.
LEMMA QueueSteps == QueueTyped /\ queue' \in NextQueues => QueueTyped'
  <1> SUFFICES ASSUME QueueTyped, queue' \in NextQueues PROVE QueueTyped'
    OBVIOUS
  <1>1. CASE queue' = queue
    BY <1>1 DEF QueueTyped
  <1>2. CASE queue' = << >>
    BY <1>2, QueueAssumption DEF QueueTyped
  <1>3. CASE queue' = Aged(queue)
    <2>1. Aged(queue) \in [1..Len(queue) -> Frames]
      BY DEF Aged, Frames
    <2>2. Len(queue) \in Nat
      BY DEF QueueTyped
    <2>3. Aged(queue) \in Seq(Frames) /\ Len(Aged(queue)) = Len(queue)
      BY <2>1, <2>2
    <2> QED BY <1>3, <2>3 DEF QueueTyped
  <1>4. ASSUME NEW d \in Drive, queue' = Enqueue(queue, d) PROVE QueueTyped'
    BY <1>4, EnqueueType DEF QueueTyped, Frames
  <1> QED BY <1>1, <1>2, <1>3, <1>4 DEF NextQueues

\* A caller keeps every type.
LEMMA WorksType ==
  ASSUME NEW c \in Callers, Scalars, Works(c)
  PROVE  Scalars' /\ queue' \in NextQueues
  <1> USE DEF Goes, Take, Release, Locks, Enter, StartThread, Overwritten, PowerFrames,
          PowerFramesFail, Reaches, flags, reads, bus,
          Scalars, NextQueues, Frames, Drive
  <1>1. CASE Enable(c)
    <2>1. Scalars'
      BY <1>1, ZenonT(60) DEF Enable, Labels, Critical, CommandCalls, LinkCalls
    <2>2. queue' \in NextQueues
      BY <1>1 DEF Enable
    <2> QED BY <2>1, <2>2
  <1>2. CASE Disable(c)
    <2>1. Scalars'
      BY <1>2, ZenonT(60) DEF Disable, SwitchOff, SwitchOffBody, Labels, Critical, CommandCalls,
         LinkCalls
    <2>2. queue' \in NextQueues
      BY <1>2 DEF Disable, SwitchOff, SwitchOffBody
    <2> QED BY <2>1, <2>2
  <1>3. CASE Send(c)
    <2>1. Scalars'
      BY <1>3 DEF Send, Labels, Critical, CommandCalls, LinkCalls
    <2>2. queue' \in NextQueues
      BY <1>3 DEF Send
    <2> QED BY <2>1, <2>2
  <1>4. CASE Clear(c)
    <2>1. Scalars'
      BY <1>4 DEF Clear, Labels, Critical, CommandCalls, LinkCalls
    <2>2. queue' \in NextQueues
      BY <1>4 DEF Clear
    <2> QED BY <2>1, <2>2
  <1>5. CASE Connect(c)
    <2>1. Scalars'
      BY <1>5, ZenonT(60) DEF Connect, ConnectBody, Joined, Labels, Critical,
                             CommandCalls, LinkCalls
    <2>2. queue' \in NextQueues
      BY <1>5 DEF Connect, ConnectBody, Joined
    <2> QED BY <2>1, <2>2
  <1>6. CASE Disconnect(c)
    <2>1. Scalars'
      <3>1. CASE pc[c] \in {"disconnect", "xStop", "xClose"}
        BY <1>6, <3>1 DEF Disconnect, SwitchOff, SwitchOffBody, Labels, Critical
      <3>2. CASE pc[c] = "xDisable"
        BY <1>6, <3>2 DEF Disconnect, SwitchOff, SwitchOffBody, Labels, Critical
      <3>3. CASE pc[c] = "xLock"
        BY <1>6, <3>3 DEF Disconnect, SwitchOff, SwitchOffBody, Labels, Critical
      <3>4. CASE pc[c] = "xSend"
        BY <1>6, <3>4 DEF Disconnect, SwitchOff, SwitchOffBody, Labels, Critical
      <3>5. CASE pc[c] = "xFlag"
        BY <1>6, <3>5 DEF Disconnect, SwitchOff, SwitchOffBody, Labels, Critical
      <3> QED BY <1>6, <3>1, <3>2, <3>3, <3>4, <3>5
               DEF Disconnect, SwitchOff, SwitchOffBody
    <2>2. queue' \in NextQueues
      BY <1>6 DEF Disconnect, SwitchOff, SwitchOffBody
    <2> QED BY <2>1, <2>2
  <1>7. CASE Probe(c)
    <2>1. Scalars'
      BY <1>7 DEF Probe, Labels, Critical, CommandCalls, LinkCalls
    <2>2. queue' \in NextQueues
      BY <1>7 DEF Probe
    <2> QED BY <2>1, <2>2
  <1> QED BY <1>1, <1>2, <1>3, <1>4, <1>5, <1>6, <1>7 DEF Works

\* Every step keeps the types.
LEMMA TypeStep == TypeOK /\ [Next]_vars => TypeOK'
  <1>. SUFFICES ASSUME TypeOK, [Next]_vars PROVE TypeOK'
    OBVIOUS
  <1>t. Scalars /\ QueueTyped
    BY DEF TypeOK, Scalars, QueueTyped
  <1>1. ASSUME NEW c \in Callers, Works(c) PROVE TypeOK'
    BY <1>1, <1>t, WorksType, QueueSteps DEF TypeOK, Scalars, QueueTyped
  <1>2. ASSUME NEW c \in Callers, Call(c) PROVE TypeOK'
    BY <1>2, CallsAssumption DEF TypeOK, Call, Goes, flags, reads, bus, Labels
  <1>3. CASE PollRefresh
    <2>1. queue' \in NextQueues
      BY <1>3 DEF PollRefresh, NextQueues, TypeOK
    <2> QED BY <1>3, <1>t, <2>1, QueueSteps DEF PollRefresh, TypeOK, QueueTyped, flags
  <1>4. CASE PollParse
    BY <1>4, <1>t, HeadFrame DEF PollParse, TypeOK
  <1>5. CASE PollStore \/ PollEnds
    BY <1>5 DEF PollStore, PollEnds, TypeOK, flags, bus
  <1>6. CASE DriveTrips
    BY <1>6 DEF TypeOK, DriveTrips, Drive, flags, reads
  <1>7. CASE UNCHANGED vars
    BY <1>7 DEF TypeOK, vars
  <1> QED BY <1>1, <1>2, <1>3, <1>4, <1>5, <1>6, <1>7 DEF Next, Poll

\* The variables of the driver stay in their types, and its queue in its bound.
THEOREM TypeCorrect == Spec => []TypeOK
  <1>1. ASSUME Init PROVE TypeOK
    <2>1. Scalars
      BY <1>1 DEF Init, Fresh, Linked, Scalars, Frames, Drive, Labels
    <2>2. queue = << >>
      BY <1>1 DEF Init, Fresh, Linked
    <2>3. QueueTyped
      BY <2>2, QueueAssumption DEF QueueTyped
    <2> QED BY <2>1, <2>3 DEF TypeOK, Scalars, QueueTyped
  <1> QED BY <1>1, TypeStep, PTL DEF Spec

-----------------------------------------------------------------------------
(* The lock, the flag and the fault. *)


\* What the steps of every caller are made of, and what they keep.
USE CallersAssumption
    DEF Goes, Take, Release, Locks, Enter, StartThread, Overwritten, PowerFrames,
        PowerFramesFail, Reaches, BusFree, flags, reads, bus, Critical, Labels,
        CommandCalls, LinkCalls, Joined, SwitchOff, SwitchOffBody,
        IInv, Typed, Mutex, PowerInv, FaultInv

\* enable() raises the flag only after its frames, with no fresh feedback yet.
LEMMA EnableKeeps ==
  ASSUME NEW c \in Callers, IInv, Enable(c)
  PROVE  IInv'
  <1>1. CASE pc[c] = "enable"
    BY <1>1 DEF Enable
  <1>2. CASE pc[c] = "eLock"
    <2>1. (Typed /\ Mutex)'
      BY <1>2 DEF Enable
    <2>2. PowerInv'
      BY <1>2 DEF Enable
    <2>3. FaultInv'
      BY <1>2 DEF Enable
    <2> QED BY <2>1, <2>2, <2>3
  <1>3. CASE pc[c] = "eSend"
    <2>1. (Typed /\ Mutex)'
      BY <1>3, ZenonT(60) DEF Enable
    <2>2. PowerInv'
      BY <1>3 DEF Enable
    <2>3. FaultInv'
      BY <1>3 DEF Enable
    <2> QED BY <2>1, <2>2, <2>3
  <1>4. CASE pc[c] = "eFlag"
    <2>1. (Typed /\ Mutex)'
      BY <1>4 DEF Enable
    <2>2. PowerInv'
      BY <1>4 DEF Enable
    <2>3. FaultInv'
      BY <1>4 DEF Enable
    <2> QED BY <2>1, <2>2, <2>3
  <1>5. CASE pc[c] = "eWait"
    <2>1. (Typed /\ Mutex)'
      BY <1>5, ZenonT(60) DEF Enable
    <2>2. PowerInv'
      BY <1>5 DEF Enable
    <2>3. FaultInv'
      BY <1>5 DEF Enable
    <2> QED BY <2>1, <2>2, <2>3
  <1>6. CASE pc[c] = "eHold"
    <2>1. (Typed /\ Mutex)'
      BY <1>6, ZenonT(60) DEF Enable
    <2>2. PowerInv'
      BY <1>6 DEF Enable
    <2>3. FaultInv'
      BY <1>6 DEF Enable
    <2> QED BY <2>1, <2>2, <2>3
  <1>7. CASE pc[c] = "eOk"
    BY <1>7 DEF Enable
  <1> QED BY <1>1, <1>2, <1>3, <1>4, <1>5, <1>6, <1>7 DEF Enable

\* disable() clears the flag wherever it ends.
LEMMA DisableKeeps ==
  ASSUME NEW c \in Callers, IInv, Disable(c)
  PROVE  IInv'
  <1>1. CASE pc[c] = "disable"
    BY <1>1 DEF Disable
  <1>2. CASE pc[c] = "dLock"
    BY <1>2 DEF Disable
  <1>3. CASE pc[c] = "dSend"
    <2>1. (Typed /\ Mutex)'
      BY <1>3, ZenonT(60) DEF Disable
    <2>2. PowerInv'
      BY <1>3 DEF Disable
    <2>3. FaultInv'
      BY <1>3 DEF Disable
    <2> QED BY <2>1, <2>2, <2>3
  <1>4. CASE pc[c] = "dFlag"
    BY <1>4, ZenonT(60) DEF Disable
  <1> QED BY <1>1, <1>2, <1>3, <1>4 DEF Disable

\* sendCommand() looks at the flag under the lock it writes under.
LEMMA SendKeeps ==
  ASSUME NEW c \in Callers, IInv, Send(c)
  PROVE  IInv'
  <1>1. CASE pc[c] = "send"
    BY <1>1 DEF Send
  <1>2. CASE pc[c] = "sLock"
    BY <1>2 DEF Send
  <1>3. CASE pc[c] = "sSend"
    BY <1>3 DEF Send
  <1> QED BY <1>1, <1>2, <1>3 DEF Send

\* Clearing a fault releases the lock before disable() takes it.
LEMMA ClearKeeps ==
  ASSUME NEW c \in Callers, IInv, Clear(c)
  PROVE  IInv'
  <1>1. CASE pc[c] = "clear"
    BY <1>1 DEF Clear
  <1>2. CASE pc[c] = "cLock"
    BY <1>2 DEF Clear
  <1>3. CASE pc[c] = "cSend"
    BY <1>3 DEF Clear
  <1> QED BY <1>1, <1>2, <1>3 DEF Clear

\* connect() starts from a joined thread and a cleared flag.
LEMMA ConnectKeeps ==
  ASSUME NEW c \in Callers, IInv, Connect(c)
  PROVE  IInv'
  <1>1. CASE pc[c] = "connect"
    BY <1>1, ZenonT(60) DEF Connect, ConnectBody
  <1>2. CASE pc[c] = "kJoin"
    BY <1>2 DEF Connect, ConnectBody
  <1>3. CASE pc[c] = "kOpen"
    BY <1>3 DEF Connect, ConnectBody
  <1>4. CASE pc[c] = "kClear"
    BY <1>4 DEF Connect, ConnectBody
  <1>5. CASE pc[c] = "kWait"
    BY <1>5 DEF Connect, ConnectBody
  <1> QED BY <1>1, <1>2, <1>3, <1>4, <1>5 DEF Connect, ConnectBody

\* disconnect() disables as disable() does.
LEMMA DisconnectKeeps ==
  ASSUME NEW c \in Callers, IInv, Disconnect(c)
  PROVE  IInv'
  <1>1. CASE pc[c] = "disconnect"
    BY <1>1 DEF Disconnect
  <1>2. CASE pc[c] = "xDisable"
    BY <1>2 DEF Disconnect
  <1>3. CASE pc[c] = "xLock"
    BY <1>3 DEF Disconnect
  <1>4. CASE pc[c] = "xSend"
    <2>1. (Typed /\ Mutex)'
      BY <1>4, ZenonT(60) DEF Disconnect
    <2>2. PowerInv'
      BY <1>4 DEF Disconnect
    <2>3. FaultInv'
      BY <1>4 DEF Disconnect
    <2> QED BY <2>1, <2>2, <2>3
  <1>5. CASE pc[c] = "xFlag"
    BY <1>5, ZenonT(60) DEF Disconnect
  <1>6. CASE pc[c] = "xStop"
    BY <1>6 DEF Disconnect
  <1>7. CASE pc[c] = "xClose"
    BY <1>7, ZenonT(60) DEF Disconnect
  <1> QED BY <1>1, <1>2, <1>3, <1>4, <1>5, <1>6, <1>7 DEF Disconnect

\* The probe touches neither flag nor power.
LEMMA ProbeKeeps ==
  ASSUME NEW c \in Callers, IInv, Probe(c)
  PROVE  IInv'
  <1>1. CASE pc[c] = "probe"
    BY <1>1 DEF Probe
  <1>2. CASE pc[c] = "pJoin"
    BY <1>2 DEF Probe
  <1>3. CASE pc[c] = "pLock"
    BY <1>3 DEF Probe
  <1>4. CASE pc[c] = "pRead"
    BY <1>4 DEF Probe
  <1> QED BY <1>1, <1>2, <1>3, <1>4 DEF Probe

\* The feedback thread only clears the flag; a fault it has read is newer than
\* what an enable() waits for.
LEMMA PollKeeps ==
  ASSUME TypeOK, IInv, Poll PROVE IInv'
  <1>1. CASE PollRefresh
    BY <1>1 DEF PollRefresh
  <1>2. CASE PollParse
    BY <1>2, HeadFrame DEF PollParse, TypeOK, QueueTyped
  <1>3. CASE PollStore
    BY <1>3 DEF PollStore
  <1>4. CASE PollEnds
    BY <1>4 DEF PollEnds
  <1> QED BY <1>1, <1>2, <1>3, <1>4 DEF Poll

\* A call begins outside the lock.
LEMMA CallKeeps ==
  ASSUME NEW c \in Callers, IInv, Call(c), CallsAssumption PROVE IInv'
  BY DEF Call, CallsAssumption

\* A step that changes nothing keeps every part of the invariant.
LEMMA Stutters ==
  ASSUME IInv, UNCHANGED vars PROVE IInv'
  BY DEF vars

HIDE DEF IInv, SwitchOffBody, Reaches

\* Every step of the driver keeps the inductive invariant.
LEMMA StepKeeps == TypeOK /\ IInv /\ [Next]_vars => IInv'
  <1> SUFFICES ASSUME TypeOK, IInv, [Next]_vars PROVE IInv'
    OBVIOUS
  <1>1. CASE UNCHANGED vars
    BY <1>1, Stutters
  <1>2. CASE Poll
    BY <1>2, PollKeeps
  <1>3. CASE DriveTrips
    BY <1>3 DEF DriveTrips, IInv
  <1>4. ASSUME NEW c \in Callers, Call(c) PROVE IInv'
    BY <1>4, CallKeeps, CallsAssumption
  <1>5. ASSUME NEW c \in Callers, Works(c) PROVE IInv'
    BY <1>5, EnableKeeps, DisableKeeps, SendKeeps, ClearKeeps, ConnectKeeps,
       DisconnectKeeps, ProbeKeeps DEF Works
  <1> QED
    BY <1>1, <1>2, <1>3, <1>4, <1>5 DEF Next

\* Both the fresh and the linked driver satisfy it.
LEMMA InitHolds == Init => IInv
  BY DEF Init, Fresh, Linked, IInv

-----------------------------------------------------------------------------

\* The inductive invariant holds of every behaviour of the driver.
THEOREM Inductive == Spec => []IInv
  BY InitHolds, StepKeeps, TypeCorrect, PTL DEF Spec

\* enabled_ between calls is backed by an enable frame (damiao_motor.cpp,
\* enable() and disable()).
THEOREM Backed == Spec => []EnabledIsBacked
  <1>1. IInv => EnabledIsBacked
    BY DEF IInv, EnabledIsBacked
  <1> QED BY <1>1, Inductive, PTL

\* No motion or hold frame is written past a disable frame (sendCommand()).
THEOREM NoLateMotion == Spec => []NoMotionPastDisable
  <1>1. IInv => NoMotionPastDisable
    BY DEF IInv, NoMotionPastDisable
  <1> QED BY <1>1, Inductive, PTL

\* A shown fault means a disabled driver (refreshFeedback() against enable()).
THEOREM FaultDisables == Spec => []FaultShownIsDisabled
  <1>1. IInv => FaultShownIsDisabled
    BY DEF IInv, FaultShownIsDisabled
  <1> QED BY <1>1, Inductive, PTL

\* Between calls isEnabled() is backed by the last power frame and by the fault
\* last read.
THEOREM FlagIsHonest == Spec => []EnabledIsHonest
  <1>1. IInv => EnabledIsHonest
    BY DEF IInv, EnabledIsHonest, EnabledIsBacked, FaultShownIsDisabled
  <1> QED BY <1>1, Inductive, PTL
-----------------------------------------------------------------------------
(* The feedback thread and the link. *)

\* A link call overlaps with no other call.
Solo == \A c, d \in Callers : pc[c] \in Linking /\ c # d => pc[d] = "idle"

\* A call that has passed requireConnected still finds the link open.
Entered ==
  \A c \in Callers :
    pc[c] \in {"eLock", "eSend", "eFlag", "eWait", "eHold", "eOk", "dLock", "dSend",
               "dFlag", "sLock", "sSend", "cLock", "cSend", "xDisable", "xLock",
               "xSend", "xFlag", "kClear", "kWait", "pJoin", "pLock", "pRead"}
      => connected

\* Between stopping a thread and starting the next one, or closing for good, a
\* link call has cleared the thread's flag, and joined it where it goes on.
Between ==
  \A c \in Callers :
    /\ pc[c] \in {"kJoin", "kOpen", "kClear", "xClose", "pJoin", "pLock", "pRead"}
         => ~running
    /\ pc[c] \in {"kOpen", "kClear", "pLock", "pRead"} => poll = "none"
    /\ pc[c] \in {"kJoin", "kOpen"} => ~connected
    /\ pc[c] \in {"kJoin", "kOpen", "kClear"} => ~enabled

\* Elsewhere the thread runs exactly while the link is open.
Settled ==
  (\A c \in Callers : pc[c] \notin {"kJoin", "kOpen", "kClear", "xClose", "pJoin",
                                     "pLock", "pRead"})
    => /\ connected <=> running
       /\ connected <=> poll # "none"
       /\ ~connected => ~enabled /\ queue = << >>

\* What an earlier link has left is in the queue only until the adapter is opened,
\* and in the cache only until the thread starts.
Current ==
  /\ (\A c \in Callers : pc[c] # "kOpen") => queue \in Seq(Drive)
  /\ newest # "old"
  /\ connected /\ (\A c \in Callers : pc[c] # "kClear") => cache # "old"

ThreadInv == Solo /\ Entered /\ Between /\ Settled /\ Current
\* A motion or power frame leaves frames of this drive in the queue.
LEMMA EnqueueOurs ==
  ASSUME NEW q \in Seq(Drive), NEW d \in Drive
  PROVE  Enqueue(q, d) \in Seq(Drive)
  BY QueueAssumption DEF Enqueue

\* The labels of the calls, expanded.
USE DEF Linking, SwitchOffBody, Reaches

\* enable() finds the thread running and leaves it so.
LEMMA EnableFollows ==
  ASSUME NEW c \in Callers, TypeOK, ThreadInv, Enable(c)
  PROVE  ThreadInv'
  <1>1. CASE pc[c] = "enable"
    <2>1. (Solo /\ Entered /\ Between)'
      BY <1>1 DEF TypeOK, ThreadInv, Solo, Entered, Between, Settled, Enable
    <2>2. Settled'
      BY <1>1 DEF TypeOK, ThreadInv, Solo, Entered, Between, Settled, Enable
    <2>3. Current'
      BY <1>1, EnqueueOurs DEF TypeOK, ThreadInv, Solo, Entered, Between, Settled, Current,
         Drive, Enable
    <2>4. QED BY <2>1, <2>2, <2>3 DEF ThreadInv
  <1>2. CASE pc[c] = "eLock"
    <2>1. (Solo /\ Entered /\ Between)'
      BY <1>2 DEF TypeOK, ThreadInv, Solo, Entered, Between, Settled, Enable
    <2>2. Settled'
      BY <1>2 DEF TypeOK, ThreadInv, Solo, Entered, Between, Settled, Enable
    <2>3. Current'
      BY <1>2, EnqueueOurs DEF TypeOK, ThreadInv, Solo, Entered, Between, Settled, Current,
         Drive, Enable
    <2>4. QED BY <2>1, <2>2, <2>3 DEF ThreadInv
  <1>3. CASE pc[c] = "eSend"
    <2>1. (Solo /\ Entered /\ Between)'
      BY <1>3 DEF TypeOK, ThreadInv, Solo, Entered, Between, Settled, Enable
    <2>2. Settled'
      BY <1>3 DEF TypeOK, ThreadInv, Solo, Entered, Between, Settled, Enable
    <2>3. Current'
      BY <1>3, EnqueueOurs DEF TypeOK, ThreadInv, Solo, Entered, Between, Settled, Current,
         Drive, Enable
    <2>4. QED BY <2>1, <2>2, <2>3 DEF ThreadInv
  <1>4. CASE pc[c] = "eFlag"
    <2>1. (Solo /\ Entered /\ Between)'
      BY <1>4 DEF TypeOK, ThreadInv, Solo, Entered, Between, Settled, Enable
    <2>2. Settled'
      BY <1>4 DEF TypeOK, ThreadInv, Solo, Entered, Between, Settled, Enable
    <2>3. Current'
      BY <1>4, EnqueueOurs DEF TypeOK, ThreadInv, Solo, Entered, Between, Settled, Current,
         Drive, Enable
    <2>4. QED BY <2>1, <2>2, <2>3 DEF ThreadInv
  <1>5. CASE pc[c] = "eWait"
    <2>1. (Solo /\ Entered /\ Between)'
      BY <1>5 DEF TypeOK, ThreadInv, Solo, Entered, Between, Settled, Enable
    <2>2. Settled'
      BY <1>5 DEF TypeOK, ThreadInv, Solo, Entered, Between, Settled, Enable
    <2>3. Current'
      BY <1>5, EnqueueOurs DEF TypeOK, ThreadInv, Solo, Entered, Between, Settled, Current,
         Drive, Enable
    <2>4. QED BY <2>1, <2>2, <2>3 DEF ThreadInv
  <1>6. CASE pc[c] = "eHold"
    <2>1. (Solo /\ Entered /\ Between)'
      BY <1>6 DEF TypeOK, ThreadInv, Solo, Entered, Between, Settled, Enable
    <2>2. Settled'
      BY <1>6 DEF TypeOK, ThreadInv, Solo, Entered, Between, Settled, Enable
    <2>3. Current'
      BY <1>6, EnqueueOurs DEF TypeOK, ThreadInv, Solo, Entered, Between, Settled, Current,
         Drive, Enable
    <2>4. QED BY <2>1, <2>2, <2>3 DEF ThreadInv
  <1>7. CASE pc[c] = "eOk"
    <2>1. (Solo /\ Entered /\ Between)'
      BY <1>7 DEF TypeOK, ThreadInv, Solo, Entered, Between, Settled, Enable
    <2>2. Settled'
      BY <1>7 DEF TypeOK, ThreadInv, Solo, Entered, Between, Settled, Enable
    <2>3. Current'
      BY <1>7, EnqueueOurs DEF TypeOK, ThreadInv, Solo, Entered, Between, Settled, Current,
         Drive, Enable
    <2>4. QED BY <2>1, <2>2, <2>3 DEF ThreadInv
  <1>8. QED BY <1>1, <1>2, <1>3, <1>4, <1>5, <1>6, <1>7 DEF Enable

\* disable() touches the link only through a frame.
LEMMA DisableFollows ==
  ASSUME NEW c \in Callers, TypeOK, ThreadInv, Disable(c)
  PROVE  ThreadInv'
  <1>1. CASE pc[c] = "disable"
    <2>1. (Solo /\ Entered /\ Between)'
      BY <1>1 DEF TypeOK, ThreadInv, Solo, Entered, Between, Settled, Disable
    <2>2. Settled'
      BY <1>1 DEF TypeOK, ThreadInv, Solo, Entered, Between, Settled, Disable
    <2>3. Current'
      BY <1>1, EnqueueOurs DEF TypeOK, ThreadInv, Solo, Entered, Between, Settled, Current,
         Drive, Disable
    <2>4. QED BY <2>1, <2>2, <2>3 DEF ThreadInv
  <1>2. CASE pc[c] = "dLock"
    <2>1. (Solo /\ Entered /\ Between)'
      BY <1>2 DEF TypeOK, ThreadInv, Solo, Entered, Between, Settled, Disable
    <2>2. Settled'
      BY <1>2 DEF TypeOK, ThreadInv, Solo, Entered, Between, Settled, Disable
    <2>3. Current'
      BY <1>2, EnqueueOurs DEF TypeOK, ThreadInv, Solo, Entered, Between, Settled, Current,
         Drive, Disable
    <2>4. QED BY <2>1, <2>2, <2>3 DEF ThreadInv
  <1>3. CASE pc[c] = "dSend"
    <2>1. (Solo /\ Entered /\ Between)'
      BY <1>3 DEF TypeOK, ThreadInv, Solo, Entered, Between, Settled, Disable
    <2>2. Settled'
      BY <1>3 DEF TypeOK, ThreadInv, Solo, Entered, Between, Settled, Disable
    <2>3. Current'
      BY <1>3, EnqueueOurs DEF TypeOK, ThreadInv, Solo, Entered, Between, Settled, Current,
         Drive, Disable
    <2>4. QED BY <2>1, <2>2, <2>3 DEF ThreadInv
  <1>4. CASE pc[c] = "dFlag"
    <2>1. (Solo /\ Entered /\ Between)'
      BY <1>4 DEF TypeOK, ThreadInv, Solo, Entered, Between, Settled, Disable
    <2>2. Settled'
      BY <1>4 DEF TypeOK, ThreadInv, Solo, Entered, Between, Settled, Disable
    <2>3. Current'
      BY <1>4, EnqueueOurs DEF TypeOK, ThreadInv, Solo, Entered, Between, Settled, Current,
         Drive, Disable
    <2>4. QED BY <2>1, <2>2, <2>3 DEF ThreadInv
  <1>5. QED BY <1>1, <1>2, <1>3, <1>4 DEF Disable

\* sendCommand() writes a frame of an open link.
LEMMA SendFollows ==
  ASSUME NEW c \in Callers, TypeOK, ThreadInv, Send(c)
  PROVE  ThreadInv'
  <1>1. CASE pc[c] = "send"
    <2>1. (Solo /\ Entered /\ Between)'
      BY <1>1 DEF TypeOK, ThreadInv, Solo, Entered, Between, Settled, Send
    <2>2. Settled'
      BY <1>1 DEF TypeOK, ThreadInv, Solo, Entered, Between, Settled, Send
    <2>3. Current'
      BY <1>1, EnqueueOurs DEF TypeOK, ThreadInv, Solo, Entered, Between, Settled, Current,
         Drive, Send
    <2>4. QED BY <2>1, <2>2, <2>3 DEF ThreadInv
  <1>2. CASE pc[c] = "sLock"
    <2>1. (Solo /\ Entered /\ Between)'
      BY <1>2 DEF TypeOK, ThreadInv, Solo, Entered, Between, Settled, Send
    <2>2. Settled'
      BY <1>2 DEF TypeOK, ThreadInv, Solo, Entered, Between, Settled, Send
    <2>3. Current'
      BY <1>2, EnqueueOurs DEF TypeOK, ThreadInv, Solo, Entered, Between, Settled, Current,
         Drive, Send
    <2>4. QED BY <2>1, <2>2, <2>3 DEF ThreadInv
  <1>3. CASE pc[c] = "sSend"
    <2>1. (Solo /\ Entered /\ Between)'
      BY <1>3 DEF TypeOK, ThreadInv, Solo, Entered, Between, Settled, Send
    <2>2. Settled'
      BY <1>3 DEF TypeOK, ThreadInv, Solo, Entered, Between, Settled, Send
    <2>3. Current'
      BY <1>3, EnqueueOurs DEF TypeOK, ThreadInv, Solo, Entered, Between, Settled, Current,
         Drive, Send
    <2>4. QED BY <2>1, <2>2, <2>3 DEF ThreadInv
  <1>4. QED BY <1>1, <1>2, <1>3 DEF Send

\* So does clearing a fault.
LEMMA ClearFollows ==
  ASSUME NEW c \in Callers, TypeOK, ThreadInv, Clear(c)
  PROVE  ThreadInv'
  <1>1. CASE pc[c] = "clear"
    <2>1. (Solo /\ Entered /\ Between)'
      BY <1>1 DEF TypeOK, ThreadInv, Solo, Entered, Between, Settled, Clear
    <2>2. Settled'
      BY <1>1 DEF TypeOK, ThreadInv, Solo, Entered, Between, Settled, Clear
    <2>3. Current'
      BY <1>1, EnqueueOurs DEF TypeOK, ThreadInv, Solo, Entered, Between, Settled, Current,
         Drive, Clear
    <2>4. QED BY <2>1, <2>2, <2>3 DEF ThreadInv
  <1>2. CASE pc[c] = "cLock"
    <2>1. (Solo /\ Entered /\ Between)'
      BY <1>2 DEF TypeOK, ThreadInv, Solo, Entered, Between, Settled, Clear
    <2>2. Settled'
      BY <1>2 DEF TypeOK, ThreadInv, Solo, Entered, Between, Settled, Clear
    <2>3. Current'
      BY <1>2, EnqueueOurs DEF TypeOK, ThreadInv, Solo, Entered, Between, Settled, Current,
         Drive, Clear
    <2>4. QED BY <2>1, <2>2, <2>3 DEF ThreadInv
  <1>3. CASE pc[c] = "cSend"
    <2>1. (Solo /\ Entered /\ Between)'
      BY <1>3 DEF TypeOK, ThreadInv, Solo, Entered, Between, Settled, Clear
    <2>2. Settled'
      BY <1>3 DEF TypeOK, ThreadInv, Solo, Entered, Between, Settled, Clear
    <2>3. Current'
      BY <1>3, EnqueueOurs DEF TypeOK, ThreadInv, Solo, Entered, Between, Settled, Current,
         Drive, Clear
    <2>4. QED BY <2>1, <2>2, <2>3 DEF ThreadInv
  <1>4. QED BY <1>1, <1>2, <1>3 DEF Clear

\* connect() drops what an earlier link has left before it starts the thread.
LEMMA ConnectFollows ==
  ASSUME NEW c \in Callers, TypeOK, ThreadInv, Connect(c)
  PROVE  ThreadInv'
  <1>1. CASE pc[c] = "connect"
    <2>1. (Solo /\ Entered /\ Between)'
      BY <1>1 DEF TypeOK, ThreadInv, Solo, Entered, Between, Settled, Connect, ConnectBody
    <2>2. Settled'
      BY <1>1 DEF TypeOK, ThreadInv, Solo, Entered, Between, Settled, Connect, ConnectBody
    <2>3. Current'
      BY <1>1, EnqueueOurs DEF TypeOK, ThreadInv, Solo, Entered, Between, Settled, Current,
         Drive, Connect, ConnectBody
    <2>4. QED BY <2>1, <2>2, <2>3 DEF ThreadInv
  <1>2. CASE pc[c] = "kJoin"
    <2>1. (Solo /\ Entered /\ Between)'
      BY <1>2 DEF TypeOK, ThreadInv, Solo, Entered, Between, Settled, Connect, ConnectBody
    <2>2. Settled'
      BY <1>2 DEF TypeOK, ThreadInv, Solo, Entered, Between, Settled, Connect, ConnectBody
    <2>3. Current'
      BY <1>2, EnqueueOurs DEF TypeOK, ThreadInv, Solo, Entered, Between, Settled, Current,
         Drive, Connect, ConnectBody
    <2>4. QED BY <2>1, <2>2, <2>3 DEF ThreadInv
  <1>3. CASE pc[c] = "kOpen"
    <2>1. (Solo /\ Entered /\ Between)'
      BY <1>3 DEF TypeOK, ThreadInv, Solo, Entered, Between, Settled, Connect, ConnectBody
    <2>2. Settled'
      BY <1>3 DEF TypeOK, ThreadInv, Solo, Entered, Between, Settled, Connect, ConnectBody
    <2>3. Current'
      <3>1. queue' = << >> /\ << >> \in Seq(Drive)
        BY <1>3 DEF Connect, ConnectBody
      <3>2. newest' # "old"
        BY <1>3 DEF ThreadInv, Current, Connect, ConnectBody
      <3>3. pc'[c] = "kClear" \/ ~connected'
        BY <1>3 DEF TypeOK, ThreadInv, Between, Connect, ConnectBody
      <3>4. QED BY <3>1, <3>2, <3>3 DEF Current
    <2>4. QED BY <2>1, <2>2, <2>3 DEF ThreadInv
  <1>4. CASE pc[c] = "kClear"
    <2>1. (Solo /\ Entered /\ Between)'
      BY <1>4 DEF TypeOK, ThreadInv, Solo, Entered, Between, Settled, Connect, ConnectBody
    <2>2. Settled'
      BY <1>4 DEF TypeOK, ThreadInv, Solo, Entered, Between, Settled, Connect, ConnectBody
    <2>3. Current'
      BY <1>4, EnqueueOurs DEF TypeOK, ThreadInv, Solo, Entered, Between, Settled, Current,
         Drive, Connect, ConnectBody
    <2>4. QED BY <2>1, <2>2, <2>3 DEF ThreadInv
  <1>5. CASE pc[c] = "kWait"
    <2>1. (Solo /\ Entered /\ Between)'
      BY <1>5 DEF TypeOK, ThreadInv, Solo, Entered, Between, Settled, Connect, ConnectBody
    <2>2. Settled'
      BY <1>5 DEF TypeOK, ThreadInv, Solo, Entered, Between, Settled, Connect, ConnectBody
    <2>3. Current'
      BY <1>5, EnqueueOurs DEF TypeOK, ThreadInv, Solo, Entered, Between, Settled, Current,
         Drive, Connect, ConnectBody
    <2>4. QED BY <2>1, <2>2, <2>3 DEF ThreadInv
  <1>6. QED BY <1>1, <1>2, <1>3, <1>4, <1>5 DEF Connect, ConnectBody

\* disconnect() joins the thread before it closes the link.
LEMMA DisconnectFollows ==
  ASSUME NEW c \in Callers, TypeOK, ThreadInv, Disconnect(c)
  PROVE  ThreadInv'
  <1>1. CASE pc[c] = "disconnect"
    <2>1. (Solo /\ Entered /\ Between)'
      BY <1>1 DEF TypeOK, ThreadInv, Solo, Entered, Between, Settled, Disconnect
    <2>2. Settled'
      BY <1>1 DEF TypeOK, ThreadInv, Solo, Entered, Between, Settled, Disconnect
    <2>3. Current'
      BY <1>1, EnqueueOurs DEF TypeOK, ThreadInv, Solo, Entered, Between, Settled, Current,
         Drive, Disconnect
    <2>4. QED BY <2>1, <2>2, <2>3 DEF ThreadInv
  <1>2. CASE pc[c] = "xDisable"
    <2>1. (Solo /\ Entered /\ Between)'
      BY <1>2 DEF TypeOK, ThreadInv, Solo, Entered, Between, Settled, Disconnect
    <2>2. Settled'
      BY <1>2 DEF TypeOK, ThreadInv, Solo, Entered, Between, Settled, Disconnect
    <2>3. Current'
      BY <1>2, EnqueueOurs DEF TypeOK, ThreadInv, Solo, Entered, Between, Settled, Current,
         Drive, Disconnect
    <2>4. QED BY <2>1, <2>2, <2>3 DEF ThreadInv
  <1>3. CASE pc[c] = "xLock"
    <2>1. (Solo /\ Entered /\ Between)'
      BY <1>3 DEF TypeOK, ThreadInv, Solo, Entered, Between, Settled, Disconnect
    <2>2. Settled'
      BY <1>3 DEF TypeOK, ThreadInv, Solo, Entered, Between, Settled, Disconnect
    <2>3. Current'
      BY <1>3, EnqueueOurs DEF TypeOK, ThreadInv, Solo, Entered, Between, Settled, Current,
         Drive, Disconnect
    <2>4. QED BY <2>1, <2>2, <2>3 DEF ThreadInv
  <1>4. CASE pc[c] = "xSend"
    <2>1. (Solo /\ Entered /\ Between)'
      BY <1>4 DEF TypeOK, ThreadInv, Solo, Entered, Between, Settled, Disconnect
    <2>2. Settled'
      BY <1>4 DEF TypeOK, ThreadInv, Solo, Entered, Between, Settled, Disconnect
    <2>3. Current'
      BY <1>4, EnqueueOurs DEF TypeOK, ThreadInv, Solo, Entered, Between, Settled, Current,
         Drive, Disconnect
    <2>4. QED BY <2>1, <2>2, <2>3 DEF ThreadInv
  <1>5. CASE pc[c] = "xFlag"
    <2>1. (Solo /\ Entered /\ Between)'
      BY <1>5 DEF TypeOK, ThreadInv, Solo, Entered, Between, Settled, Disconnect
    <2>2. Settled'
      BY <1>5 DEF TypeOK, ThreadInv, Solo, Entered, Between, Settled, Disconnect
    <2>3. Current'
      BY <1>5, EnqueueOurs DEF TypeOK, ThreadInv, Solo, Entered, Between, Settled, Current,
         Drive, Disconnect
    <2>4. QED BY <2>1, <2>2, <2>3 DEF ThreadInv
  <1>6. CASE pc[c] = "xStop"
    <2>1. (Solo /\ Entered /\ Between)'
      BY <1>6 DEF TypeOK, ThreadInv, Solo, Entered, Between, Settled, Disconnect
    <2>2. Settled'
      BY <1>6 DEF TypeOK, ThreadInv, Solo, Entered, Between, Settled, Disconnect
    <2>3. Current'
      BY <1>6, EnqueueOurs DEF TypeOK, ThreadInv, Solo, Entered, Between, Settled, Current,
         Drive, Disconnect
    <2>4. QED BY <2>1, <2>2, <2>3 DEF ThreadInv
  <1>7. CASE pc[c] = "xClose"
    <2>1. (Solo /\ Entered /\ Between)'
      BY <1>7 DEF TypeOK, ThreadInv, Solo, Entered, Between, Settled, Disconnect
    <2>2. Settled'
      BY <1>7 DEF TypeOK, ThreadInv, Solo, Entered, Between, Settled, Disconnect
    <2>3. Current'
      BY <1>7, EnqueueOurs DEF TypeOK, ThreadInv, Solo, Entered, Between, Settled, Current,
         Drive, Disconnect
    <2>4. QED BY <2>1, <2>2, <2>3 DEF ThreadInv
  <1>8. QED BY <1>1, <1>2, <1>3, <1>4, <1>5, <1>6, <1>7 DEF Disconnect

\* The probe restarts the thread it has stopped.
LEMMA ProbeFollows ==
  ASSUME NEW c \in Callers, TypeOK, ThreadInv, Probe(c)
  PROVE  ThreadInv'
  <1>1. CASE pc[c] = "probe"
    <2>1. (Solo /\ Entered /\ Between)'
      <3>1. /\ pc' = [pc EXCEPT ![c] = IF connected THEN "pJoin" ELSE "idle"]
            /\ running' = (running /\ ~connected)
            /\ UNCHANGED <<connected, enabled, poll>>
        BY <1>1 DEF Probe
      <3>2. CASE connected
        <4>1. pc' = [pc EXCEPT ![c] = "pJoin"] /\ running' = FALSE
          BY <3>1, <3>2
        <4>2. QED
          BY <1>1, <3>1, <3>2, <4>1 DEF TypeOK, ThreadInv, Solo, Entered, Between
      <3>3. CASE ~connected
        <4>1. pc' = [pc EXCEPT ![c] = "idle"] /\ running' = running
          BY <3>1, <3>3 DEF TypeOK
        <4>2. QED
          BY <1>1, <3>1, <3>3, <4>1 DEF TypeOK, ThreadInv, Solo, Entered, Between
      <3>4. QED BY <3>2, <3>3
    <2>2. Settled'
      BY <1>1 DEF TypeOK, ThreadInv, Solo, Entered, Between, Settled, Probe
    <2>3. Current'
      BY <1>1, EnqueueOurs DEF TypeOK, ThreadInv, Solo, Entered, Between, Settled, Current,
         Drive, Probe
    <2>4. QED BY <2>1, <2>2, <2>3 DEF ThreadInv
  <1>2. CASE pc[c] = "pJoin"
    <2>1. (Solo /\ Entered /\ Between)'
      BY <1>2 DEF TypeOK, ThreadInv, Solo, Entered, Between, Settled, Probe
    <2>2. Settled'
      BY <1>2 DEF TypeOK, ThreadInv, Solo, Entered, Between, Settled, Probe
    <2>3. Current'
      BY <1>2, EnqueueOurs DEF TypeOK, ThreadInv, Solo, Entered, Between, Settled, Current,
         Drive, Probe
    <2>4. QED BY <2>1, <2>2, <2>3 DEF ThreadInv
  <1>3. CASE pc[c] = "pLock"
    <2>1. (Solo /\ Entered /\ Between)'
      BY <1>3 DEF TypeOK, ThreadInv, Solo, Entered, Between, Settled, Probe
    <2>2. Settled'
      BY <1>3 DEF TypeOK, ThreadInv, Solo, Entered, Between, Settled, Probe
    <2>3. Current'
      BY <1>3, EnqueueOurs DEF TypeOK, ThreadInv, Solo, Entered, Between, Settled, Current,
         Drive, Probe
    <2>4. QED BY <2>1, <2>2, <2>3 DEF ThreadInv
  <1>4. CASE pc[c] = "pRead"
    <2>1. (Solo /\ Entered /\ Between)'
      BY <1>4 DEF TypeOK, ThreadInv, Solo, Entered, Between, Settled, Probe
    <2>2. Settled'
      BY <1>4 DEF TypeOK, ThreadInv, Solo, Entered, Between, Settled, Probe
    <2>3. Current'
      BY <1>4, EnqueueOurs DEF TypeOK, ThreadInv, Solo, Entered, Between, Settled, Current,
         Drive, Probe
    <2>4. QED BY <2>1, <2>2, <2>3 DEF ThreadInv
  <1>5. QED BY <1>1, <1>2, <1>3, <1>4 DEF Probe
\* The feedback thread ends only when a link call has cleared its flag, and it
\* reads only frames of this link.
LEMMA PollFollows ==
  ASSUME TypeOK, ThreadInv, Poll
  PROVE  ThreadInv'
  <1> USE DEF TypeOK, ThreadInv, Solo, Entered, Between, Settled
  <1>1. (Solo /\ Entered /\ Between)'
    BY DEF Poll, PollRefresh, PollParse, PollStore, PollEnds
  <1>2. Settled'
    BY DEF Poll, PollRefresh, PollParse, PollStore, PollEnds
  <1>3. Current'
    <2>1. CASE PollRefresh
      BY <2>1, EnqueueOurs DEF PollRefresh, Current, Drive
    <2>2. CASE PollParse
      <3>1. queue \in Seq(Drive) /\ queue # << >>
        BY <2>2 DEF PollParse, Current
      <3>2. newest' \in Drive /\ queue' \in Seq(Drive)
        BY <2>2, <3>1 DEF PollParse
      <3>3. QED BY <2>2, <3>2 DEF PollParse, Current, Drive
    <2>3. CASE PollStore \/ PollEnds
      BY <2>3 DEF PollStore, PollEnds, Current
    <2>4. QED BY <2>1, <2>2, <2>3 DEF Poll
  <1>4. QED BY <1>1, <1>2, <1>3

\* A call begins where its guard lets it, and has not touched the link yet.
LEMMA CallFollows ==
  ASSUME NEW c \in Callers, TypeOK, ThreadInv, Call(c)
  PROVE  ThreadInv'
  <1>1. PICK op \in Calls :
          /\ pc[c] = "idle" /\ pc' = [pc EXCEPT ![c] = op]
          /\ \A d \in Callers \ {c} :
               pc[d] \notin Linking /\ (op \in LinkCalls => pc[d] = "idle")
    BY DEF Call
  <1>2. op \in CommandCalls \union LinkCalls
    BY CallsAssumption DEF CallsAssumption
  <1>3. UNCHANGED <<connected, enabled, running, cache, newest, poll, queue>>
    BY DEF Call
  <1>4. (Solo /\ Entered /\ Between)'
    BY <1>1, <1>2, <1>3 DEF TypeOK, ThreadInv, Solo, Entered, Between
  <1>5. (Settled /\ Current)'
    BY <1>1, <1>2, <1>3 DEF TypeOK, ThreadInv, Settled, Current
  <1>6. QED BY <1>4, <1>5 DEF ThreadInv

\* Every step keeps the thread with its link.
LEMMA StepFollows == TypeOK /\ ThreadInv /\ [Next]_vars => ThreadInv'
  <1> SUFFICES ASSUME TypeOK, ThreadInv, [Next]_vars PROVE ThreadInv'
    OBVIOUS
  <1>1. CASE UNCHANGED vars
    BY <1>1 DEF vars, ThreadInv, Solo, Entered, Between, Settled, Current
  <1>2. CASE Poll
    BY <1>2, PollFollows
  <1>3. CASE DriveTrips
    BY <1>3 DEF DriveTrips, ThreadInv, Solo, Entered, Between, Settled, Current
  <1>4. ASSUME NEW c \in Callers, Call(c) PROVE ThreadInv'
    BY <1>4, CallFollows
  <1>5. ASSUME NEW c \in Callers, Works(c) PROVE ThreadInv'
    BY <1>5, EnableFollows, DisableFollows, SendFollows, ClearFollows, ConnectFollows,
       DisconnectFollows, ProbeFollows DEF Works
  <1>6. QED BY <1>1, <1>2, <1>3, <1>4, <1>5 DEF Next

\* Neither the fresh nor the linked driver has anything of an earlier link.
LEMMA InitFollows == Init => ThreadInv
  <1> SUFFICES ASSUME Init PROVE ThreadInv
    OBVIOUS
  <1>1. queue = << >> /\ << >> \in Seq(Drive)
    BY DEF Init, Fresh, Linked
  <1>2. QED
    BY <1>1 DEF Init, Fresh, Linked, ThreadInv, Solo, Entered, Between, Settled, Current

\* Between calls an open link has its feedback thread and a closed one has none,
\* no claimed power and no frame left; and no feedback shown while the thread runs
\* comes from an earlier link (DamiaoMotor::connect, disconnect,
\* runCommunicationProbe).
THEOREM LinksStaySeparate == Spec => []LinksAreSeparate
  <1>1. TypeOK /\ ThreadInv => ThreadFollowsLink
    BY DEF TypeOK, ThreadInv, Settled, ThreadFollowsLink, AllIdle
  <1>2. TypeOK /\ ThreadInv => FeedbackOfThisLink
    BY DEF TypeOK, ThreadInv, Between, Settled, Current, FeedbackOfThisLink
  <1>3. TypeOK /\ ThreadInv => LinksAreSeparate
    BY <1>1, <1>2 DEF LinksAreSeparate
  <1>4. QED BY InitFollows, StepFollows, <1>3, TypeCorrect, PTL DEF Spec
=============================================================================
