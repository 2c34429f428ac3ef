------------------------- MODULE RealsenseFactory -------------------------
(***************************************************************************)
(* RealSenseNodeFactory (realsense_node_factory.cpp): finds the device,    *)
(* builds the camera node on it, and starts over when the device is        *)
(* unplugged or the reset service is called.                               *)
(*                                                                         *)
(* Three threads share the factory without a lock: the ROS thread, with    *)
(* the timer of initialize and the services; librealsense's thread, with   *)
(* change_device_callback; and the query thread, joined by reset.          *)
(* A device that is plugged in again, or comes back from a hardware reset, *)
(* is a new handle.  What the threads do to one another in a data race or  *)
(* by a misuse of std::thread ends the process.                            *)
(***************************************************************************)
EXTENDS Naturals, Sequences, SequencesExt

CONSTANTS MaxHandles,   \* bound: times the device appears
          MaxCalls,     \* bound: calls of the services
          MaxFailures   \* bound: nodes that cannot be built

ASSUME FactoryAssumption ==
  MaxHandles \in Nat /\ MaxCalls \in Nat /\ MaxFailures \in Nat

VARIABLES
  handles,     \* times the device appeared so far: 1..handles
  present,     \* the handle that is plugged in, or NoDevice
  initReset,   \* the parameter initial_reset
  doReset,     \* _initial_reset
  device,      \* _device
  node,        \* handle of _realSenseNode
  alive,       \* _is_alive
  query,       \* _query_thread: "none" when it is not joinable, "done" at its end
  pc,          \* the other threads, "ros" and "cb": "idle", or where they are in reset
  timer,       \* _init_timer is to fire
  served,      \* the services are advertised
  registered,  \* a callback was given to librealsense
  gone,        \* removals that it will report
  unseen,      \* history: handles removed before it would report them
  crash,       \* what ended the process, or "none"
  calls, failures

bus     == <<handles, present>>
reports == <<gone, unseen>>
params  == <<initReset>>
shared  == <<device, node, alive, timer>>
counts  == <<calls, failures>>
vars    == <<bus, reports, params, doReset, shared, query, pc, served, registered, crash, counts>>

NoDevice == 0
Handles  == 1..MaxHandles
Threads  == {"ros", "cb"}

Init ==
  /\ handles = 0 /\ present = NoDevice /\ initReset \in BOOLEAN /\ doReset = FALSE
  /\ device = NoDevice /\ node = NoDevice /\ alive = FALSE
  /\ query = "none" /\ pc = [t \in Threads |-> "idle"] /\ timer = TRUE
  /\ served = FALSE /\ registered = FALSE /\ gone = <<>> /\ unseen = {}
  /\ crash = "none" /\ calls = 0 /\ failures = 0

Crashes(why) == /\ crash' = why
                /\ UNCHANGED <<bus, reports, params, doReset, shared, query, pc, served, registered, counts>>

----------------------------------------------------------------------------
\* The device.

Removed == /\ present' = NoDevice /\ UNCHANGED handles
           /\ IF registered THEN gone' = Append(gone, present) /\ UNCHANGED unseen
                            ELSE unseen' = unseen \cup {present} /\ UNCHANGED gone

Appears ==
  /\ present = NoDevice /\ handles < MaxHandles
  /\ handles' = handles + 1 /\ present' = handles'
  /\ UNCHANGED <<reports, params, doReset, shared, query, pc, served, registered, crash, counts>>
Unplugged ==
  /\ present # NoDevice /\ Removed
  /\ UNCHANGED <<params, doReset, shared, query, pc, served, registered, crash, counts>>

----------------------------------------------------------------------------
\* initialize, in the ROS thread.  Assigning to a thread that is joinable ends
\* the process.

initialize_Stale ==   \* mutant: _device is not cleared
  /\ timer /\ pc["ros"] = "idle"
  /\ IF query # "none" THEN Crashes("terminate")
     ELSE /\ timer' = FALSE /\ alive' = TRUE /\ query' = "loop"
          /\ doReset' = initReset /\ served' = TRUE
          /\ UNCHANGED <<bus, reports, params, device, node, pc, registered, crash, counts>>
initialize ==
  /\ timer /\ pc["ros"] = "idle"
  /\ IF query # "none" THEN Crashes("terminate")
     ELSE /\ timer' = FALSE /\ device' = NoDevice /\ alive' = TRUE /\ query' = "loop"
          /\ doReset' = initReset /\ served' = TRUE
          /\ UNCHANGED <<bus, reports, params, node, pc, registered, crash, counts>>

----------------------------------------------------------------------------
\* The query thread.

Queries(from, to) == query = from /\ query' = to

\* The loop condition and getDevice.
GetDevice ==
  /\ \/ /\ Queries("loop", "done") /\ (~alive \/ device # NoDevice)
        /\ UNCHANGED device
     \/ /\ Queries("loop", "loop") /\ alive /\ device = NoDevice   \* sleeps, then again
        /\ present = NoDevice /\ UNCHANGED device
     \/ /\ Queries("loop", IF doReset THEN "reset" ELSE "got") /\ alive /\ device = NoDevice
        /\ present # NoDevice /\ device' = present
  /\ UNCHANGED <<bus, reports, params, doReset, node, alive, timer, pc, served, registered, crash, counts>>
InitialReset ==
  /\ query = "reset" /\ doReset' = FALSE
  /\ IF device = present /\ present # NoDevice
     THEN Removed /\ query' = "cleared"
     ELSE UNCHANGED <<bus, reports>> /\ query' = "got"   \* it throws
  /\ UNCHANGED <<params, shared, pc, served, registered, crash, counts>>
InitialCleared ==
  /\ Queries("cleared", "loop") /\ device' = NoDevice
  /\ UNCHANGED <<bus, reports, params, doReset, node, alive, timer, pc, served, registered, crash, counts>>
Registers ==
  /\ Queries("got", "start") /\ registered' = TRUE
  /\ UNCHANGED <<bus, reports, params, doReset, shared, pc, served, crash, counts>>
\* The old node is dropped and a new one built on _device.  An rs2::error on the way
\* leaves the factory without a node.  The constructor does not ask the device
\* anything, so that the node may be built on one that is gone.
StartDevice ==
  /\ query = "start"
  /\ \/ device # NoDevice /\ node' = device /\ query' = "topics" /\ UNCHANGED failures
     \/ /\ node' = NoDevice /\ query' = "loop"
        /\ IF device # NoDevice THEN failures < MaxFailures /\ failures' = failures + 1
                                ELSE UNCHANGED failures
  /\ UNCHANGED <<bus, reports, params, doReset, device, alive, timer, pc, served, registered, crash, calls>>
\* It starts the sensors.  An rs2::error, as of a device that is gone, is caught and
\* logged: the node stays and the loop ends, whether it returns or throws.
publishTopics ==
  /\ Queries("topics", "loop")
  /\ UNCHANGED <<bus, reports, params, doReset, shared, pc, served, registered, crash, counts>>

----------------------------------------------------------------------------
\* reset, in the thread t.

At(t, l)   == pc[t] = l
Goes(t, l) == pc' = [pc EXCEPT ![t] = l]
Other(t)   == IF t = "ros" THEN "cb" ELSE "ros"

StopsQuery(t) ==
  /\ At(t, "reset") /\ alive' = FALSE
  /\ Goes(t, IF query = "none" THEN "drop" ELSE "join")
  /\ UNCHANGED <<bus, reports, params, doReset, device, node, timer, query, served, registered, crash, counts>>
JoinsQuery(t) ==
  /\ At(t, "join")
  /\ \/ /\ query = "done" /\ query' = "none" /\ Goes(t, "drop")
        /\ UNCHANGED <<bus, reports, params, doReset, shared, served, registered, crash, counts>>
     \/ query = "none" /\ Crashes("double_join")
DropsNode_Later(t) ==   \* mutant: StartDevice will drop it
  /\ At(t, "drop") /\ Goes(t, "hardware")
  /\ UNCHANGED <<bus, reports, params, doReset, shared, query, served, registered, crash, counts>>
DropsNode(t) ==
  /\ At(t, "drop")
  /\ \/ /\ node' = NoDevice /\ Goes(t, "hardware")
        /\ UNCHANGED <<bus, reports, params, doReset, device, alive, timer, query, served, registered, crash, counts>>
     \/ At(Other(t), "drop") /\ Crashes("data_race")
ResetsHardware_Blind(t) ==   \* mutant: without a look at _device
  /\ At(t, "hardware") /\ Removed /\ Goes(t, "clear")
  /\ UNCHANGED <<params, doReset, shared, query, served, registered, crash, counts>>
\* hardware_reset throws when the device is gone, and _device stays as it is.
ResetsHardware(t) ==
  /\ At(t, "hardware")
  /\ IF device # NoDevice /\ device = present
     THEN Removed /\ Goes(t, "clear")
     ELSE UNCHANGED <<bus, reports>> /\ Goes(t, "timer")
  /\ UNCHANGED <<params, doReset, shared, query, served, registered, crash, counts>>
ClearsDevice(t) ==
  /\ At(t, "clear") /\ device' = NoDevice /\ Goes(t, "timer")
  /\ UNCHANGED <<bus, reports, params, doReset, node, alive, timer, query, served, registered, crash, counts>>
SetsTimer_WithDevice(t) ==   \* mutant: the timer is part of the branch with a device
  /\ At(t, "timer") /\ timer' = (timer \/ device # NoDevice) /\ Goes(t, "idle")
  /\ UNCHANGED <<bus, reports, params, doReset, device, node, alive, query, served, registered, crash, counts>>
SetsTimer(t) ==
  /\ At(t, "timer") /\ timer' = TRUE /\ Goes(t, "idle")
  /\ UNCHANGED <<bus, reports, params, doReset, device, node, alive, query, served, registered, crash, counts>>

Resets(t) == \/ StopsQuery(t) \/ JoinsQuery(t) \/ DropsNode(t)
             \/ ResetsHardware(t) \/ ClearsDevice(t) \/ SetsTimer(t)

change_device_callback ==
  /\ At("cb", "idle") /\ gone # <<>> /\ gone' = Tail(gone)
  /\ IF Head(gone) = device THEN Goes("cb", "reset") ELSE UNCHANGED pc
  /\ UNCHANGED <<bus, unseen, params, doReset, shared, query, served, registered, crash, counts>>

\* The services, once initialize has advertised them.
Called == At("ros", "idle") /\ served /\ calls < MaxCalls
handleReset ==
  /\ Called /\ calls' = calls + 1 /\ Goes("ros", "reset")
  /\ UNCHANGED <<bus, reports, params, doReset, shared, query, served, registered, crash, failures>>
toggle_sensor_callback ==
  /\ Called
  /\ IF node = NoDevice THEN Crashes("null_node")
     ELSE /\ calls' = calls + 1
          /\ UNCHANGED <<bus, reports, params, doReset, shared, query, pc, served, registered, crash, failures>>

RosThread   == crash = "none" /\ (initialize \/ Resets("ros"))
Callback    == crash = "none" /\ (change_device_callback \/ Resets("cb"))
QueryThread == crash = "none" /\ (GetDevice \/ InitialReset \/ InitialCleared \/ Registers \/ StartDevice
                                   \/ publishTopics)
Services    == crash = "none" /\ (handleReset \/ toggle_sensor_callback)
Device      == crash = "none" /\ (Appears \/ Unplugged)

Next == RosThread \/ Callback \/ QueryThread \/ Services \/ Device

Spec == Init /\ [][Next]_vars

\* Threads are scheduled, timers fire, removals are reported.
FairSpec == Spec /\ WF_vars(RosThread) /\ WF_vars(Callback) /\ WF_vars(QueryThread)

----------------------------------------------------------------------------
TypeOK ==
  /\ handles \in 0..MaxHandles /\ present \in {NoDevice, handles}
  /\ initReset \in BOOLEAN /\ doReset \in BOOLEAN
  /\ device \in 0..handles /\ node \in 0..handles /\ alive \in BOOLEAN
  /\ query \in {"none", "loop", "reset", "cleared", "got", "start", "topics", "done"}
  /\ pc \in [Threads -> {"idle", "reset", "join", "drop", "hardware", "clear", "timer"}]
  /\ timer \in BOOLEAN /\ served \in BOOLEAN /\ registered \in BOOLEAN
  /\ gone \in Seq(Handles) /\ unseen \subseteq Handles
  /\ crash \in {"none", "terminate", "double_join", "data_race", "null_node"}
  /\ calls \in 0..MaxCalls /\ failures \in 0..MaxFailures

\* A node does not stay on a device that was unplugged: the removal is still to
\* be reported, or a reset that will drop the node has begun, or initialize is to
\* run next, when the node was built between two resets that overlapped.  The one
\* exception is a device that was removed before any callback was registered.
InReset(t) == pc[t] \in {"reset", "join", "drop"}
NodeIsDropped ==
  crash = "none" /\ node \notin unseen \cup {NoDevice, present} =>
     Contains(gone, node) \/ timer \/ \E t \in Threads : InReset(t)

\* Whatever resets meet, the factory does not end up without a device and
\* without anything that will look for one.
SomeoneLooks ==
  crash = "none" /\ device = NoDevice =>
     timer \/ query \notin {"none", "done"} \/ \E t \in Threads : pc[t] # "idle"

NeverForgotten == NodeIsDropped /\ SomeoneLooks

\* A device that stays plugged in is taken in the end, unless the process ended
\* or the removal of the one before fell between getDevice and the
\* registration of the callback.
DeviceTaken ==
  <>[](present # NoDevice) => <>[](device = present \/ device \in unseen \/ crash # "none")

\* "When the driver cannot connect to the device try to reconnect after this
\* timeout" (realsense-ros/README.md:165): the same without the exception.
Reconnects ==
  <>[](present # NoDevice) => <>[](device = present \/ crash # "none")
=============================================================================
