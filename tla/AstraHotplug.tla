--------------------------- MODULE AstraHotplug ---------------------------
(***************************************************************************)
(* Devices and processes of the Astra driver: OBCameraNodeFactory and its  *)
(* Context (ob_camera_node_factory.cpp, ob_context.cpp).  Each process     *)
(* looks for the device with its serial number.  Opening a device to read  *)
(* its serial number keeps others from opening it, so a mutex in shared    *)
(* memory lets one process at a time try.                                  *)
(*                                                                         *)
(* A process has a thread that queries and connects devices, and OpenNI's  *)
(* thread that reports devices that come and go; device_lock_ is between   *)
(* the two.  A device that is plugged in again has a new URI.              *)
(***************************************************************************)
EXTENDS Integers, Sequences, SequencesExt

CONSTANTS Procs, Serials,
          AnySerial,     \* the parameter serial_number is empty
          Wants,         \* bound: values of the parameter that are looked at
          None,
          MaxPlugs,      \* bound: times a device is plugged in
          MaxCrashes,    \* bound: processes that end, by a crash or not
          MaxFailures    \* bound: devices that cannot be opened or started

ASSUME HotplugAssumption ==
  /\ AnySerial \notin Serials /\ Wants \subseteq Serials \cup {AnySerial}
  /\ None \notin Procs \cup (1..MaxPlugs)
  /\ MaxPlugs \in Nat /\ MaxCrashes \in Nat /\ MaxFailures \in Nat

VARIABLES
  serial,   \* serial numbers of the devices plugged in so far; their URIs are 1, 2 ...
  plugged,  \* the URIs that are plugged in
  claim,    \* process that has the device open
  locked,   \* the mutex in shared memory
  want,     \* serial_number_
  pc,       \* query thread: "down", "query", "try", "enter" or "start"
  list,     \*   devices of this query left to try
  known,    \* Context: device_info_list_
  notes,    \* Context: devices reported to have gone, or to have come (see Plug)
  device,   \* device_
  node,     \* device of ob_camera_node_; device_uri_, device_connected_
  crashes, failures

bus    == <<serial, plugged>>
owned  == <<device, node>>
counts == <<crashes, failures>>
vars   == <<bus, claim, locked, want, pc, list, known, notes, owned, counts>>

URIs      == 1..MaxPlugs
Up(p)     == pc[p] # "down"
Came(u)   == [kind |-> "came", uri |-> u]
Gone(u)   == [kind |-> "gone", uri |-> u]
Tell(n)   == notes' = [p \in Procs |-> IF Up(p) THEN Append(notes[p], n) ELSE notes[p]]

Init ==
  /\ serial = <<>> /\ plugged = {} /\ claim = [u \in URIs |-> None] /\ locked = FALSE
  /\ want \in [Procs -> Wants]
  /\ pc = [p \in Procs |-> "down"] /\ list = [p \in Procs |-> {}]
  /\ known = [p \in Procs |-> {}] /\ notes = [p \in Procs |-> <<>>]
  /\ device = [p \in Procs |-> None] /\ node = [p \in Procs |-> None]
  /\ crashes = 0 /\ failures = 0

----------------------------------------------------------------------------
\* The bus.

Plug(s) ==
  LET u == Len(serial) + 1
  IN  /\ u \in URIs /\ \A v \in plugged : serial[v] # s
      /\ serial' = Append(serial, s) /\ plugged' = plugged \cup {u} /\ Tell(Came(u))
      /\ UNCHANGED <<claim, locked, want, pc, list, known, owned, counts>>

Unplug(u) ==
  /\ u \in plugged
  /\ plugged' = plugged \ {u} /\ claim' = [claim EXCEPT ![u] = None] /\ Tell(Gone(u))
  /\ UNCHANGED <<serial, locked, want, pc, list, known, owned, counts>>

----------------------------------------------------------------------------
\* The query thread.

\* init: the mutex is initialised, also when a process is holding it.  The first
\* query enumerates the devices.
Start_Once(p) ==   \* mutant: the mutex is left as it was found
  /\ pc[p] = "down" /\ pc' = [pc EXCEPT ![p] = "query"]
  /\ known' = [known EXCEPT ![p] = plugged]
  /\ UNCHANGED <<bus, claim, locked, want, list, notes, owned, counts>>
Start(p) ==
  /\ pc[p] = "down" /\ pc' = [pc EXCEPT ![p] = "query"]
  /\ locked' = FALSE
  /\ known' = [known EXCEPT ![p] = plugged]
  /\ UNCHANGED <<bus, claim, want, list, notes, owned, counts>>

queryDevice_Null(p) ==   \* mutant: the list may hold a device without a URI
  /\ pc[p] = "query" /\ node[p] = None
  /\ pc' = [pc EXCEPT ![p] = "try"] /\ list' = [list EXCEPT ![p] = known[p] \cup {None}]
  /\ UNCHANGED <<bus, claim, locked, want, known, notes, owned, counts>>
queryDevice(p) ==
  /\ pc[p] = "query" /\ node[p] = None
  /\ pc' = [pc EXCEPT ![p] = "try"] /\ list' = [list EXCEPT ![p] = known[p]]
  /\ UNCHANGED <<bus, claim, locked, want, known, notes, owned, counts>>
QueryDone(p) ==
  /\ pc[p] = "try" /\ list[p] = {} /\ pc' = [pc EXCEPT ![p] = "query"]
  /\ UNCHANGED <<bus, claim, locked, want, list, known, notes, owned, counts>>

\* onDeviceConnected: pthread_mutex_trylock.  The device it is about is the
\* first of the list until the call is over.
Next1(p) == CHOOSE u \in list[p] : \A v \in list[p] : u <= v
Done(p)  == list' = [list EXCEPT ![p] = @ \ {Next1(p)}]
Locks(p) ==
  /\ pc[p] = "try" /\ list[p] # {} /\ ~locked
  /\ locked' = TRUE /\ pc' = [pc EXCEPT ![p] = "enter"]
  /\ UNCHANGED <<bus, claim, want, list, known, notes, owned, counts>>
FindsLocked(p) ==
  /\ pc[p] = "try" /\ list[p] # {} /\ locked
  /\ Done(p)
  /\ UNCHANGED <<bus, claim, locked, want, pc, known, notes, owned, counts>>

\* The device is opened and its serial number read, with device_lock_.  It is
\* closed again, and the mutex released, unless the number is the right one.
CanOpen(p, u) == u \in plugged /\ claim[u] \in {p, None}
Fails == failures < MaxFailures /\ failures' = failures + 1
Opens(p) ==
  LET u == Next1(p)
  IN  /\ pc[p] = "enter" /\ CanOpen(p, u) /\ want[p] \in {AnySerial, serial[u]}
      /\ claim' = [claim EXCEPT ![u] = p] /\ pc' = [pc EXCEPT ![p] = "start"]
      /\ UNCHANGED <<bus, locked, want, list, known, notes, owned, counts>>
OpensNot(p) ==
  LET u == Next1(p)
  IN  /\ pc[p] = "enter"
      /\ IF CanOpen(p, u) /\ want[p] \in {AnySerial, serial[u]} THEN Fails ELSE UNCHANGED failures
      /\ locked' = FALSE /\ pc' = [pc EXCEPT ![p] = "try"] /\ Done(p)
      /\ UNCHANGED <<bus, claim, want, known, notes, owned, crashes>>

\* startDevice, still with both locks: the node that runs makes way to the new
\* one, whose constructor may throw; then device_ keeps the device open.
Release(p, u) == [v \in URIs |-> IF claim[v] = p /\ v # u THEN None ELSE claim[v]]
startDevice(p) ==
  LET u == Next1(p)
  IN  /\ pc[p] = "start"
      /\ device' = [device EXCEPT ![p] = u] /\ claim' = Release(p, u)
      /\ \/ node' = [node EXCEPT ![p] = u] /\ UNCHANGED failures
         \/ /\ IF u \in plugged THEN Fails ELSE UNCHANGED failures
            /\ node' = [node EXCEPT ![p] = None]
      /\ locked' = FALSE /\ pc' = [pc EXCEPT ![p] = "try"] /\ Done(p)
      /\ UNCHANGED <<bus, want, known, notes, crashes>>

----------------------------------------------------------------------------
\* OpenNI's thread: Context::onDeviceConnected and onDeviceDisconnected, which
\* calls the factory's onDeviceDisconnected, with device_lock_.

DeviceLockFree_Ignored(p) == Up(p)   \* mutant: no lock is taken
DeviceLockFree(p) == pc[p] \notin {"down", "start"}

onDeviceConnected(p) ==
  /\ Up(p) /\ notes[p] # <<>> /\ Head(notes[p]).kind = "came"
  /\ known' = [known EXCEPT ![p] = @ \cup {Head(notes[p]).uri}]
  /\ notes' = [notes EXCEPT ![p] = Tail(@)]
  /\ UNCHANGED <<bus, claim, locked, want, pc, list, owned, counts>>

onDeviceDisconnected(p) ==
  /\ notes[p] # <<>> /\ Head(notes[p]).kind = "gone" /\ DeviceLockFree(p)
  /\ LET u == Head(notes[p]).uri
     IN  /\ known' = [known EXCEPT ![p] = @ \ {u}]
         /\ IF node[p] = u THEN /\ node' = [node EXCEPT ![p] = None]
                                /\ device' = [device EXCEPT ![p] = None]
            ELSE UNCHANGED owned
  /\ notes' = [notes EXCEPT ![p] = Tail(@)]
  /\ UNCHANGED <<bus, claim, locked, want, pc, list, counts>>

\* The process ends anywhere; the kernel closes its devices, but the mutex stays
\* as it is.
Crash(p) ==
  /\ Up(p) /\ crashes < MaxCrashes /\ crashes' = crashes + 1
  /\ pc' = [pc EXCEPT ![p] = "down"] /\ list' = [list EXCEPT ![p] = {}]
  /\ known' = [known EXCEPT ![p] = {}] /\ notes' = [notes EXCEPT ![p] = <<>>]
  /\ device' = [device EXCEPT ![p] = None] /\ node' = [node EXCEPT ![p] = None]
  /\ claim' = [u \in URIs |-> IF claim[u] = p THEN None ELSE claim[u]]
  /\ UNCHANGED <<bus, locked, want, failures>>

Querying(p) == \/ queryDevice(p) \/ QueryDone(p) \/ Locks(p) \/ FindsLocked(p)
               \/ Opens(p) \/ OpensNot(p) \/ startDevice(p)
Reports(p)  == onDeviceConnected(p) \/ onDeviceDisconnected(p)

Next ==
  \/ \E s \in Serials : Plug(s)
  \/ \E u \in URIs : Unplug(u)
  \/ \E p \in Procs : Start(p) \/ Querying(p) \/ Reports(p) \/ Crash(p)

Spec == Init /\ [][Next]_vars

\* Threads are scheduled, and a process that ended is started again.
FairSpec == /\ Spec
            /\ \A p \in Procs : /\ WF_vars(Start(p)) /\ WF_vars(Querying(p))
                                /\ WF_vars(Reports(p))

----------------------------------------------------------------------------
TypeOK ==
  /\ serial \in Seq(Serials) /\ Len(serial) <= MaxPlugs /\ plugged \subseteq 1..Len(serial)
  /\ claim \in [URIs -> Procs \cup {None}] /\ locked \in BOOLEAN
  /\ want \in [Procs -> Wants]
  /\ pc \in [Procs -> {"down", "query", "try", "enter", "start"}]
  /\ list \in [Procs -> SUBSET URIs] /\ known \in [Procs -> SUBSET URIs]
  /\ notes \in [Procs -> Seq([kind : {"came", "gone"}, uri : URIs])]
  /\ device \in [Procs -> URIs \cup {None}] /\ node \in [Procs -> URIs \cup {None}]
  /\ crashes \in 0..MaxCrashes /\ failures \in 0..MaxFailures

\* A node runs on a device that its process wants and has open, and no node
\* outlives its device: when the device is gone, its going is still to be
\* reported, although the device may go while the node is being started.
NodeOnOwnDevice ==
  \A p \in Procs : node[p] # None =>
     LET u == node[p]
     IN  /\ device[p] = u /\ want[p] \in {AnySerial, serial[u]}
         /\ IF u \in plugged THEN claim[u] = p ELSE Contains(notes[p], Gone(u))

\* The mutex does not stay locked for ever, although a process may end inside
\* the critical section: the one that starts again initialises the mutex.
MutexReleased == locked ~> ~locked
=============================================================================
