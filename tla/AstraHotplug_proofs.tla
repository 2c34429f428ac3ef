------------------------ MODULE AstraHotplug_proofs ------------------------
(***************************************************************************)
(* A node of the Astra driver runs on a device that its process wants and  *)
(* has open, whatever is plugged and unplugged and whichever processes     *)
(* end, for any number of them: theorems about AstraHotplug.               *)
(***************************************************************************)
EXTENDS AstraHotplug, TLAPS

-----------------------------------------------------------------------------
\* The type invariant in parts, which are proved apart.

Bus ==
  /\ serial \in Seq(Serials) /\ Len(serial) <= MaxPlugs /\ plugged \subseteq 1..Len(serial)
  /\ want \in [Procs -> Wants]
Mutex == locked \in BOOLEAN
Claims ==
  /\ claim \in [URIs -> Procs \cup {None}]
  /\ device \in [Procs -> URIs \cup {None}] /\ node \in [Procs -> URIs \cup {None}]
Threads ==
  /\ pc \in [Procs -> {"down", "query", "try", "enter", "start"}]
  /\ list \in [Procs -> SUBSET URIs] /\ known \in [Procs -> SUBSET URIs]
\* What OpenNI reports.
Report   == [kind : {"came", "gone"}, uri : URIs]
Reported == notes \in [Procs -> Seq(Report)]
Bounds   == crashes \in 0..MaxCrashes /\ failures \in 0..MaxFailures

LEMMA TypeParts == TypeOK <=> Bus /\ Mutex /\ Claims /\ Threads /\ Reported /\ Bounds
  BY DEF TypeOK, Bus, Mutex, Claims, Threads, Report, Reported, Bounds

-----------------------------------------------------------------------------
\* The inductive invariant.

\* The process p may use the device u: it wants it, and has it open or is still to
\* be told that it is gone.
Own(p, u) ==
  /\ u \in 1..Len(serial) /\ want[p] \in {AnySerial, serial[u]}
  /\ IF u \in plugged THEN claim[u] = p ELSE Contains(notes[p], Gone(u))

\* The device that is being started is the process's own, although it may go
\* meanwhile: its going cannot be handled before the start is over.
Starting(p) == pc[p] = "start" => Own(p, Next1(p))

\* A node runs in a process that is up, on its own device.
Running(p) == node[p] # None => Up(p) /\ device[p] = node[p] /\ Own(p, node[p])

HotplugIInv == \A p \in Procs : Starting(p) /\ Running(p)

-----------------------------------------------------------------------------
\* Sequences of reports.

LEMMA AppendContains ==
  ASSUME NEW S, NEW s \in Seq(S), NEW x \in S
  PROVE  /\ Append(s, x) \in Seq(S)
         /\ Contains(Append(s, x), x)
         /\ \A y : Contains(s, y) => Contains(Append(s, x), y)
  <1>1. Append(s, x) \in Seq(S) /\ Len(Append(s, x)) = Len(s) + 1
    OBVIOUS
  <1>2. Append(s, x)[Len(s) + 1] = x /\ \A i \in 1..Len(s) : Append(s, x)[i] = s[i]
    OBVIOUS
  <1>3. QED
    BY <1>1, <1>2 DEF Contains

LEMMA TailContains ==
  ASSUME NEW S, NEW s \in Seq(S), s # <<>>
  PROVE  /\ Head(s) \in S /\ Tail(s) \in Seq(S)
         /\ \A y : Contains(s, y) /\ y # Head(s) => Contains(Tail(s), y)
  <1>1. Head(s) \in S /\ Tail(s) \in Seq(S) /\ Head(s) = s[1]
    OBVIOUS
  <1>2. Len(Tail(s)) = Len(s) - 1 /\ \A i \in 1..(Len(s) - 1) : Tail(s)[i] = s[i + 1]
    OBVIOUS
  <1>3. ASSUME NEW y, Contains(s, y), y # Head(s) PROVE Contains(Tail(s), y)
    <2>1. PICK i \in 1..Len(s) : s[i] = y
      BY <1>3 DEF Contains
    <2>2. i - 1 \in 1..(Len(s) - 1)
      BY <2>1, <1>1, <1>3
    <2>3. Tail(s)[i - 1] = y
      BY <2>1, <2>2, <1>2
    <2>4. QED
      BY <2>2, <2>3, <1>2 DEF Contains
  <1>4. QED
    BY <1>1, <1>3

\* What OpenNI tells reaches the processes that are up, and nothing is lost.
LEMMA TellKeeps ==
  ASSUME Reported, NEW n \in Report, Tell(n)
  PROVE  /\ Reported'
         /\ \A p \in Procs : /\ Up(p) => Contains(notes'[p], n)
                            /\ \A y : Contains(notes[p], y) => Contains(notes'[p], y)
  <1>1. ASSUME NEW p \in Procs, Up(p)
        PROVE  /\ notes'[p] \in Seq(Report)
               /\ Contains(notes'[p], n)
               /\ \A y : Contains(notes[p], y) => Contains(notes'[p], y)
    <2>1. notes'[p] = Append(notes[p], n)
      BY <1>1 DEF Tell
    <2>2. notes[p] \in Seq(Report)
      BY DEF Reported
    <2>3. /\ Append(notes[p], n) \in Seq(Report) /\ Contains(Append(notes[p], n), n)
          /\ \A y : Contains(notes[p], y) => Contains(Append(notes[p], n), y)
      BY <2>2, AppendContains
    <2>4. QED
      BY <2>1, <2>3
  <1>2. ASSUME NEW p \in Procs, ~Up(p) PROVE notes'[p] = notes[p]
    BY <1>2 DEF Tell
  <1>3. notes' = [p \in Procs |-> notes'[p]]
    BY DEF Tell
  <1>4. \A p \in Procs : notes'[p] \in Seq(Report)
    BY <1>1, <1>2 DEF Reported
  <1>5. Reported'
    BY <1>3, <1>4 DEF Reported
  <1>6. QED
    BY <1>1, <1>2, <1>5

-----------------------------------------------------------------------------
\* The steps, with the processes that take them.

LEMMA Steps ==
  ASSUME [Next]_vars
  PROVE  \/ \E s \in Serials : Plug(s)
         \/ \E u \in URIs : Unplug(u)
         \/ \E p \in Procs :
              \/ Start(p) \/ queryDevice(p) \/ QueryDone(p) \/ Locks(p) \/ FindsLocked(p)
              \/ Opens(p) \/ OpensNot(p) \/ startDevice(p)
              \/ onDeviceConnected(p) \/ onDeviceDisconnected(p) \/ Crash(p)
         \/ UNCHANGED vars
  BY DEF Next, Querying, Reports

LEMMA BusStep ==
  ASSUME Bus, [Next]_vars
  PROVE  Bus'
  <1> USE DEF bus, owned, counts, Bus
  <1>1. ASSUME NEW s \in Serials, Plug(s) PROVE Bus'
    <2>1. /\ Append(serial, s) \in Seq(Serials) /\ Len(Append(serial, s)) = Len(serial) + 1
          /\ Len(serial) \in Nat
      BY DEF Bus
    <2>2. /\ serial' = Append(serial, s) /\ plugged' = plugged \cup {Len(serial) + 1}
          /\ want' = want /\ Len(serial) + 1 \in 1..MaxPlugs
      BY <1>1 DEF Plug, URIs
    <2>3. serial' \in Seq(Serials) /\ Len(serial') = Len(serial) + 1
      BY <2>1, <2>2
    <2>4. plugged' \subseteq 1..(Len(serial) + 1)
      <3>1. \A v \in 1..Len(serial) : v \in 1..(Len(serial) + 1)
        BY <2>1
      <3>2. Len(serial) + 1 \in 1..(Len(serial) + 1)
        BY <2>1
      <3>3. plugged \subseteq 1..Len(serial)
        BY DEF Bus
      <3>4. QED
        BY <2>2, <3>1, <3>2, <3>3
    <2>5. Len(serial') <= MaxPlugs
      BY HotplugAssumption, <2>1, <2>2, <2>3
    <2>6. want' \in [Procs -> Wants]
      BY <2>2
    <2>7. QED
      BY <2>3, <2>4, <2>5, <2>6
  <1>2. ASSUME NEW u \in URIs, Unplug(u) PROVE Bus'
    BY <1>2 DEF Unplug
  <1>3. ASSUME NEW p \in Procs, Start(p) PROVE Bus'
    BY <1>3 DEF Start
  <1>4. ASSUME NEW p \in Procs, queryDevice(p) PROVE Bus'
    BY <1>4 DEF queryDevice
  <1>5. ASSUME NEW p \in Procs, QueryDone(p) PROVE Bus'
    BY <1>5 DEF QueryDone
  <1>6. ASSUME NEW p \in Procs, Locks(p) PROVE Bus'
    BY <1>6 DEF Locks
  <1>7. ASSUME NEW p \in Procs, FindsLocked(p) PROVE Bus'
    BY <1>7 DEF FindsLocked
  <1>8. ASSUME NEW p \in Procs, Opens(p) PROVE Bus'
    BY <1>8 DEF Opens
  <1>9. ASSUME NEW p \in Procs, OpensNot(p) PROVE Bus'
    BY <1>9 DEF OpensNot
  <1>10. ASSUME NEW p \in Procs, startDevice(p) PROVE Bus'
    BY <1>10 DEF startDevice
  <1>11. ASSUME NEW p \in Procs, onDeviceConnected(p) PROVE Bus'
    BY <1>11 DEF onDeviceConnected
  <1>12. ASSUME NEW p \in Procs, onDeviceDisconnected(p) PROVE Bus'
    BY <1>12 DEF onDeviceDisconnected
  <1>13. ASSUME NEW p \in Procs, Crash(p) PROVE Bus'
    BY <1>13 DEF Crash
  <1>14. CASE UNCHANGED vars
    BY <1>14 DEF vars
  <1>15. QED
    BY <1>1, <1>2, <1>3, <1>4, <1>5, <1>6, <1>7, <1>8,
       <1>9, <1>10, <1>11, <1>12, <1>13, <1>14, Steps

LEMMA MutexStep ==
  ASSUME Mutex, [Next]_vars
  PROVE  Mutex'
  <1> USE DEF bus, owned, counts, Mutex
  <1>1. ASSUME NEW s \in Serials, Plug(s) PROVE Mutex'
    BY <1>1 DEF Plug
  <1>2. ASSUME NEW u \in URIs, Unplug(u) PROVE Mutex'
    BY <1>2 DEF Unplug
  <1>3. ASSUME NEW p \in Procs, Start(p) PROVE Mutex'
    BY <1>3 DEF Start
  <1>4. ASSUME NEW p \in Procs, queryDevice(p) PROVE Mutex'
    BY <1>4 DEF queryDevice
  <1>5. ASSUME NEW p \in Procs, QueryDone(p) PROVE Mutex'
    BY <1>5 DEF QueryDone
  <1>6. ASSUME NEW p \in Procs, Locks(p) PROVE Mutex'
    BY <1>6 DEF Locks
  <1>7. ASSUME NEW p \in Procs, FindsLocked(p) PROVE Mutex'
    BY <1>7 DEF FindsLocked
  <1>8. ASSUME NEW p \in Procs, Opens(p) PROVE Mutex'
    BY <1>8 DEF Opens
  <1>9. ASSUME NEW p \in Procs, OpensNot(p) PROVE Mutex'
    BY <1>9 DEF OpensNot
  <1>10. ASSUME NEW p \in Procs, startDevice(p) PROVE Mutex'
    BY <1>10 DEF startDevice
  <1>11. ASSUME NEW p \in Procs, onDeviceConnected(p) PROVE Mutex'
    BY <1>11 DEF onDeviceConnected
  <1>12. ASSUME NEW p \in Procs, onDeviceDisconnected(p) PROVE Mutex'
    BY <1>12 DEF onDeviceDisconnected
  <1>13. ASSUME NEW p \in Procs, Crash(p) PROVE Mutex'
    BY <1>13 DEF Crash
  <1>14. CASE UNCHANGED vars
    BY <1>14 DEF vars
  <1>15. QED
    BY <1>1, <1>2, <1>3, <1>4, <1>5, <1>6, <1>7, <1>8,
       <1>9, <1>10, <1>11, <1>12, <1>13, <1>14, Steps

LEMMA ClaimsStep ==
  ASSUME Bus, Claims, \A p \in Procs : Starting(p), [Next]_vars
  PROVE  Claims'
  <1> USE DEF bus, owned, counts, Claims
  <1>1. ASSUME NEW s \in Serials, Plug(s) PROVE Claims'
    BY <1>1 DEF Plug
  <1>2. ASSUME NEW u \in URIs, Unplug(u) PROVE Claims'
    BY <1>2 DEF Unplug
  <1>3. ASSUME NEW p \in Procs, Start(p) PROVE Claims'
    BY <1>3 DEF Start
  <1>4. ASSUME NEW p \in Procs, queryDevice(p) PROVE Claims'
    BY <1>4 DEF queryDevice
  <1>5. ASSUME NEW p \in Procs, QueryDone(p) PROVE Claims'
    BY <1>5 DEF QueryDone
  <1>6. ASSUME NEW p \in Procs, Locks(p) PROVE Claims'
    BY <1>6 DEF Locks
  <1>7. ASSUME NEW p \in Procs, FindsLocked(p) PROVE Claims'
    BY <1>7 DEF FindsLocked
  <1>8. ASSUME NEW p \in Procs, Opens(p) PROVE Claims'
    BY <1>8 DEF Opens
  <1>9. ASSUME NEW p \in Procs, OpensNot(p) PROVE Claims'
    BY <1>9 DEF OpensNot
  <1>10. ASSUME NEW p \in Procs, startDevice(p) PROVE Claims'
    <2>1. Next1(p) \in URIs
      <3>1. Own(p, Next1(p))
        BY <1>10 DEF startDevice, Starting
      <3>2. Len(serial) \in Nat /\ Len(serial) <= MaxPlugs
        BY DEF Bus
      <3>3. QED
        BY HotplugAssumption, <3>1, <3>2 DEF Own, URIs
    <2>2. claim' = Release(p, Next1(p)) /\ device' = [device EXCEPT ![p] = Next1(p)]
          /\ (node' = [node EXCEPT ![p] = Next1(p)] \/ node' = [node EXCEPT ![p] = None])
      BY <1>10 DEF startDevice
    <2>3. QED
      BY <2>1, <2>2 DEF Release
  <1>11. ASSUME NEW p \in Procs, onDeviceConnected(p) PROVE Claims'
    BY <1>11 DEF onDeviceConnected
  <1>12. ASSUME NEW p \in Procs, onDeviceDisconnected(p) PROVE Claims'
    BY <1>12 DEF onDeviceDisconnected
  <1>13. ASSUME NEW p \in Procs, Crash(p) PROVE Claims'
    BY <1>13 DEF Crash
  <1>14. CASE UNCHANGED vars
    BY <1>14 DEF vars
  <1>15. QED
    BY <1>1, <1>2, <1>3, <1>4, <1>5, <1>6, <1>7, <1>8,
       <1>9, <1>10, <1>11, <1>12, <1>13, <1>14, Steps

LEMMA ThreadsStep ==
  ASSUME Bus, Threads, Reported, [Next]_vars
  PROVE  Threads'
  <1> USE DEF bus, owned, counts, Threads, Done
  <1>1. ASSUME NEW s \in Serials, Plug(s) PROVE Threads'
    BY <1>1 DEF Plug
  <1>2. ASSUME NEW u \in URIs, Unplug(u) PROVE Threads'
    BY <1>2 DEF Unplug
  <1>3. ASSUME NEW p \in Procs, Start(p) PROVE Threads'
    <2>1. plugged \subseteq URIs
      BY HotplugAssumption DEF Bus, URIs
    <2>2. QED
      BY <1>3, <2>1 DEF Start
  <1>4. ASSUME NEW p \in Procs, queryDevice(p) PROVE Threads'
    BY <1>4 DEF queryDevice
  <1>5. ASSUME NEW p \in Procs, QueryDone(p) PROVE Threads'
    BY <1>5 DEF QueryDone
  <1>6. ASSUME NEW p \in Procs, Locks(p) PROVE Threads'
    BY <1>6 DEF Locks
  <1>7. ASSUME NEW p \in Procs, FindsLocked(p) PROVE Threads'
    BY <1>7 DEF FindsLocked
  <1>8. ASSUME NEW p \in Procs, Opens(p) PROVE Threads'
    BY <1>8 DEF Opens
  <1>9. ASSUME NEW p \in Procs, OpensNot(p) PROVE Threads'
    BY <1>9 DEF OpensNot
  <1>10. ASSUME NEW p \in Procs, startDevice(p) PROVE Threads'
    BY <1>10 DEF startDevice
  <1>11. ASSUME NEW p \in Procs, onDeviceConnected(p) PROVE Threads'
    <2>1. Head(notes[p]).uri \in URIs
      <3>1. notes[p] \in Seq(Report) /\ notes[p] # <<>>
        BY <1>11 DEF onDeviceConnected, Reported
      <3>2. Head(notes[p]) \in Report
        BY <3>1, TailContains
      <3>3. QED
        BY <3>2 DEF Report
    <2>2. QED
      BY <1>11, <2>1 DEF onDeviceConnected
  <1>12. ASSUME NEW p \in Procs, onDeviceDisconnected(p) PROVE Threads'
    BY <1>12 DEF onDeviceDisconnected
  <1>13. ASSUME NEW p \in Procs, Crash(p) PROVE Threads'
    BY <1>13 DEF Crash
  <1>14. CASE UNCHANGED vars
    BY <1>14 DEF vars
  <1>15. QED
    BY <1>1, <1>2, <1>3, <1>4, <1>5, <1>6, <1>7, <1>8,
       <1>9, <1>10, <1>11, <1>12, <1>13, <1>14, Steps

LEMMA ReportedStep ==
  ASSUME Reported, [Next]_vars
  PROVE  Reported'
  <1> USE DEF bus, owned, counts
  <1>1. ASSUME NEW s \in Serials, Plug(s) PROVE Reported'
    <2>1. Came(Len(serial) + 1) \in Report
      BY <1>1 DEF Plug, Came, Report
    <2>2. QED
      BY <1>1, <2>1, TellKeeps DEF Plug
  <1>2. ASSUME NEW u \in URIs, Unplug(u) PROVE Reported'
    <2>1. Gone(u) \in Report
      BY <1>2 DEF Gone, Report
    <2>2. QED
      BY <1>2, <2>1, TellKeeps DEF Unplug
  <1>3. ASSUME NEW p \in Procs, Start(p) PROVE Reported'
    BY <1>3 DEF Start, Reported
  <1>4. ASSUME NEW p \in Procs, queryDevice(p) PROVE Reported'
    BY <1>4 DEF queryDevice, Reported
  <1>5. ASSUME NEW p \in Procs, QueryDone(p) PROVE Reported'
    BY <1>5 DEF QueryDone, Reported
  <1>6. ASSUME NEW p \in Procs, Locks(p) PROVE Reported'
    BY <1>6 DEF Locks, Reported
  <1>7. ASSUME NEW p \in Procs, FindsLocked(p) PROVE Reported'
    BY <1>7 DEF FindsLocked, Reported
  <1>8. ASSUME NEW p \in Procs, Opens(p) PROVE Reported'
    BY <1>8 DEF Opens, Reported
  <1>9. ASSUME NEW p \in Procs, OpensNot(p) PROVE Reported'
    BY <1>9 DEF OpensNot, Reported
  <1>10. ASSUME NEW p \in Procs, startDevice(p) PROVE Reported'
    BY <1>10 DEF startDevice, Reported
  <1>11. ASSUME NEW p \in Procs, onDeviceConnected(p) PROVE Reported'
    <2>1. Tail(notes[p]) \in Seq(Report)
      BY <1>11, TailContains DEF onDeviceConnected, Reported
    <2>2. notes' = [notes EXCEPT ![p] = Tail(@)]
      BY <1>11 DEF onDeviceConnected, Reported
    <2>3. QED
      BY <2>1, <2>2 DEF Reported
  <1>12. ASSUME NEW p \in Procs, onDeviceDisconnected(p) PROVE Reported'
    <2>1. Tail(notes[p]) \in Seq(Report)
      BY <1>12, TailContains DEF onDeviceDisconnected, Reported
    <2>2. notes' = [notes EXCEPT ![p] = Tail(@)]
      BY <1>12 DEF onDeviceDisconnected, Reported
    <2>3. QED
      BY <2>1, <2>2 DEF Reported
  <1>13. ASSUME NEW p \in Procs, Crash(p) PROVE Reported'
    <2>1. <<>> \in Seq(Report)
      OBVIOUS
    <2>2. notes' = [notes EXCEPT ![p] = <<>>]
      BY <1>13 DEF Crash
    <2>3. QED
      BY <2>1, <2>2 DEF Reported
  <1>14. CASE UNCHANGED vars
    BY <1>14 DEF vars, Reported
  <1>15. QED
    BY <1>1, <1>2, <1>3, <1>4, <1>5, <1>6, <1>7, <1>8,
       <1>9, <1>10, <1>11, <1>12, <1>13, <1>14, Steps

LEMMA BoundsStep ==
  ASSUME Bounds, [Next]_vars
  PROVE  Bounds'
  <1> USE HotplugAssumption DEF bus, owned, counts, Bounds, Fails
  <1>1. ASSUME NEW s \in Serials, Plug(s) PROVE Bounds'
    BY <1>1 DEF Plug
  <1>2. ASSUME NEW u \in URIs, Unplug(u) PROVE Bounds'
    BY <1>2 DEF Unplug
  <1>3. ASSUME NEW p \in Procs, Start(p) PROVE Bounds'
    BY <1>3 DEF Start
  <1>4. ASSUME NEW p \in Procs, queryDevice(p) PROVE Bounds'
    BY <1>4 DEF queryDevice
  <1>5. ASSUME NEW p \in Procs, QueryDone(p) PROVE Bounds'
    BY <1>5 DEF QueryDone
  <1>6. ASSUME NEW p \in Procs, Locks(p) PROVE Bounds'
    BY <1>6 DEF Locks
  <1>7. ASSUME NEW p \in Procs, FindsLocked(p) PROVE Bounds'
    BY <1>7 DEF FindsLocked
  <1>8. ASSUME NEW p \in Procs, Opens(p) PROVE Bounds'
    BY <1>8 DEF Opens
  <1>9. ASSUME NEW p \in Procs, OpensNot(p) PROVE Bounds'
    BY <1>9 DEF OpensNot
  <1>10. ASSUME NEW p \in Procs, startDevice(p) PROVE Bounds'
    BY <1>10 DEF startDevice
  <1>11. ASSUME NEW p \in Procs, onDeviceConnected(p) PROVE Bounds'
    BY <1>11 DEF onDeviceConnected
  <1>12. ASSUME NEW p \in Procs, onDeviceDisconnected(p) PROVE Bounds'
    BY <1>12 DEF onDeviceDisconnected
  <1>13. ASSUME NEW p \in Procs, Crash(p) PROVE Bounds'
    BY <1>13 DEF Crash
  <1>14. CASE UNCHANGED vars
    BY <1>14 DEF vars
  <1>15. QED
    BY <1>1, <1>2, <1>3, <1>4, <1>5, <1>6, <1>7, <1>8,
       <1>9, <1>10, <1>11, <1>12, <1>13, <1>14, Steps

-----------------------------------------------------------------------------
\* The inductive invariant is preserved, process by process.

LEMMA HotplugInit == Init => TypeOK /\ HotplugIInv
  <1> SUFFICES ASSUME Init PROVE TypeOK /\ HotplugIInv
    OBVIOUS
  <1>1. Bus /\ Mutex /\ Claims /\ Threads /\ Bounds
    <2>1. Bus
      BY HotplugAssumption DEF Init, Bus
    <2>2. Mutex
      BY DEF Init, Mutex
    <2>3. Claims /\ Threads /\ Bounds
      BY HotplugAssumption DEF Init, Claims, Threads, Bounds
    <2>4. QED
      BY <2>1, <2>2, <2>3
  <1>2. Reported
    <2>1. <<>> \in Seq(Report)
      OBVIOUS
    <2>2. QED
      BY <2>1 DEF Init, Reported
  <1>3. HotplugIInv
    BY DEF Init, HotplugIInv, Starting, Running
  <1>4. QED
    BY <1>1, <1>2, <1>3, TypeParts

\* What keeps both parts for a process that does not take the step, and for one
\* that moves between points other than "start".
LEMMA BothKept ==
  ASSUME NEW p \in Procs, Starting(p), Running(p), Threads,
         serial' = serial, plugged' = plugged, want' = want,
         \A u \in plugged : claim[u] = p => claim'[u] = p,
         \A u : Contains(notes[p], Gone(u)) => Contains(notes'[p], Gone(u)),
         node'[p] = node[p], device'[p] = device[p],
         pc[p] # "down" => pc'[p] # "down",
         pc'[p] = "start" => pc[p] = "start" /\ list'[p] = list[p]
  PROVE  Starting(p)' /\ Running(p)'
  <1>1. ASSUME NEW u, Own(p, u) PROVE Own(p, u)'
    BY <1>1 DEF Own, Gone
  <1>2. ASSUME pc'[p] = "start" PROVE Own(p, Next1(p))'
    <2>1. Own(p, Next1(p))
      BY <1>2 DEF Starting
    <2>2. Next1(p)' = Next1(p)
      BY <1>2 DEF Next1
    <2>3. QED
      BY <1>1, <2>1, <2>2 DEF Own, Gone
  <1>3. ASSUME node'[p] # None PROVE Up(p)' /\ device'[p] = node'[p] /\ Own(p, node[p])'
    BY <1>1, <1>3 DEF Running, Up
  <1>4. QED
    BY <1>2, <1>3 DEF Starting, Running, Own, Gone

\* Steps of one process that touch neither claims, reports nor nodes.

LEMMA StartKeeps ==
  ASSUME TypeOK, HotplugIInv, NEW p \in Procs, Start(p)
  PROVE  HotplugIInv'
  <1> SUFFICES ASSUME NEW q \in Procs PROVE Starting(q)' /\ Running(q)'
    BY DEF HotplugIInv
  <1> USE DEF bus, owned, counts
  <1>1. Starting(q) /\ Running(q) /\ Threads
    BY TypeParts DEF HotplugIInv
  <1>2. /\ serial' = serial /\ plugged' = plugged /\ want' = want /\ claim' = claim
        /\ notes' = notes /\ node' = node /\ device' = device
    BY DEF Start
  <1>3. /\ pc[q] # "down" => pc'[q] # "down"
        /\ pc'[q] = "start" => pc[q] = "start" /\ list'[q] = list[q]
    BY <1>1 DEF Start, Threads
  <1>4. QED
    BY <1>1, <1>2, <1>3, BothKept

LEMMA queryDeviceKeeps ==
  ASSUME TypeOK, HotplugIInv, NEW p \in Procs, queryDevice(p)
  PROVE  HotplugIInv'
  <1> SUFFICES ASSUME NEW q \in Procs PROVE Starting(q)' /\ Running(q)'
    BY DEF HotplugIInv
  <1> USE DEF bus, owned, counts
  <1>1. Starting(q) /\ Running(q) /\ Threads
    BY TypeParts DEF HotplugIInv
  <1>2. /\ serial' = serial /\ plugged' = plugged /\ want' = want /\ claim' = claim
        /\ notes' = notes /\ node' = node /\ device' = device
    BY DEF queryDevice
  <1>3. /\ pc[q] # "down" => pc'[q] # "down"
        /\ pc'[q] = "start" => pc[q] = "start" /\ list'[q] = list[q]
    BY <1>1 DEF queryDevice, Threads
  <1>4. QED
    BY <1>1, <1>2, <1>3, BothKept

LEMMA QueryDoneKeeps ==
  ASSUME TypeOK, HotplugIInv, NEW p \in Procs, QueryDone(p)
  PROVE  HotplugIInv'
  <1> SUFFICES ASSUME NEW q \in Procs PROVE Starting(q)' /\ Running(q)'
    BY DEF HotplugIInv
  <1> USE DEF bus, owned, counts
  <1>1. Starting(q) /\ Running(q) /\ Threads
    BY TypeParts DEF HotplugIInv
  <1>2. /\ serial' = serial /\ plugged' = plugged /\ want' = want /\ claim' = claim
        /\ notes' = notes /\ node' = node /\ device' = device
    BY DEF QueryDone
  <1>3. /\ pc[q] # "down" => pc'[q] # "down"
        /\ pc'[q] = "start" => pc[q] = "start" /\ list'[q] = list[q]
    BY <1>1 DEF QueryDone, Threads
  <1>4. QED
    BY <1>1, <1>2, <1>3, BothKept

LEMMA LocksKeeps ==
  ASSUME TypeOK, HotplugIInv, NEW p \in Procs, Locks(p)
  PROVE  HotplugIInv'
  <1> SUFFICES ASSUME NEW q \in Procs PROVE Starting(q)' /\ Running(q)'
    BY DEF HotplugIInv
  <1> USE DEF bus, owned, counts
  <1>1. Starting(q) /\ Running(q) /\ Threads
    BY TypeParts DEF HotplugIInv
  <1>2. /\ serial' = serial /\ plugged' = plugged /\ want' = want /\ claim' = claim
        /\ notes' = notes /\ node' = node /\ device' = device
    BY DEF Locks
  <1>3. /\ pc[q] # "down" => pc'[q] # "down"
        /\ pc'[q] = "start" => pc[q] = "start" /\ list'[q] = list[q]
    BY <1>1 DEF Locks, Threads
  <1>4. QED
    BY <1>1, <1>2, <1>3, BothKept

LEMMA FindsLockedKeeps ==
  ASSUME TypeOK, HotplugIInv, NEW p \in Procs, FindsLocked(p)
  PROVE  HotplugIInv'
  <1> SUFFICES ASSUME NEW q \in Procs PROVE Starting(q)' /\ Running(q)'
    BY DEF HotplugIInv
  <1> USE DEF bus, owned, counts
  <1>1. Starting(q) /\ Running(q) /\ Threads
    BY TypeParts DEF HotplugIInv
  <1>2. /\ serial' = serial /\ plugged' = plugged /\ want' = want /\ claim' = claim
        /\ notes' = notes /\ node' = node /\ device' = device
    BY DEF FindsLocked
  <1>3. /\ pc[q] # "down" => pc'[q] # "down"
        /\ pc'[q] = "start" => pc[q] = "start" /\ list'[q] = list[q]
    BY <1>1 DEF FindsLocked, Threads, Done
  <1>4. QED
    BY <1>1, <1>2, <1>3, BothKept

LEMMA OpensNotKeeps ==
  ASSUME TypeOK, HotplugIInv, NEW p \in Procs, OpensNot(p)
  PROVE  HotplugIInv'
  <1> SUFFICES ASSUME NEW q \in Procs PROVE Starting(q)' /\ Running(q)'
    BY DEF HotplugIInv
  <1> USE DEF bus, owned, counts
  <1>1. Starting(q) /\ Running(q) /\ Threads
    BY TypeParts DEF HotplugIInv
  <1>2. /\ serial' = serial /\ plugged' = plugged /\ want' = want /\ claim' = claim
        /\ notes' = notes /\ node' = node /\ device' = device
    BY DEF OpensNot
  <1>3. /\ pc[q] # "down" => pc'[q] # "down"
        /\ pc'[q] = "start" => pc[q] = "start" /\ list'[q] = list[q]
    BY <1>1 DEF OpensNot, Threads, Done
  <1>4. QED
    BY <1>1, <1>2, <1>3, BothKept

\* Steps that do.

LEMMA PlugKeeps ==
  ASSUME TypeOK, HotplugIInv, NEW s \in Serials, Plug(s)
  PROVE  HotplugIInv'
  <1> SUFFICES ASSUME NEW q \in Procs PROVE Starting(q)' /\ Running(q)'
    BY DEF HotplugIInv
  <1> USE DEF bus, owned, counts
  <1>1. Starting(q) /\ Running(q) /\ Bus /\ Claims /\ Threads /\ Reported
    BY TypeParts DEF HotplugIInv
  <1>2. /\ serial' = Append(serial, s) /\ plugged' = plugged \cup {Len(serial) + 1}
        /\ Tell(Came(Len(serial) + 1)) /\ claim' = claim /\ want' = want /\ pc' = pc
        /\ list' = list /\ node' = node /\ device' = device /\ Len(serial) + 1 \in URIs
    BY DEF Plug
  <1>3. \A u : Contains(notes[q], Gone(u)) => Contains(notes'[q], Gone(u))
    <2>1. Came(Len(serial) + 1) \in Report
      BY <1>2 DEF Came, Report
    <2>2. QED
      BY <1>1, <1>2, <2>1, TellKeeps
  <1>4. ASSUME NEW u, Own(q, u) PROVE Own(q, u)'
    <2>1. u \in 1..Len(serial) /\ Len(serial) \in Nat /\ serial \in Seq(Serials)
      BY <1>1, <1>4 DEF Own, Bus
    <2>2. Len(serial') = Len(serial) + 1 /\ serial'[u] = serial[u]
      BY <1>2, <2>1
    <2>3. u \in 1..Len(serial') /\ (u \in plugged' <=> u \in plugged)
      BY <1>2, <2>1, <2>2
    <2>4. QED
      BY <1>2, <1>3, <1>4, <2>2, <2>3 DEF Own, Gone
  <1>5. ASSUME pc'[q] = "start" PROVE Own(q, Next1(q))'
    <2>1. Own(q, Next1(q)) /\ Next1(q)' = Next1(q)
      BY <1>1, <1>2, <1>5 DEF Starting, Next1
    <2>2. QED
      BY <1>4, <2>1 DEF Own, Gone
  <1>6. QED
    BY <1>1, <1>2, <1>4, <1>5 DEF Starting, Running, Up, Own, Gone

LEMMA UnplugKeeps ==
  ASSUME TypeOK, HotplugIInv, NEW v \in URIs, Unplug(v)
  PROVE  HotplugIInv'
  <1> SUFFICES ASSUME NEW q \in Procs PROVE Starting(q)' /\ Running(q)'
    BY DEF HotplugIInv
  <1> USE DEF bus, owned, counts
  <1>1. Starting(q) /\ Running(q) /\ Bus /\ Claims /\ Threads /\ Reported
    BY TypeParts DEF HotplugIInv
  <1>2. /\ serial' = serial /\ plugged' = plugged \ {v} /\ claim' = [claim EXCEPT ![v] = None]
        /\ Tell(Gone(v)) /\ want' = want /\ pc' = pc
        /\ list' = list /\ node' = node /\ device' = device
    BY DEF Unplug
  <1>3. /\ \A u : Contains(notes[q], Gone(u)) => Contains(notes'[q], Gone(u))
        /\ Up(q) => Contains(notes'[q], Gone(v))
    <2>1. Gone(v) \in Report
      BY DEF Gone, Report
    <2>2. QED
      BY <1>1, <1>2, <2>1, TellKeeps
  <1>4. ASSUME NEW u, Own(q, u), Up(q) PROVE Own(q, u)'
    <2>1. CASE u = v
      BY <1>2, <1>3, <1>4, <2>1 DEF Own, Gone
    <2>2. CASE u # v
      <3>1. claim'[u] = claim[u]
        BY <1>1, <1>2, <2>2 DEF Claims
      <3>2. QED
        BY <1>2, <1>3, <1>4, <2>2, <3>1 DEF Own, Gone
    <2>3. QED
      BY <2>1, <2>2
  <1>5. ASSUME pc'[q] = "start" PROVE Own(q, Next1(q))'
    <2>1. Own(q, Next1(q)) /\ Next1(q)' = Next1(q) /\ Up(q)
      BY <1>1, <1>2, <1>5 DEF Starting, Next1, Up
    <2>2. QED
      BY <1>4, <2>1 DEF Own, Gone
  <1>6. QED
    BY <1>1, <1>2, <1>4, <1>5 DEF Starting, Running, Up, Own, Gone

LEMMA OpensKeeps ==
  ASSUME TypeOK, HotplugIInv, NEW p \in Procs, Opens(p)
  PROVE  HotplugIInv'
  <1> SUFFICES ASSUME NEW q \in Procs PROVE Starting(q)' /\ Running(q)'
    BY DEF HotplugIInv
  <1> USE DEF bus, owned, counts
  <1>1. Starting(q) /\ Running(q) /\ Bus /\ Claims /\ Threads /\ Reported
    BY TypeParts DEF HotplugIInv
  <1> DEFINE u == Next1(p)
  <1>2. /\ serial' = serial /\ plugged' = plugged /\ want' = want
        /\ notes' = notes /\ node' = node /\ device' = device /\ list' = list
        /\ claim' = [claim EXCEPT ![u] = p] /\ pc' = [pc EXCEPT ![p] = "start"]
        /\ u \in plugged /\ claim[u] \in {p, None} /\ want[p] \in {AnySerial, serial[u]}
        /\ pc[p] = "enter"
    BY DEF Opens, CanOpen
  <1>3. \A r \in Procs, w \in plugged : claim[w] = r => claim'[w] = r
    BY HotplugAssumption, <1>1, <1>2 DEF Claims, Bus
  <1>4. CASE q # p
    <2>1. pc'[q] = pc[q]
      BY <1>1, <1>2, <1>4 DEF Threads
    <2>2. QED
      BY <1>1, <1>2, <1>3, <2>1, BothKept
  <1>5. CASE q = p
    <2>1. Next1(p)' = u /\ claim'[u] = p
      <3>1. u \in URIs
        BY HotplugAssumption, <1>1, <1>2 DEF Bus, URIs
      <3>2. QED
        BY <1>1, <1>2, <3>1 DEF Claims, Next1
    <2>2. Own(p, u)'
      BY <1>1, <1>2, <2>1 DEF Own, Bus, Gone
    <2>3. Starting(p)'
      BY <2>1, <2>2 DEF Starting, Own, Gone
    <2>4. Running(p)'
      <3>1. ASSUME node'[p] # None PROVE Up(p)' /\ device'[p] = node'[p] /\ Own(p, node[p])'
        <4>1. Up(p) /\ device[p] = node[p] /\ Own(p, node[p])
          BY <1>1, <1>2, <1>5, <3>1 DEF Running
        <4>2. pc'[p] = "start"
          BY <1>1, <1>2 DEF Threads
        <4>3. QED
          BY <1>2, <1>3, <4>1, <4>2 DEF Own, Gone, Up
      <3>2. QED
        BY <3>1 DEF Running
    <2>5. QED
      BY <1>5, <2>3, <2>4
  <1>6. QED
    BY <1>4, <1>5

LEMMA startDeviceKeeps ==
  ASSUME TypeOK, HotplugIInv, NEW p \in Procs, startDevice(p)
  PROVE  HotplugIInv'
  <1> SUFFICES ASSUME NEW q \in Procs PROVE Starting(q)' /\ Running(q)'
    BY DEF HotplugIInv
  <1> USE DEF bus, owned, counts
  <1>1. Starting(q) /\ Running(q) /\ Bus /\ Claims /\ Threads /\ Reported
    BY TypeParts DEF HotplugIInv
  <1> DEFINE u == Next1(p)
  <1>2. /\ serial' = serial /\ plugged' = plugged /\ want' = want /\ notes' = notes
        /\ device' = [device EXCEPT ![p] = u] /\ claim' = Release(p, u)
        /\ pc' = [pc EXCEPT ![p] = "try"] /\ list' = [list EXCEPT ![p] = @ \ {u}]
        /\ pc[p] = "start"
        /\ \/ node' = [node EXCEPT ![p] = u]
           \/ node' = [node EXCEPT ![p] = None]
    BY DEF startDevice, Done
  <1>3. plugged \subseteq URIs
    BY HotplugAssumption, <1>1 DEF Bus, URIs
  <1>4. CASE q # p
    <2>1. /\ pc'[q] = pc[q] /\ list'[q] = list[q] /\ node'[q] = node[q]
          /\ device'[q] = device[q]
      BY <1>1, <1>2, <1>4 DEF Threads, Claims
    <2>2. \A w \in plugged : claim[w] = q => claim'[w] = q
      BY <1>2, <1>3, <1>4 DEF Release
    <2>3. QED
      BY <1>1, <1>2, <2>1, <2>2, BothKept
  <1>5. CASE q = p
    <2>1. pc'[p] = "try" /\ device'[p] = u /\ node'[p] \in {u, None}
      BY <1>1, <1>2 DEF Threads, Claims
    <2>2. Own(p, u)
      BY <1>1, <1>2, <1>5 DEF Starting
    <2>3. u \in plugged => claim'[u] = p
      BY <1>2, <1>3, <2>2 DEF Own, Release
    <2>4. ASSUME node'[p] # None PROVE Own(p, node[p])'
      <3>1. node'[p] = u
        BY <2>1, <2>4
      <3>2. QED
        BY <1>2, <2>2, <2>3, <3>1 DEF Own, Gone
    <2>5. Starting(p)'
      BY <2>1 DEF Starting
    <2>6. Running(p)'
      BY <2>1, <2>4 DEF Running, Up
    <2>7. QED
      BY <1>5, <2>5, <2>6
  <1>6. QED
    BY <1>4, <1>5

LEMMA onDeviceConnectedKeeps ==
  ASSUME TypeOK, HotplugIInv, NEW p \in Procs, onDeviceConnected(p)
  PROVE  HotplugIInv'
  <1> SUFFICES ASSUME NEW q \in Procs PROVE Starting(q)' /\ Running(q)'
    BY DEF HotplugIInv
  <1> USE DEF bus, owned, counts
  <1>1. Starting(q) /\ Running(q) /\ Bus /\ Claims /\ Threads /\ Reported
    BY TypeParts DEF HotplugIInv
  <1>2. /\ serial' = serial /\ plugged' = plugged /\ want' = want /\ claim' = claim
        /\ node' = node /\ device' = device /\ pc' = pc /\ list' = list
        /\ notes' = [notes EXCEPT ![p] = Tail(@)] /\ notes[p] # <<>>
        /\ Head(notes[p]).kind = "came"
    BY DEF onDeviceConnected
  <1>3. \A w : Contains(notes[q], Gone(w)) => Contains(notes'[q], Gone(w))
    <2>1. CASE q = p
      <3>1. notes[p] \in Seq(Report) /\ notes'[p] = Tail(notes[p])
        BY <1>1, <1>2 DEF Reported
      <3>2. \A w : Gone(w) # Head(notes[p])
        BY <1>2 DEF Gone
      <3>3. QED
        BY <1>2, <2>1, <3>1, <3>2, TailContains
    <2>2. CASE q # p
      BY <1>1, <1>2, <2>2 DEF Reported
    <2>3. QED
      BY <2>1, <2>2
  <1>4. QED
    BY <1>1, <1>2, <1>3, BothKept

LEMMA onDeviceDisconnectedKeeps ==
  ASSUME TypeOK, HotplugIInv, NEW p \in Procs, onDeviceDisconnected(p)
  PROVE  HotplugIInv'
  <1> SUFFICES ASSUME NEW q \in Procs PROVE Starting(q)' /\ Running(q)'
    BY DEF HotplugIInv
  <1> USE DEF bus, owned, counts
  <1>1. Starting(q) /\ Running(q) /\ Bus /\ Claims /\ Threads /\ Reported
    BY TypeParts DEF HotplugIInv
  <1> DEFINE u == Head(notes[p]).uri
  <1>2. /\ serial' = serial /\ plugged' = plugged /\ want' = want /\ claim' = claim
        /\ pc' = pc /\ list' = list /\ pc[p] \notin {"down", "start"}
        /\ notes' = [notes EXCEPT ![p] = Tail(@)] /\ notes[p] # <<>>
    BY DEF onDeviceDisconnected, DeviceLockFree
  <1>3. \/ node[p] = u /\ node' = [node EXCEPT ![p] = None] /\ device' = [device EXCEPT ![p] = None]
        \/ node[p] # u /\ node' = node /\ device' = device
    BY DEF onDeviceDisconnected
  <1>4. CASE q # p
    <2>1. notes'[q] = notes[q] /\ node'[q] = node[q] /\ device'[q] = device[q]
      BY <1>1, <1>2, <1>3, <1>4 DEF Reported, Claims
    <2>2. QED
      BY <1>1, <1>2, <2>1, BothKept
  <1>5. CASE q = p
    <2>1. Starting(p)'
      BY <1>2 DEF Starting
    <2>2. CASE node[p] = u
      <3>1. node'[p] = None
        BY <1>1, <1>3, <2>2 DEF Claims
      <3>2. QED
        BY <1>5, <2>1, <3>1 DEF Running
    <2>3. CASE node[p] # u
      <3>1. node' = node /\ device' = device
        BY <1>3, <2>3
      <3>2. Gone(node[p]) # Head(notes[p])
        BY <2>3 DEF Gone
      <3>3. notes[p] \in Seq(Report) /\ notes'[p] = Tail(notes[p])
        BY <1>1, <1>2 DEF Reported
      <3>4. Contains(notes[p], Gone(node[p])) => Contains(notes'[p], Gone(node[p]))
        BY <1>2, <3>2, <3>3, TailContains
      <3>5. ASSUME node[p] # None PROVE Up(p) /\ device[p] = node[p] /\ Own(p, node[p])
        BY <1>1, <1>5, <3>5 DEF Running
      <3>6. Running(p)'
        BY <1>2, <3>1, <3>4, <3>5 DEF Running, Own, Gone, Up
      <3>7. QED
        BY <1>5, <2>1, <3>6
    <2>4. QED
      BY <2>2, <2>3
  <1>6. QED
    BY <1>4, <1>5

LEMMA CrashKeeps ==
  ASSUME TypeOK, HotplugIInv, NEW p \in Procs, Crash(p)
  PROVE  HotplugIInv'
  <1> SUFFICES ASSUME NEW q \in Procs PROVE Starting(q)' /\ Running(q)'
    BY DEF HotplugIInv
  <1> USE DEF bus, owned, counts
  <1>1. Starting(q) /\ Running(q) /\ Bus /\ Claims /\ Threads /\ Reported
    BY TypeParts DEF HotplugIInv
  <1>2. /\ serial' = serial /\ plugged' = plugged /\ want' = want
        /\ pc' = [pc EXCEPT ![p] = "down"] /\ list' = [list EXCEPT ![p] = {}]
        /\ notes' = [notes EXCEPT ![p] = <<>>] /\ node' = [node EXCEPT ![p] = None]
        /\ device' = [device EXCEPT ![p] = None]
        /\ claim' = [w \in URIs |-> IF claim[w] = p THEN None ELSE claim[w]]
    BY DEF Crash
  <1>3. CASE q # p
    <2>1. /\ pc'[q] = pc[q] /\ list'[q] = list[q] /\ notes'[q] = notes[q]
          /\ node'[q] = node[q] /\ device'[q] = device[q]
      BY <1>1, <1>2, <1>3 DEF Threads, Reported, Claims
    <2>2. \A w \in plugged : claim[w] = q => claim'[w] = q
      <3>1. plugged \subseteq URIs
        BY HotplugAssumption, <1>1 DEF Bus, URIs
      <3>2. QED
        BY <1>2, <1>3, <3>1
    <2>3. QED
      BY <1>1, <1>2, <2>1, <2>2, BothKept
  <1>4. CASE q = p
    <2>1. pc'[p] = "down" /\ node'[p] = None
      BY <1>1, <1>2 DEF Threads, Claims
    <2>2. QED
      BY <1>4, <2>1 DEF Starting, Running
  <1>5. QED
    BY <1>3, <1>4

LEMMA HotplugStep == TypeOK /\ HotplugIInv /\ [Next]_vars => TypeOK' /\ HotplugIInv'
  <1> SUFFICES ASSUME TypeOK, HotplugIInv, [Next]_vars PROVE TypeOK' /\ HotplugIInv'
    OBVIOUS
  <1>1. Bus /\ Mutex /\ Claims /\ Threads /\ Reported /\ Bounds
    BY TypeParts
  <1>2. Bus' /\ Mutex' /\ Claims' /\ Threads' /\ Reported' /\ Bounds'
    BY <1>1, BusStep, MutexStep, ClaimsStep, ThreadsStep, ReportedStep, BoundsStep
    DEF HotplugIInv
  <1>3. TypeOK'
    BY <1>2 DEF TypeOK, Bus, Mutex, Claims, Threads, Report, Reported, Bounds
  <1>4. ASSUME UNCHANGED vars PROVE HotplugIInv'
    <2>1. \A p \in Procs : Starting(p) /\ Running(p)
      BY DEF HotplugIInv
    <2>2. /\ serial' = serial /\ plugged' = plugged /\ want' = want /\ claim' = claim
          /\ notes' = notes /\ node' = node /\ device' = device /\ pc' = pc /\ list' = list
      BY <1>4 DEF vars, bus, owned
    <2>3. \A p \in Procs : Starting(p)' /\ Running(p)'
      BY <1>1, <2>1, <2>2, BothKept
    <2>4. QED
      BY <2>3 DEF HotplugIInv
  <1>5. ASSUME ~ UNCHANGED vars PROVE HotplugIInv'
    BY <1>5, Steps, PlugKeeps, UnplugKeeps, StartKeeps, queryDeviceKeeps, QueryDoneKeeps,
       LocksKeeps, FindsLockedKeeps, OpensKeeps, OpensNotKeeps, startDeviceKeeps,
       onDeviceConnectedKeeps, onDeviceDisconnectedKeeps, CrashKeeps
  <1>6. QED
    BY <1>3, <1>4, <1>5

-----------------------------------------------------------------------------
\* The variables of all processes keep their types, for any number of processes,
\* devices and restarts.
THEOREM HotplugTyped == Spec => []TypeOK
  BY HotplugInit, HotplugStep, PTL DEF Spec

\* A node of any process runs on a device that the process wants and has open,
\* or is still to be told that it is gone (onDeviceConnected, startDevice,
\* onDeviceDisconnected).
THEOREM HotplugOnOwnDevice == Spec => []NodeOnOwnDevice
  <1>1. HotplugIInv => NodeOnOwnDevice
    BY DEF HotplugIInv, NodeOnOwnDevice, Running, Own, Gone
  <1>2. QED
    BY HotplugInit, HotplugStep, <1>1, PTL DEF Spec

=============================================================================
