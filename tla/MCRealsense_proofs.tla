------------------------ MODULE MCRealsense_proofs ------------------------
(***************************************************************************)
(* Theorems about the two parts of MCRealsense, one after the other.       *)
(* RealsenseFactory: no reset leaves the factory on a device that is gone, *)
(* or without anyone who looks for one, however often the device comes and *)
(* goes.  RealsenseImu: the union of gyroscope and accelerometer readings  *)
(* misses no message, and holding the messages back loses and reorders     *)
(* none.                                                                   *)
(***************************************************************************)
EXTENDS MCRealsense, Integers, NaturalsInduction, WellFoundedInduction, TLAPS

-----------------------------------------------------------------------------
\* The inductive invariant.

\* The removal of the device that the query thread has taken is still to be
\* reported, unless a reset has begun that waits for the thread: only then a node
\* is built on a device that is gone.
Known ==
  query \in {"reset", "got", "start"} /\ device \notin unseen \cup {NoDevice, present} =>
    Contains(gone, device) \/ \E t \in Threads : pc[t] \in {"reset", "join"}

\* The thread that resets has joined the query thread; only initialize, which
\* runs in the ROS thread, starts another one.
Joining ==
  /\ pc["ros"] \in {"drop", "hardware", "clear", "timer"} => query = "none"
  /\ pc["ros"] \in {"hardware", "clear", "timer"} => node = NoDevice
  /\ query = "none" /\ node # NoDevice => \E t \in Threads : pc[t] = "drop"

\* A node that is not on _device will be dropped, or initialize will run.
Excused == timer \/ pc["cb"] = "timer" \/ \E t \in Threads : InReset(t)
OnDevice ==
  node # NoDevice /\ (node # device \/ query \in {"reset", "cleared"}) => Excused

\* A reset that has stopped the query thread has not ended, or has set the timer.
Restarted == ~alive => timer \/ \E t \in Threads : pc[t] # "idle"

FactoryIInv ==
  crash = "none" => /\ Known /\ Joining /\ OnDevice /\ Restarted
                    /\ NodeIsDropped /\ SomeoneLooks

-----------------------------------------------------------------------------
\* The type invariant in parts, which are proved apart.

Flags == /\ initReset \in BOOLEAN /\ doReset \in BOOLEAN /\ alive \in BOOLEAN
         /\ timer \in BOOLEAN /\ served \in BOOLEAN /\ registered \in BOOLEAN
Points ==
  /\ query \in {"none", "loop", "reset", "cleared", "got", "start", "topics", "done"}
  /\ pc \in [Threads -> {"idle", "reset", "join", "drop", "hardware", "clear", "timer"}]
  /\ crash \in {"none", "terminate", "double_join", "data_race", "null_node"}
Numbers ==
  /\ handles \in 0..MaxHandles /\ present \in {NoDevice, handles}
  /\ device \in 0..handles /\ node \in 0..handles
  /\ calls \in 0..MaxCalls /\ failures \in 0..MaxFailures
Removals == gone \in Seq(Handles) /\ unseen \subseteq Handles

LEMMA TypeParts == TypeOK <=> Flags /\ Points /\ Numbers /\ Removals
  BY DEF TypeOK, Flags, Points, Numbers, Removals

-----------------------------------------------------------------------------
\* Sequences of removals.

LEMMA AppendContains ==
  ASSUME NEW S, NEW s \in Seq(S), NEW x \in S
  PROVE  /\ Append(s, x) \in Seq(S)
         /\ Contains(Append(s, x), x)
         /\ \A y : Contains(s, y) => Contains(Append(s, x), y)
  <1>1. Append(s, x) \in Seq(S) /\ Len(Append(s, x)) = Len(s) + 1
    OBVIOUS
  <1>2. Append(s, x)[Len(s) + 1] = x /\ \A i \in 1..Len(s) : Append(s, x)[i] = s[i]
    OBVIOUS
  <1>3. QED
    BY <1>1, <1>2 DEF Contains

LEMMA TailContains ==
  ASSUME NEW S, NEW s \in Seq(S), s # <<>>
  PROVE  /\ Head(s) \in S /\ Tail(s) \in Seq(S)
         /\ \A y : Contains(s, y) /\ y # Head(s) => Contains(Tail(s), y)
  <1>1. Head(s) \in S /\ Tail(s) \in Seq(S) /\ Head(s) = s[1]
    OBVIOUS
  <1>2. Len(Tail(s)) = Len(s) - 1 /\ \A i \in 1..(Len(s) - 1) : Tail(s)[i] = s[i + 1]
    OBVIOUS
  <1>3. ASSUME NEW y, Contains(s, y), y # Head(s) PROVE Contains(Tail(s), y)
    <2>1. PICK i \in 1..Len(s) : s[i] = y
      BY <1>3 DEF Contains
    <2>2. i - 1 \in 1..(Len(s) - 1)
      BY <2>1, <1>1, <1>3
    <2>3. Tail(s)[i - 1] = y
      BY <2>1, <2>2, <1>2
    <2>4. QED
      BY <2>2, <2>3, <1>2 DEF Contains
  <1>4. QED
    BY <1>1, <1>3

-----------------------------------------------------------------------------
\* The steps, with the threads that take them.

LEMMA Steps ==
  ASSUME [Next]_vars
  PROVE  \/ /\ crash = "none"
            /\ \/ initialize
               \/ GetDevice
               \/ InitialReset
               \/ InitialCleared
               \/ Registers
               \/ StartDevice
               \/ publishTopics
               \/ change_device_callback
               \/ handleReset
               \/ toggle_sensor_callback
               \/ Appears
               \/ Unplugged
               \/ \E t \in Threads : \/ StopsQuery(t)
                                      \/ JoinsQuery(t)
                                      \/ DropsNode(t)
                                      \/ ResetsHardware(t)
                                      \/ ClearsDevice(t)
                                      \/ SetsTimer(t)
         \/ UNCHANGED vars
  BY DEF Next, RosThread, Callback, QueryThread, Services, Device, Resets, Threads

LEMMA FactoryInit == Init => TypeOK /\ FactoryIInv
  <1> SUFFICES ASSUME Init PROVE TypeOK /\ FactoryIInv
    OBVIOUS
  <1>1. Flags /\ Points /\ Numbers /\ Removals
    <2>1. Flags
      BY DEF Init, Flags
    <2>2. Points /\ Numbers
      BY FactoryAssumption DEF Init, Points, Numbers, NoDevice, Threads
    <2>3. Removals
      BY DEF Init, Removals
    <2>4. QED
      BY <2>1, <2>2, <2>3
  <1>2. Known /\ Joining /\ OnDevice /\ Restarted
    BY DEF Init, Known, Joining, OnDevice, Restarted, Excused, Threads
  <1>3. NodeIsDropped /\ SomeoneLooks
    BY DEF Init, NodeIsDropped, SomeoneLooks
  <1>4. QED
    BY <1>1, <1>2, <1>3, TypeParts DEF FactoryIInv

LEMMA FlagsStep == Flags /\ [Next]_vars => Flags'
  <1> SUFFICES ASSUME Flags, [Next]_vars PROVE Flags'
    OBVIOUS
  <1> USE DEF Crashes, bus, reports, params, shared, counts, Flags
  <1>1. CASE initialize
    BY <1>1 DEF initialize
  <1>2. CASE GetDevice
    BY <1>2 DEF GetDevice, Queries
  <1>3. CASE InitialReset
    BY <1>3 DEF InitialReset, Removed
  <1>4. CASE InitialCleared
    BY <1>4 DEF InitialCleared, Queries
  <1>5. CASE Registers
    BY <1>5 DEF Registers, Queries
  <1>6. CASE StartDevice
    BY <1>6 DEF StartDevice
  <1>7. CASE publishTopics
    BY <1>7 DEF publishTopics, Queries
  <1>8. CASE change_device_callback
    BY <1>8 DEF change_device_callback, At, Goes
  <1>9. CASE handleReset
    BY <1>9 DEF handleReset, Called, At, Goes
  <1>10. CASE toggle_sensor_callback
    BY <1>10 DEF toggle_sensor_callback, Called
  <1>11. CASE Appears
    BY <1>11 DEF Appears
  <1>12. CASE Unplugged
    BY <1>12 DEF Unplugged, Removed
  <1>13. ASSUME NEW t \in Threads, StopsQuery(t) PROVE Flags'
    BY <1>13 DEF StopsQuery, At, Goes
  <1>14. ASSUME NEW t \in Threads, JoinsQuery(t) PROVE Flags'
    BY <1>14 DEF JoinsQuery, At, Goes
  <1>15. ASSUME NEW t \in Threads, DropsNode(t) PROVE Flags'
    BY <1>15 DEF DropsNode, At, Goes, Other
  <1>16. ASSUME NEW t \in Threads, ResetsHardware(t) PROVE Flags'
    BY <1>16 DEF ResetsHardware, At, Goes, Removed
  <1>17. ASSUME NEW t \in Threads, ClearsDevice(t) PROVE Flags'
    BY <1>17 DEF ClearsDevice, At, Goes
  <1>18. ASSUME NEW t \in Threads, SetsTimer(t) PROVE Flags'
    BY <1>18 DEF SetsTimer, At, Goes
  <1>19. CASE UNCHANGED vars
    BY <1>19 DEF vars
  <1>20. QED
    BY <1>1, <1>2, <1>3, <1>4, <1>5, <1>6, <1>7, <1>8, <1>9, <1>10, <1>11, <1>12,
       <1>13, <1>14, <1>15, <1>16, <1>17, <1>18, <1>19, Steps

LEMMA PointsStep == Points /\ [Next]_vars => Points'
  <1> SUFFICES ASSUME Points, [Next]_vars PROVE Points'
    OBVIOUS
  <1> USE DEF Crashes, bus, reports, params, shared, counts, Points, Threads
  <1>1. CASE initialize
    BY <1>1 DEF initialize
  <1>2. CASE GetDevice
    BY <1>2 DEF GetDevice, Queries
  <1>3. CASE InitialReset
    BY <1>3 DEF InitialReset, Removed
  <1>4. CASE InitialCleared
    BY <1>4 DEF InitialCleared, Queries
  <1>5. CASE Registers
    BY <1>5 DEF Registers, Queries
  <1>6. CASE StartDevice
    BY <1>6 DEF StartDevice
  <1>7. CASE publishTopics
    BY <1>7 DEF publishTopics, Queries
  <1>8. CASE change_device_callback
    BY <1>8 DEF change_device_callback, At, Goes
  <1>9. CASE handleReset
    BY <1>9 DEF handleReset, Called, At, Goes
  <1>10. CASE toggle_sensor_callback
    BY <1>10 DEF toggle_sensor_callback, Called
  <1>11. CASE Appears
    BY <1>11 DEF Appears
  <1>12. CASE Unplugged
    BY <1>12 DEF Unplugged, Removed
  <1>13. ASSUME NEW t \in Threads, StopsQuery(t) PROVE Points'
    BY <1>13 DEF StopsQuery, At, Goes
  <1>14. ASSUME NEW t \in Threads, JoinsQuery(t) PROVE Points'
    BY <1>14 DEF JoinsQuery, At, Goes
  <1>15. ASSUME NEW t \in Threads, DropsNode(t) PROVE Points'
    BY <1>15 DEF DropsNode, At, Goes, Other
  <1>16. ASSUME NEW t \in Threads, ResetsHardware(t) PROVE Points'
    BY <1>16 DEF ResetsHardware, At, Goes, Removed
  <1>17. ASSUME NEW t \in Threads, ClearsDevice(t) PROVE Points'
    BY <1>17 DEF ClearsDevice, At, Goes
  <1>18. ASSUME NEW t \in Threads, SetsTimer(t) PROVE Points'
    BY <1>18 DEF SetsTimer, At, Goes
  <1>19. CASE UNCHANGED vars
    BY <1>19 DEF vars
  <1>20. QED
    BY <1>1, <1>2, <1>3, <1>4, <1>5, <1>6, <1>7, <1>8, <1>9, <1>10, <1>11, <1>12,
       <1>13, <1>14, <1>15, <1>16, <1>17, <1>18, <1>19, Steps

LEMMA NumbersStep == Numbers /\ [Next]_vars => Numbers'
  <1> SUFFICES ASSUME Numbers, [Next]_vars PROVE Numbers'
    OBVIOUS
  <1> USE FactoryAssumption DEF Crashes, bus, reports, params, shared, counts, Numbers,
        NoDevice
  <1>1. CASE initialize
    <2>1. /\ handles' = handles /\ present' = present /\ node' = node
          /\ calls' = calls /\ failures' = failures
      BY <1>1 DEF initialize
    <2>2. device' = device \/ device' = 0
      BY <1>1 DEF initialize
    <2>3. QED
      BY <2>1, <2>2
  <1>2. CASE GetDevice
    BY <1>2 DEF GetDevice, Queries
  <1>3. CASE InitialReset
    BY <1>3 DEF InitialReset, Removed
  <1>4. CASE InitialCleared
    BY <1>4 DEF InitialCleared, Queries
  <1>5. CASE Registers
    BY <1>5 DEF Registers, Queries
  <1>6. CASE StartDevice
    BY <1>6 DEF StartDevice
  <1>7. CASE publishTopics
    BY <1>7 DEF publishTopics, Queries
  <1>8. CASE change_device_callback
    BY <1>8 DEF change_device_callback, At, Goes
  <1>9. CASE handleReset
    BY <1>9 DEF handleReset, Called, At, Goes
  <1>10. CASE toggle_sensor_callback
    <2>1. /\ handles' = handles /\ present' = present /\ node' = node
          /\ device' = device /\ failures' = failures
      BY <1>10 DEF toggle_sensor_callback
    <2>2. calls' = calls \/ (calls < MaxCalls /\ calls' = calls + 1)
      BY <1>10 DEF toggle_sensor_callback, Called
    <2>3. QED
      BY <2>1, <2>2
  <1>11. CASE Appears
    BY <1>11 DEF Appears
  <1>12. CASE Unplugged
    BY <1>12 DEF Unplugged, Removed
  <1>13. ASSUME NEW t \in Threads, StopsQuery(t) PROVE Numbers'
    BY <1>13 DEF StopsQuery, At, Goes
  <1>14. ASSUME NEW t \in Threads, JoinsQuery(t) PROVE Numbers'
    BY <1>14 DEF JoinsQuery, At, Goes
  <1>15. ASSUME NEW t \in Threads, DropsNode(t) PROVE Numbers'
    BY <1>15 DEF DropsNode, At, Goes, Other
  <1>16. ASSUME NEW t \in Threads, ResetsHardware(t) PROVE Numbers'
    BY <1>16 DEF ResetsHardware, At, Goes, Removed
  <1>17. ASSUME NEW t \in Threads, ClearsDevice(t) PROVE Numbers'
    BY <1>17 DEF ClearsDevice, At, Goes
  <1>18. ASSUME NEW t \in Threads, SetsTimer(t) PROVE Numbers'
    BY <1>18 DEF SetsTimer, At, Goes
  <1>19. CASE UNCHANGED vars
    BY <1>19 DEF vars
  <1>20. QED
    BY <1>1, <1>2, <1>3, <1>4, <1>5, <1>6, <1>7, <1>8, <1>9, <1>10, <1>11, <1>12,
       <1>13, <1>14, <1>15, <1>16, <1>17, <1>18, <1>19, Steps

LEMMA RemovedTyped ==
  ASSUME Numbers, Removals, present # NoDevice, Removed
  PROVE  Removals'
  <1> USE DEF Removals
  <1>1. present \in Handles
    BY FactoryAssumption DEF Numbers, NoDevice, Handles
  <1>2. CASE registered
    <2>1. gone' = Append(gone, present) /\ unseen' = unseen
      BY <1>2 DEF Removed
    <2>2. QED
      BY <1>1, <2>1, AppendContains
  <1>3. CASE ~registered
    <2>1. unseen' = unseen \cup {present} /\ gone' = gone
      BY <1>3 DEF Removed
    <2>2. QED
      BY <1>1, <2>1
  <1>4. QED
    BY <1>2, <1>3

LEMMA RemovalsStep == Numbers /\ Removals /\ [Next]_vars => Removals'
  <1> SUFFICES ASSUME Numbers, Removals, [Next]_vars PROVE Removals'
    OBVIOUS
  <1> USE DEF Crashes, bus, reports, params, shared, counts, Removals
  <1>1. CASE initialize
    BY <1>1 DEF initialize
  <1>2. CASE GetDevice
    BY <1>2 DEF GetDevice, Queries
  <1>3. CASE InitialReset
    <2>1. CASE device = present /\ present # NoDevice
      BY <1>3, <2>1, RemovedTyped DEF InitialReset
    <2>2. CASE ~(device = present /\ present # NoDevice)
      BY <1>3, <2>2 DEF InitialReset
    <2>3. QED
      BY <2>1, <2>2
  <1>4. CASE InitialCleared
    BY <1>4 DEF InitialCleared, Queries
  <1>5. CASE Registers
    BY <1>5 DEF Registers, Queries
  <1>6. CASE StartDevice
    BY <1>6 DEF StartDevice
  <1>7. CASE publishTopics
    BY <1>7 DEF publishTopics, Queries
  <1>8. CASE change_device_callback
    BY <1>8 DEF change_device_callback, At, Goes
  <1>9. CASE handleReset
    BY <1>9 DEF handleReset, Called, At, Goes
  <1>10. CASE toggle_sensor_callback
    BY <1>10 DEF toggle_sensor_callback, Called
  <1>11. CASE Appears
    BY <1>11 DEF Appears
  <1>12. CASE Unplugged
    BY <1>12, RemovedTyped DEF Unplugged
  <1>13. ASSUME NEW t \in Threads, StopsQuery(t) PROVE Removals'
    BY <1>13 DEF StopsQuery, At, Goes
  <1>14. ASSUME NEW t \in Threads, JoinsQuery(t) PROVE Removals'
    BY <1>14 DEF JoinsQuery, At, Goes
  <1>15. ASSUME NEW t \in Threads, DropsNode(t) PROVE Removals'
    BY <1>15 DEF DropsNode, At, Goes, Other
  <1>16. ASSUME NEW t \in Threads, ResetsHardware(t) PROVE Removals'
    <2>1. CASE device # NoDevice /\ device = present
      BY <1>16, <2>1, RemovedTyped DEF ResetsHardware
    <2>2. CASE ~(device # NoDevice /\ device = present)
      BY <1>16, <2>2 DEF ResetsHardware
    <2>3. QED
      BY <2>1, <2>2
  <1>17. ASSUME NEW t \in Threads, ClearsDevice(t) PROVE Removals'
    BY <1>17 DEF ClearsDevice, At, Goes
  <1>18. ASSUME NEW t \in Threads, SetsTimer(t) PROVE Removals'
    BY <1>18 DEF SetsTimer, At, Goes
  <1>19. CASE UNCHANGED vars
    BY <1>19 DEF vars
  <1>20. QED
    BY <1>1, <1>2, <1>3, <1>4, <1>5, <1>6, <1>7, <1>8, <1>9, <1>10, <1>11, <1>12,
       <1>13, <1>14, <1>15, <1>16, <1>17, <1>18, <1>19, Steps

\* Every variable of the factory keeps its type, for any number of handles.
THEOREM FactoryTyped == Spec => []TypeOK
  <1>1. TypeOK /\ [Next]_vars => TypeOK'
    <2> SUFFICES ASSUME TypeOK, [Next]_vars PROVE TypeOK'
      OBVIOUS
    <2>1. Flags' /\ Points' /\ Numbers' /\ Removals'
      BY TypeParts, FlagsStep, PointsStep, NumbersStep, RemovalsStep
    <2>2. QED
      BY <2>1 DEF TypeOK, Flags, Points, Numbers, Removals
  <1>2. QED
    BY FactoryInit, <1>1, PTL DEF Spec

-----------------------------------------------------------------------------
\* The parts of the inductive invariant, while the process has not ended.

\* A removal is still to be reported, or comes before it would be.
LEMMA RemovedReports ==
  ASSUME Numbers, Removals, present # NoDevice, Removed
  PROVE  /\ present' = NoDevice /\ unseen \subseteq unseen'
         /\ \A y : Contains(gone, y) => Contains(gone', y)
         /\ Contains(gone', present) \/ present \in unseen'
  <1>1. present \in Handles
    BY FactoryAssumption DEF Numbers, NoDevice, Handles
  <1>2. /\ present' = NoDevice
        /\ IF registered THEN gone' = Append(gone, present) /\ unseen' = unseen
                         ELSE gone' = gone /\ unseen' = unseen \cup {present}
    BY DEF Removed
  <1>3. gone \in Seq(Handles)
    BY DEF Removals
  <1>4. CASE registered
    <2>1. gone' = Append(gone, present)
      BY <1>2, <1>4
    <2>2. Contains(Append(gone, present), present)
      BY <1>1, <1>3, AppendContains
    <2>3. \A y : Contains(gone, y) => Contains(Append(gone, present), y)
      BY <1>1, <1>3, AppendContains
    <2>4. QED
      BY <1>2, <1>4, <2>1, <2>2, <2>3
  <1>5. CASE ~registered
    BY <1>2, <1>5
  <1>6. QED
    BY <1>4, <1>5

LEMMA KnownStep ==
  ASSUME Points, Numbers, Removals, Known, [Next]_vars, crash' = "none"
  PROVE  Known'
  <1> USE DEF Crashes, bus, reports, params, shared, counts, Points, Known, Threads,
              NoDevice
  <1>1. CASE initialize
    BY <1>1 DEF initialize
  <1>2. CASE GetDevice
    BY <1>2 DEF GetDevice, Queries
  <1>3. CASE InitialReset
    <2>1. CASE device = present /\ present # NoDevice
      BY <1>3, <2>1 DEF InitialReset
    <2>2. CASE ~(device = present /\ present # NoDevice)
      BY <1>3, <2>2 DEF InitialReset
    <2>3. QED
      BY <2>1, <2>2
  <1>4. CASE InitialCleared
    BY <1>4 DEF InitialCleared, Queries
  <1>5. CASE Registers
    BY <1>5 DEF Registers, Queries
  <1>6. CASE StartDevice
    BY <1>6 DEF StartDevice
  <1>7. CASE publishTopics
    BY <1>7 DEF publishTopics, Queries
  <1>8. CASE change_device_callback
    <2>1. gone \in Seq(Handles) /\ gone # <<>> /\ gone' = Tail(gone)
      BY <1>8 DEF change_device_callback, Removals
    <2>2. \A y : Contains(gone, y) /\ y # Head(gone) => Contains(gone', y)
      BY <2>1, TailContains
    <2>3. /\ pc["cb"] = "idle" /\ UNCHANGED <<query, device, unseen, present>>
          /\ pc' = IF Head(gone) = device THEN [pc EXCEPT !["cb"] = "reset"] ELSE pc
      BY <1>8 DEF change_device_callback, At, Goes
    <2>4. CASE Head(gone) = device
      <3>1. pc'["cb"] = "reset"
        BY <2>3, <2>4
      <3>2. QED
        BY <3>1
    <2>5. CASE Head(gone) # device
      BY <2>2, <2>3, <2>5
    <2>6. QED
      BY <2>4, <2>5
  <1>9. CASE handleReset
    BY <1>9 DEF handleReset, Called, At, Goes
  <1>10. CASE toggle_sensor_callback
    BY <1>10 DEF toggle_sensor_callback, Called
  <1>11. CASE Appears
    BY <1>11 DEF Appears
  <1>12. CASE Unplugged
    <2>1. Removed /\ present # NoDevice /\ UNCHANGED <<query, pc, device>>
      BY <1>12 DEF Unplugged
    <2>2. QED
      BY <2>1, RemovedReports
  <1>13. ASSUME NEW t \in Threads, StopsQuery(t) PROVE Known'
    BY <1>13 DEF StopsQuery, At, Goes
  <1>14. ASSUME NEW t \in Threads, JoinsQuery(t) PROVE Known'
    BY <1>14 DEF JoinsQuery, At, Goes
  <1>15. ASSUME NEW t \in Threads, DropsNode(t) PROVE Known'
    BY <1>15 DEF DropsNode, At, Goes, Other
  <1>16. ASSUME NEW t \in Threads, ResetsHardware(t) PROVE Known'
    <2>1. CASE device # NoDevice /\ device = present
      <3>1. Removed /\ UNCHANGED <<query, device>>
        BY <1>16, <2>1 DEF ResetsHardware
      <3>2. QED
        BY <2>1, <3>1, RemovedReports
    <2>2. CASE ~(device # NoDevice /\ device = present)
      BY <1>16, <2>2 DEF ResetsHardware, At, Goes
    <2>3. QED
      BY <2>1, <2>2
  <1>17. ASSUME NEW t \in Threads, ClearsDevice(t) PROVE Known'
    BY <1>17 DEF ClearsDevice, At, Goes
  <1>18. ASSUME NEW t \in Threads, SetsTimer(t) PROVE Known'
    BY <1>18 DEF SetsTimer, At, Goes
  <1>19. CASE UNCHANGED vars
    BY <1>19 DEF vars
  <1>20. QED
    BY <1>1, <1>2, <1>3, <1>4, <1>5, <1>6, <1>7, <1>8, <1>9, <1>10, <1>11, <1>12,
       <1>13, <1>14, <1>15, <1>16, <1>17, <1>18, <1>19, Steps

LEMMA JoiningStep ==
  ASSUME Points, Joining, [Next]_vars, crash' = "none"
  PROVE  Joining'
  <1> USE DEF Crashes, bus, reports, params, shared, counts, Points, Joining, Threads
  <1>1. CASE initialize
    BY <1>1 DEF initialize
  <1>2. CASE GetDevice
    BY <1>2 DEF GetDevice, Queries
  <1>3. CASE InitialReset
    BY <1>3 DEF InitialReset, Removed
  <1>4. CASE InitialCleared
    BY <1>4 DEF InitialCleared, Queries
  <1>5. CASE Registers
    BY <1>5 DEF Registers, Queries
  <1>6. CASE StartDevice
    BY <1>6 DEF StartDevice
  <1>7. CASE publishTopics
    BY <1>7 DEF publishTopics, Queries
  <1>8. CASE change_device_callback
    BY <1>8 DEF change_device_callback, At, Goes
  <1>9. CASE handleReset
    BY <1>9 DEF handleReset, Called, At, Goes
  <1>10. CASE toggle_sensor_callback
    BY <1>10 DEF toggle_sensor_callback, Called
  <1>11. CASE Appears
    BY <1>11 DEF Appears
  <1>12. CASE Unplugged
    BY <1>12 DEF Unplugged, Removed
  <1>13. ASSUME NEW t \in Threads, StopsQuery(t) PROVE Joining'
    BY <1>13 DEF StopsQuery, At, Goes
  <1>14. ASSUME NEW t \in Threads, JoinsQuery(t) PROVE Joining'
    BY <1>14 DEF JoinsQuery, At, Goes
  <1>15. ASSUME NEW t \in Threads, DropsNode(t) PROVE Joining'
    BY <1>15 DEF DropsNode, At, Goes, Other
  <1>16. ASSUME NEW t \in Threads, ResetsHardware(t) PROVE Joining'
    BY <1>16 DEF ResetsHardware, At, Goes, Removed
  <1>17. ASSUME NEW t \in Threads, ClearsDevice(t) PROVE Joining'
    BY <1>17 DEF ClearsDevice, At, Goes
  <1>18. ASSUME NEW t \in Threads, SetsTimer(t) PROVE Joining'
    BY <1>18 DEF SetsTimer, At, Goes
  <1>19. CASE UNCHANGED vars
    BY <1>19 DEF vars
  <1>20. QED
    BY <1>1, <1>2, <1>3, <1>4, <1>5, <1>6, <1>7, <1>8, <1>9, <1>10, <1>11, <1>12,
       <1>13, <1>14, <1>15, <1>16, <1>17, <1>18, <1>19, Steps

LEMMA OnDeviceStep ==
  ASSUME Points, Joining, OnDevice, [Next]_vars, crash' = "none"
  PROVE  OnDevice'
  <1> USE DEF Crashes, bus, reports, params, shared, counts, Points, Joining, OnDevice,
              Excused, InReset, Threads
  <1>1. CASE initialize
    BY <1>1 DEF initialize
  <1>2. CASE GetDevice
    BY <1>2 DEF GetDevice, Queries
  <1>3. CASE InitialReset
    BY <1>3 DEF InitialReset, Removed
  <1>4. CASE InitialCleared
    BY <1>4 DEF InitialCleared, Queries
  <1>5. CASE Registers
    BY <1>5 DEF Registers, Queries
  <1>6. CASE StartDevice
    BY <1>6 DEF StartDevice
  <1>7. CASE publishTopics
    BY <1>7 DEF publishTopics, Queries
  <1>8. CASE change_device_callback
    BY <1>8 DEF change_device_callback, At, Goes
  <1>9. CASE handleReset
    BY <1>9 DEF handleReset, Called, At, Goes
  <1>10. CASE toggle_sensor_callback
    BY <1>10 DEF toggle_sensor_callback, Called
  <1>11. CASE Appears
    BY <1>11 DEF Appears
  <1>12. CASE Unplugged
    BY <1>12 DEF Unplugged, Removed
  <1>13. ASSUME NEW t \in Threads, StopsQuery(t) PROVE OnDevice'
    BY <1>13 DEF StopsQuery, At, Goes
  <1>14. ASSUME NEW t \in Threads, JoinsQuery(t) PROVE OnDevice'
    BY <1>14 DEF JoinsQuery, At, Goes
  <1>15. ASSUME NEW t \in Threads, DropsNode(t) PROVE OnDevice'
    BY <1>15 DEF DropsNode, At, Goes, Other
  <1>16. ASSUME NEW t \in Threads, ResetsHardware(t) PROVE OnDevice'
    BY <1>16 DEF ResetsHardware, At, Goes, Removed
  <1>17. ASSUME NEW t \in Threads, ClearsDevice(t) PROVE OnDevice'
    BY <1>17 DEF ClearsDevice, At, Goes
  <1>18. ASSUME NEW t \in Threads, SetsTimer(t) PROVE OnDevice'
    BY <1>18 DEF SetsTimer, At, Goes
  <1>19. CASE UNCHANGED vars
    BY <1>19 DEF vars
  <1>20. QED
    BY <1>1, <1>2, <1>3, <1>4, <1>5, <1>6, <1>7, <1>8, <1>9, <1>10, <1>11, <1>12,
       <1>13, <1>14, <1>15, <1>16, <1>17, <1>18, <1>19, Steps

LEMMA RestartedStep ==
  ASSUME Points, Restarted, [Next]_vars, crash' = "none"
  PROVE  Restarted'
  <1> USE DEF Crashes, bus, reports, params, shared, counts, Points, Restarted, Threads
  <1>1. CASE initialize
    BY <1>1 DEF initialize
  <1>2. CASE GetDevice
    BY <1>2 DEF GetDevice, Queries
  <1>3. CASE InitialReset
    BY <1>3 DEF InitialReset, Removed
  <1>4. CASE InitialCleared
    BY <1>4 DEF InitialCleared, Queries
  <1>5. CASE Registers
    BY <1>5 DEF Registers, Queries
  <1>6. CASE StartDevice
    BY <1>6 DEF StartDevice
  <1>7. CASE publishTopics
    BY <1>7 DEF publishTopics, Queries
  <1>8. CASE change_device_callback
    BY <1>8 DEF change_device_callback, At, Goes
  <1>9. CASE handleReset
    BY <1>9 DEF handleReset, Called, At, Goes
  <1>10. CASE toggle_sensor_callback
    BY <1>10 DEF toggle_sensor_callback, Called
  <1>11. CASE Appears
    BY <1>11 DEF Appears
  <1>12. CASE Unplugged
    BY <1>12 DEF Unplugged, Removed
  <1>13. ASSUME NEW t \in Threads, StopsQuery(t) PROVE Restarted'
    BY <1>13 DEF StopsQuery, At, Goes
  <1>14. ASSUME NEW t \in Threads, JoinsQuery(t) PROVE Restarted'
    BY <1>14 DEF JoinsQuery, At, Goes
  <1>15. ASSUME NEW t \in Threads, DropsNode(t) PROVE Restarted'
    BY <1>15 DEF DropsNode, At, Goes, Other
  <1>16. ASSUME NEW t \in Threads, ResetsHardware(t) PROVE Restarted'
    BY <1>16 DEF ResetsHardware, At, Goes, Removed
  <1>17. ASSUME NEW t \in Threads, ClearsDevice(t) PROVE Restarted'
    BY <1>17 DEF ClearsDevice, At, Goes
  <1>18. ASSUME NEW t \in Threads, SetsTimer(t) PROVE Restarted'
    BY <1>18 DEF SetsTimer, At, Goes
  <1>19. CASE UNCHANGED vars
    BY <1>19 DEF vars
  <1>20. QED
    BY <1>1, <1>2, <1>3, <1>4, <1>5, <1>6, <1>7, <1>8, <1>9, <1>10, <1>11, <1>12,
       <1>13, <1>14, <1>15, <1>16, <1>17, <1>18, <1>19, Steps

LEMMA LooksStep ==
  ASSUME Points, Restarted, SomeoneLooks, [Next]_vars, crash' = "none"
  PROVE  SomeoneLooks'
  <1> USE DEF Crashes, bus, reports, params, shared, counts, Points, Restarted,
              SomeoneLooks, Threads, NoDevice
  <1>1. CASE initialize
    BY <1>1 DEF initialize
  <1>2. CASE GetDevice
    BY <1>2 DEF GetDevice, Queries
  <1>3. CASE InitialReset
    BY <1>3 DEF InitialReset, Removed
  <1>4. CASE InitialCleared
    BY <1>4 DEF InitialCleared, Queries
  <1>5. CASE Registers
    BY <1>5 DEF Registers, Queries
  <1>6. CASE StartDevice
    BY <1>6 DEF StartDevice
  <1>7. CASE publishTopics
    BY <1>7 DEF publishTopics, Queries
  <1>8. CASE change_device_callback
    BY <1>8 DEF change_device_callback, At, Goes
  <1>9. CASE handleReset
    BY <1>9 DEF handleReset, Called, At, Goes
  <1>10. CASE toggle_sensor_callback
    BY <1>10 DEF toggle_sensor_callback, Called
  <1>11. CASE Appears
    BY <1>11 DEF Appears
  <1>12. CASE Unplugged
    BY <1>12 DEF Unplugged, Removed
  <1>13. ASSUME NEW t \in Threads, StopsQuery(t) PROVE SomeoneLooks'
    BY <1>13 DEF StopsQuery, At, Goes
  <1>14. ASSUME NEW t \in Threads, JoinsQuery(t) PROVE SomeoneLooks'
    BY <1>14 DEF JoinsQuery, At, Goes
  <1>15. ASSUME NEW t \in Threads, DropsNode(t) PROVE SomeoneLooks'
    BY <1>15 DEF DropsNode, At, Goes, Other
  <1>16. ASSUME NEW t \in Threads, ResetsHardware(t) PROVE SomeoneLooks'
    BY <1>16 DEF ResetsHardware, At, Goes, Removed
  <1>17. ASSUME NEW t \in Threads, ClearsDevice(t) PROVE SomeoneLooks'
    BY <1>17 DEF ClearsDevice, At, Goes
  <1>18. ASSUME NEW t \in Threads, SetsTimer(t) PROVE SomeoneLooks'
    BY <1>18 DEF SetsTimer, At, Goes
  <1>19. CASE UNCHANGED vars
    BY <1>19 DEF vars
  <1>20. QED
    BY <1>1, <1>2, <1>3, <1>4, <1>5, <1>6, <1>7, <1>8, <1>9, <1>10, <1>11, <1>12,
       <1>13, <1>14, <1>15, <1>16, <1>17, <1>18, <1>19, Steps

LEMMA DroppedStep ==
  ASSUME Points, Numbers, Removals, Known, Joining, OnDevice, NodeIsDropped,
        [Next]_vars, crash' = "none"
  PROVE  NodeIsDropped'
  <1> USE DEF Crashes, bus, reports, params, shared, counts, Points, Joining, Known,
              OnDevice, Excused, InReset, NodeIsDropped, Threads, NoDevice
  <1>1. CASE initialize
    BY <1>1 DEF initialize
  <1>2. CASE GetDevice
    BY <1>2 DEF GetDevice, Queries
  <1>3. CASE InitialReset
    <2>1. CASE device = present /\ present # NoDevice
      <3>1. Removed
        BY <1>3, <2>1 DEF InitialReset
      <3>2. timer' = timer /\ pc' = pc /\ node' = node /\ crash = "none"
        BY <1>3 DEF InitialReset
      <3>3. QED
        BY <2>1, <3>1, <3>2, RemovedReports
    <2>2. CASE ~(device = present /\ present # NoDevice)
      BY <1>3, <2>2 DEF InitialReset
    <2>3. QED
      BY <2>1, <2>2
  <1>4. CASE InitialCleared
    BY <1>4 DEF InitialCleared, Queries
  <1>5. CASE Registers
    BY <1>5 DEF Registers, Queries
  <1>6. CASE StartDevice
    BY <1>6 DEF StartDevice
  <1>7. CASE publishTopics
    BY <1>7 DEF publishTopics, Queries
  <1>8. CASE change_device_callback
    <2>1. gone \in Seq(Handles) /\ gone # <<>> /\ gone' = Tail(gone)
      BY <1>8 DEF change_device_callback, Removals
    <2>2. \A y : Contains(gone, y) /\ y # Head(gone) => Contains(gone', y)
      BY <2>1, TailContains
    <2>3. /\ pc["cb"] = "idle" /\ timer' = timer /\ node' = node /\ present' = present
          /\ device' = device /\ crash' = crash /\ unseen' = unseen
          /\ pc' = IF Head(gone) = device THEN [pc EXCEPT !["cb"] = "reset"] ELSE pc
      BY <1>8 DEF change_device_callback, At, Goes
    <2>4. CASE Head(gone) = device
      <3>1. pc'["cb"] = "reset"
        BY <2>3, <2>4
      <3>2. QED
        BY <3>1
    <2>5. CASE Head(gone) # device
      <3>1. SUFFICES ASSUME node # NoDevice, node # present, node \notin unseen,
                            ~timer, \A t \in Threads : ~InReset(t)
                     PROVE  Contains(gone', node)
        BY <2>3, <2>5
      <3>2. node = device
        BY <3>1, <2>3
      <3>3. Contains(gone, node)
        BY <3>1, <2>3
      <3>4. QED
        BY <3>2, <3>3, <2>2, <2>5
    <2>6. QED
      BY <2>4, <2>5
  <1>9. CASE handleReset
    BY <1>9 DEF handleReset, Called, At, Goes
  <1>10. CASE toggle_sensor_callback
    BY <1>10 DEF toggle_sensor_callback, Called
  <1>11. CASE Appears
    BY <1>11 DEF Appears
  <1>12. CASE Unplugged
    <2>1. Removed /\ present # NoDevice
      BY <1>12 DEF Unplugged
    <2>2. timer' = timer /\ pc' = pc /\ node' = node /\ crash = "none"
      BY <1>12 DEF Unplugged
    <2>3. QED
      BY <2>1, <2>2, RemovedReports
  <1>13. ASSUME NEW t \in Threads, StopsQuery(t) PROVE NodeIsDropped'
    BY <1>13 DEF StopsQuery, At, Goes
  <1>14. ASSUME NEW t \in Threads, JoinsQuery(t) PROVE NodeIsDropped'
    BY <1>14 DEF JoinsQuery, At, Goes
  <1>15. ASSUME NEW t \in Threads, DropsNode(t) PROVE NodeIsDropped'
    BY <1>15 DEF DropsNode, At, Goes, Other
  <1>16. ASSUME NEW t \in Threads, ResetsHardware(t) PROVE NodeIsDropped'
    <2>1. CASE device # NoDevice /\ device = present
      <3>1. Removed
        BY <1>16, <2>1 DEF ResetsHardware
      <3>2. /\ pc[t] = "hardware" /\ pc' = [pc EXCEPT ![t] = "clear"]
            /\ timer' = timer /\ node' = node /\ crash = "none"
        BY <1>16, <2>1 DEF ResetsHardware, At, Goes
      <3>3. \A u \in Threads : InReset(u) => InReset(u)'
        BY <3>2
      <3>4. QED
        BY <2>1, <3>1, <3>2, <3>3, RemovedReports
    <2>2. CASE ~(device # NoDevice /\ device = present)
      BY <1>16, <2>2 DEF ResetsHardware, At, Goes
    <2>3. QED
      BY <2>1, <2>2
  <1>17. ASSUME NEW t \in Threads, ClearsDevice(t) PROVE NodeIsDropped'
    BY <1>17 DEF ClearsDevice, At, Goes
  <1>18. ASSUME NEW t \in Threads, SetsTimer(t) PROVE NodeIsDropped'
    BY <1>18 DEF SetsTimer, At, Goes
  <1>19. CASE UNCHANGED vars
    BY <1>19 DEF vars
  <1>20. QED
    BY <1>1, <1>2, <1>3, <1>4, <1>5, <1>6, <1>7, <1>8, <1>9, <1>10, <1>11, <1>12,
       <1>13, <1>14, <1>15, <1>16, <1>17, <1>18, <1>19, Steps

LEMMA FactoryStep == TypeOK /\ FactoryIInv /\ [Next]_vars => FactoryIInv'
  <1> SUFFICES ASSUME TypeOK, FactoryIInv, [Next]_vars, crash' = "none"
               PROVE  /\ Known' /\ Joining' /\ OnDevice' /\ Restarted'
                      /\ NodeIsDropped' /\ SomeoneLooks'
    BY DEF FactoryIInv
  <1>1. crash = "none"
    BY Steps DEF vars
  <1>2. /\ Known /\ Joining /\ OnDevice /\ Restarted
        /\ NodeIsDropped /\ SomeoneLooks
    BY <1>1 DEF FactoryIInv
  <1>3. Points /\ Numbers /\ Removals
    BY TypeParts
  <1>4. QED
    BY <1>2, <1>3, KnownStep, JoiningStep, OnDeviceStep, RestartedStep, LooksStep,
       DroppedStep

-----------------------------------------------------------------------------
\* No node stays on a device that was unplugged after the callback was registered,
\* whether it was built before or after the removal: the removal is to be reported, a
\* reset will drop the node, or initialize is to run.  And the factory never ends up
\* without a device and without anything that looks for one, as long as the process
\* lives (StartDevice, publishTopics, reset, change_device_callback, initialize).
THEOREM FactoryNeverForgets == Spec => []NeverForgotten
  <1>1. FactoryIInv => NeverForgotten
    BY DEF FactoryIInv, NeverForgotten, NodeIsDropped, SomeoneLooks
  <1>2. QED
    BY FactoryInit, FactoryTyped, FactoryStep, <1>1, PTL DEF Spec

-----------------------------------------------------------------------------
(***************************************************************************)
(* RealsenseImu.  First what the proofs need about numbers and sequences:  *)
(* a set of numbers has a smallest element, which stands for induction     *)
(* over the loops of the union.                                            *)
(***************************************************************************)

\* Every set of numbers that is not empty has a smallest one.
LEMMA Smallest ==
  ASSUME NEW S \in SUBSET Nat, S # {}
  PROVE  \E n \in S : \A m \in S : n <= m
  <1> DEFINE Less == OpToRel(<, Nat)
  <1>1. \A m, n \in Nat : m < n => <<m, n>> \in Less
    BY DEF OpToRel
  <1>2. IsWellFoundedOn(Less, Nat)
    BY NatLessThanWellFounded, Zenon
  <1> HIDE DEF Less
  <1>3. PICK n \in S : \A m \in S : <<m, n>> \notin Less
    BY <1>2, WFMin, Zenon
  <1>4. \A m \in S : ~ (m < n)
    BY <1>1, <1>3
  <1>5. QED
    BY <1>3, <1>4

\* What holds of 0, and of i + 1 when it holds of i, holds up to n.
LEMMA UpTo ==
  ASSUME NEW n \in Nat, NEW T, 0 \in T, \A i \in 0..(n - 1) : i \in T => i + 1 \in T
  PROVE  \A i \in 0..n : i \in T
  <1> DEFINE S == {i \in 0..n : i \notin T}
  <1>1. S = {}
    <2>1. SUFFICES ASSUME S # {} PROVE FALSE
      OBVIOUS
    <2>2. S \in SUBSET Nat
      OBVIOUS
    <2> HIDE DEF S
    <2>3. PICK k \in S : \A m \in S : k <= m
      BY <2>1, <2>2, Smallest
    <2>4. k # 0 /\ k - 1 \in 0..(n - 1) /\ k - 1 \notin S
      BY <2>3 DEF S
    <2>5. QED
      BY <2>4 DEF S
  <1>2. QED
    BY <1>1

\* A rising list stays one when something larger is appended.
LEMMA AppendRising ==
  ASSUME NEW t \in Seq(Nat), NEW x \in Nat, NEW S, Node!Lists(t, S), \A y \in S : y < x
  PROVE  Append(t, x) \in Seq(Nat) /\ Node!Lists(Append(t, x), S \cup {x})
  <1>1. /\ Append(t, x) \in Seq(Nat) /\ Len(Append(t, x)) = Len(t) + 1
        /\ \A i \in 1..Len(t) : Append(t, x)[i] = t[i]
        /\ Append(t, x)[Len(t) + 1] = x
    OBVIOUS
  <1> DEFINE a == Append(t, x)
  <1> HIDE DEF a
  <1>2. \A i \in 1..Len(t) : t[i] \in S /\ t[i] \in Nat
    BY DEF Node!Lists
  <1>3. Node!Rising(a)
    BY <1>1, <1>2 DEF a, Node!Lists, Node!Rising
  <1>4. {a[i] : i \in 1..Len(a)} = S \cup {x}
    <2>1. \A i \in 1..Len(a) : a[i] \in S \cup {x}
      BY <1>1, <1>2 DEF a
    <2>2. ASSUME NEW y \in S PROVE \E i \in 1..Len(a) : y = a[i]
      <3>1. PICK i \in 1..Len(t) : y = t[i]
        BY DEF Node!Lists
      <3>2. i \in 1..Len(a) /\ a[i] = y
        BY <3>1, <1>1 DEF a
      <3>3. QED
        BY <3>2
    <2>3. Len(t) + 1 \in 1..Len(a) /\ a[Len(t) + 1] = x
      BY <1>1 DEF a
    <2>4. QED
      BY <2>1, <2>2, <2>3
  <1>5. QED
    BY <1>1, <1>3, <1>4 DEF a, Node!Lists


\* What the loop does with the reading i, and that g records its first n steps.
Counted(r, t, s, g, i) ==
  IF i = 0 THEN <<>> ELSE IF Node!Counts(r, t, s, i) THEN Append(g[i - 1], s[i]) ELSE g[i - 1]
Loop(r, t, s, g, n) == g = [i \in 0..n |-> Counted(r, t, s, g, i)]

\* A function that satisfies the equation of the loop takes its steps.
LEMMA LoopSteps ==
  ASSUME NEW r, NEW t, NEW s, NEW g, NEW n \in Nat
  PROVE  /\ Loop(r, t, s, g, n) => \A i \in 0..n : g[i] = Counted(r, t, s, g, i)
         /\ DOMAIN g = 0..n /\ g = [i \in DOMAIN g |-> g[i]]
              /\ (\A i \in 0..n : g[i] = Counted(r, t, s, g, i)) => Loop(r, t, s, g, n)
  <1>1. ASSUME Loop(r, t, s, g, n), NEW i \in 0..n PROVE g[i] = Counted(r, t, s, g, i)
    <2>1. [j \in 0..n |-> Counted(r, t, s, g, j)][i] = Counted(r, t, s, g, i)
      OBVIOUS
    <2>2. g[i] = [j \in 0..n |-> Counted(r, t, s, g, j)][i]
      BY <1>1, Zenon DEF Loop
    <2>3. QED
      BY <2>1, <2>2, Zenon
  <1>2. ASSUME DOMAIN g = 0..n, g = [i \in DOMAIN g |-> g[i]],
               \A i \in 0..n : g[i] = Counted(r, t, s, g, i)
        PROVE  Loop(r, t, s, g, n)
    BY <1>2 DEF Loop
  <1>3. QED
    BY <1>1, <1>2

\* There is a function that satisfies the equation of the loop of the union.
LEMMA LoopExists ==
  ASSUME NEW r, NEW t, NEW s, NEW n \in Nat
  PROVE  \E g : Loop(r, t, s, g, n)
  <1> DEFINE T == {k \in Nat : \E g : Loop(r, t, s, g, k)}
  <1>1. 0 \in T
    <2> DEFINE h == [i \in 0..0 |-> <<>>]
    <2>1. /\ DOMAIN h = 0..0 /\ h = [i \in DOMAIN h |-> h[i]]
          /\ \A i \in 0..0 : h[i] = Counted(r, t, s, h, i)
      BY DEF Counted
    <2> HIDE DEF h
    <2>2. Loop(r, t, s, h, 0)
      BY <2>1, LoopSteps
    <2>3. QED
      BY <2>2
  <1>2. ASSUME NEW k \in Nat, k \in T PROVE k + 1 \in T
    <2>1. PICK g : Loop(r, t, s, g, k)
      BY <1>2
    <2>2. \A i \in 0..k : g[i] = Counted(r, t, s, g, i)
      BY <2>1, LoopSteps
    <2> DEFINE h == [i \in 0..(k + 1) |-> IF i <= k THEN g[i] ELSE Counted(r, t, s, g, i)]
    <2>3. DOMAIN h = 0..(k + 1) /\ h = [i \in DOMAIN h |-> h[i]]
      OBVIOUS
    <2>4. /\ \A i \in 0..k : h[i] = g[i]
          /\ h[k + 1] = Counted(r, t, s, g, k + 1)
      OBVIOUS
    <2> HIDE DEF h
    <2>5. \A i \in 0..(k + 1) : Counted(r, t, s, h, i) = Counted(r, t, s, g, i)
      BY <2>4 DEF Counted
    <2>6. \A i \in 0..(k + 1) : h[i] = Counted(r, t, s, h, i)
      <3> TAKE i \in 0..(k + 1)
      <3>1. CASE i \in 0..k
        BY <3>1, <2>2, <2>4, <2>5
      <3>2. CASE i = k + 1
        BY <3>2, <2>4, <2>5
      <3>3. QED
        BY <3>1, <3>2
    <2>7. Loop(r, t, s, h, k + 1)
      BY <2>3, <2>6, LoopSteps
    <2>8. QED
      BY <2>7
  <1> HIDE DEF T
  <1>3. \A i \in 0..(n - 1) : i \in T => i + 1 \in T
    BY <1>2
  <1>4. n \in T
    BY <1>1, <1>3, UpTo
  <1>5. QED
    BY <1>4 DEF T

\* The loop of FillImuData_LinearInterpolation returns, in order and once each, the
\* gyroscope readings of the history that count.
LEMMA InterpolatedLists ==
  ASSUME NEW r, NEW t, NEW s \in Seq(Nat), Node!Rising(s)
  PROVE  /\ Node!Interpolated(r, t, s) \in Seq(Nat)
         /\ Node!Lists(Node!Interpolated(r, t, s), {s[i] : i \in {k \in 1..Len(s) :
                Node!Counts(r, t, s, k)}})
  <1> DEFINE N == Len(s)
             f == CHOOSE g : Loop(r, t, s, g, N)
  <1>0. N \in Nat /\ \A i \in 1..N : s[i] \in Nat
    OBVIOUS
  <1>2. Loop(r, t, s, f, N)
    BY <1>0, LoopExists, Zenon
  <1>3. Node!Interpolated(r, t, s) = f[N]
    BY Zenon DEF Node!Interpolated, Loop, Counted
  <1> HIDE DEF f
  <1>4. \A i \in 0..N : f[i] = Counted(r, t, s, f, i)
    BY <1>2, <1>0, LoopSteps
  <1> DEFINE Seen(n) == {s[i] : i \in {k \in 1..n : Node!Counts(r, t, s, k)}}
             T == {n \in Nat : f[n] \in Seq(Nat) /\ Node!Lists(f[n], Seen(n))}
  <1>5. 0 \in T
    <2>1. f[0] = <<>> /\ Seen(0) = {}
      BY <1>4, <1>0 DEF Counted
    <2>2. <<>> \in Seq(Nat) /\ Node!Lists(<<>>, {})
      BY DEF Node!Lists, Node!Rising
    <2>3. f[0] \in Seq(Nat) /\ Node!Lists(f[0], Seen(0))
      BY <2>1, <2>2, Zenon
    <2> HIDE DEF Seen
    <2>4. QED
      BY <2>3
  <1>6. ASSUME NEW n \in 0..(N - 1), n \in T PROVE n + 1 \in T
    <2>1. f[n] \in Seq(Nat) /\ Node!Lists(f[n], Seen(n)) /\ s[n + 1] \in Nat
      BY <1>6, <1>0
    <2>2. f[n + 1] = IF Node!Counts(r, t, s, n + 1) THEN Append(f[n], s[n + 1]) ELSE f[n]
      <3>1. n + 1 \in 0..N /\ n + 1 # 0 /\ (n + 1) - 1 = n
        BY <1>0
      <3>2. f[n + 1] = Counted(r, t, s, f, n + 1)
        BY <1>4, <3>1
      <3>3. QED
        BY <3>1, <3>2, Zenon DEF Counted
    <2>3. f[n + 1] \in Seq(Nat) /\ Node!Lists(f[n + 1], Seen(n + 1))
      <3>1. CASE Node!Counts(r, t, s, n + 1)
        <4>1. Seen(n + 1) = Seen(n) \cup {s[n + 1]}
          BY <3>1
        <4>2. \A y \in Seen(n) : y < s[n + 1]
          BY <1>0 DEF Node!Rising
        <4> HIDE DEF Seen, N, T
        <4>3. f[n + 1] = Append(f[n], s[n + 1])
          BY <2>2, <3>1
        <4>4. /\ Append(f[n], s[n + 1]) \in Seq(Nat)
              /\ Node!Lists(Append(f[n], s[n + 1]), Seen(n) \cup {s[n + 1]})
          BY <2>1, <4>2, AppendRising
        <4>5. QED
          BY <4>1, <4>3, <4>4, Zenon
      <3>2. CASE ~Node!Counts(r, t, s, n + 1)
        <4>1. Seen(n + 1) = Seen(n)
          BY <3>2
        <4>2. f[n + 1] = f[n]
          BY <2>2, <3>2
        <4>3. QED
          BY <4>1, <4>2, <2>1, Zenon
      <3>3. QED
        BY <3>1, <3>2
    <2>4. n + 1 \in Nat
      BY <1>0
    <2> HIDE DEF Seen
    <2>5. QED
      BY <2>3, <2>4
  <1>7. N \in T
    <2>0. \A i \in 0..(N - 1) : i \in T => i + 1 \in T
      BY <1>6, Zenon
    <2>1. N \in Nat
      OBVIOUS
    <2> HIDE DEF T, N
    <2>2. \A i \in 0..N : i \in T
      BY <1>5, <2>0, <2>1, UpTo
    <2>3. QED
      BY <2>1, <2>2
  <1>8. QED
    BY <1>7, <1>0, <1>3, Zenon

-----------------------------------------------------------------------------
\* The inductive invariant.

Elems(s) == {s[i] : i \in 1..Len(s)}
Below(S, T) == \A x \in S, y \in T : x < y
AccelAt(n) == n \in 1..Len(readings) /\ readings[n] = Node!Accel

\* What is published: IMU messages and images.
ImuItem   == [what : {"imu"}, id : Nat, at : Nat]
ImageItem == [what : {"image"}, id : Videos, at : Nat]
Items     == ImuItem \cup ImageItem
Typed ==
  /\ Node!TypeOK /\ Len(readings) <= MaxReadings /\ Len(times) = Len(readings)
  /\ out \in Seq(Items) /\ pending \in Seq(ImuItem)

\* The copy keeps the last accelerometer reading; the interpolation keeps the
\* last readings, from an accelerometer reading on unless nothing was united.
Base == Len(readings) - Len(history)
Kept ==
  /\ method = "copy" => (history # <<>>
       <=> \E a \in 1..Len(readings) : readings[a] = Node!Accel)
  /\ method = "linear" =>
       /\ Base >= 0
       /\ \A i \in 1..Len(history) : history[i] = Base + i
       /\ \A i \in 3..Len(history) : readings[Base + i] = Node!Gyro
       /\ Base > 0 => history # <<>> /\ readings[Base + 1] = Node!Accel

\* What the IMU thread has still to publish.
Batched ==
  /\ imu = "idle" => batch = <<>>
  /\ imu = "publish" => batch # <<>>

\* The messages in a sequence of what is published, in their order.
Carries(s, S) ==
  /\ \A i, j \in 1..Len(s) :
       i < j /\ s[i].what = "imu" /\ s[j].what = "imu" => s[i].id < s[j].id
  /\ S = {s[i].id : i \in {k \in 1..Len(s) : s[k].what = "imu"}}
Ids(s) == {s[i].id : i \in {k \in 1..Len(s) : s[k].what = "imu"}}

\* The messages are in three places, of which the first has the oldest ones.
Placed == imu # "stuck" =>
  /\ Carries(out, Ids(out)) /\ Carries(pending, Ids(pending)) /\ Node!Rising(batch)
  /\ Below(Ids(out), Ids(pending)) /\ Below(Ids(out) \cup Ids(pending), Elems(batch))
  /\ Ids(out) \cup Ids(pending) \cup Elems(batch) = Elems(united)

Timely(s) == \A i, j \in 1..Len(s) : i < j => s[i].at < s[j].at

\* Messages are held back only while the publisher is paused, and everything that
\* has arrived came before what arrives next.
Arrived ==
  /\ ~paused => pending = <<>>
  /\ \A i \in 1..Len(out) : out[i].at < Node!Now
  /\ \A i \in 1..Len(pending) : pending[i].at < Node!Now
  /\ \A v \in Videos : busy[v] < Node!Now
  /\ \A v \in sent : busy[v] # Node!None

\* While images come one at a time, the publisher is paused as long as one is
\* processed; what was published came before it, what is held back came after it.
OneAtATime == enabled /\ ~overlap =>
  /\ \A v, w \in Videos : busy[v] # Node!None /\ busy[w] # Node!None => v = w
  /\ paused <=> \E v \in Videos : busy[v] # Node!None
  /\ Timely(out) /\ Timely(pending)
  /\ \A v \in Videos : busy[v] # Node!None =>
       /\ \A i \in 1..Len(out) :
            out[i].at <= busy[v] /\ (v \notin sent => out[i].at < busy[v])
       /\ \A i \in 1..Len(pending) : busy[v] < pending[i].at

ImuIInv == Typed /\ Kept /\ Node!UnitedComplete /\ Batched /\ Placed /\ Arrived
  /\ OneAtATime

-----------------------------------------------------------------------------
\* Sequences of numbers and of what is published.

\* What is in a list to which something was appended.
LEMMA Appended ==
  ASSUME NEW X, NEW s \in Seq(X), NEW x \in X
  PROVE  /\ Append(s, x) \in Seq(X) /\ Len(Append(s, x)) = Len(s) + 1
         /\ \A i \in 1..Len(s) : Append(s, x)[i] = s[i] /\ s[i] \in X
         /\ Append(s, x)[Len(s) + 1] = x
  OBVIOUS

\* A list of members of a set is one of members of a larger set.
LEMMA Widened ==
  ASSUME NEW X, NEW Y, NEW s \in Seq(X),
         X \subseteq Y \/ \A i \in 1..Len(s) : s[i] \in Y
  PROVE  s \in Seq(Y)
  OBVIOUS

\* Where the elements of two lists are when the lists are joined.
LEMMA Joined ==
  ASSUME NEW X, NEW s \in Seq(X), NEW t \in Seq(X)
  PROVE  /\ s \o t \in Seq(X) /\ Len(s \o t) = Len(s) + Len(t)
         /\ \A i \in 1..Len(s) : (s \o t)[i] = s[i] /\ s[i] \in X
         /\ \A i \in 1..Len(t) : (s \o t)[Len(s) + i] = t[i] /\ t[i] \in X
         /\ \A k \in 1..Len(s \o t) :
              k \in 1..Len(s) \/ (k - Len(s) \in 1..Len(t) /\ (s \o t)[k] = t[k - Len(s)])
  OBVIOUS

\* Two rising lists, the second one above the first, make one rising list.
LEMMA JoinedLists ==
  ASSUME NEW s \in Seq(Nat), NEW t \in Seq(Nat), NEW S, NEW T,
         Node!Lists(s, S), Node!Lists(t, T), Below(S, T)
  PROVE  Node!Lists(s \o t, S \cup T)
  <1> DEFINE u == s \o t
  <1>1. /\ Len(u) = Len(s) + Len(t)
        /\ \A i \in 1..Len(s) : u[i] = s[i]
        /\ \A i \in 1..Len(t) : u[Len(s) + i] = t[i]
        /\ \A k \in 1..Len(u) : k \in 1..Len(s) \/ (k - Len(s) \in 1..Len(t)
             /\ u[k] = t[k - Len(s)])
    BY Joined
  <1>2. Len(s) \in Nat /\ Len(t) \in Nat
    OBVIOUS
  <1> HIDE DEF u
  <1>3. /\ \A i \in 1..Len(s) : s[i] \in S
        /\ \A i \in 1..Len(t) : t[i] \in T
    BY DEF Node!Lists
  <1>4. Node!Rising(u)
    <2> SUFFICES ASSUME NEW i \in 1..Len(u), NEW j \in 1..Len(u), i < j
                 PROVE  u[i] < u[j]
      BY DEF Node!Rising
    <2>1. CASE i \in 1..Len(s) /\ j \in 1..Len(s)
      BY <1>1, <2>1 DEF Node!Lists, Node!Rising
    <2>2. CASE i \in 1..Len(s) /\ j \notin 1..Len(s)
      BY <1>1, <1>3, <2>2 DEF Below
    <2>3. CASE i \notin 1..Len(s)
      <3>1. /\ i - Len(s) \in 1..Len(t) /\ u[i] = t[i - Len(s)]
            /\ j - Len(s) \in 1..Len(t) /\ u[j] = t[j - Len(s)]
            /\ i - Len(s) < j - Len(s)
        BY <1>1, <1>2, <2>3
      <3>2. QED
        BY <3>1 DEF Node!Lists, Node!Rising
    <2>4. QED
      BY <2>1, <2>2, <2>3
  <1>5. {u[i] : i \in 1..Len(u)} = S \cup T
    <2>1. \A i \in 1..Len(u) : u[i] \in S \cup T
      BY <1>1, <1>3
    <2>2. ASSUME NEW x \in S PROVE \E i \in 1..Len(u) : u[i] = x
      <3>1. PICK i \in 1..Len(s) : s[i] = x
        BY DEF Node!Lists
      <3>2. i \in 1..Len(u) /\ u[i] = x
        BY <1>1, <1>2, <3>1
      <3>3. QED
        BY <3>2
    <2>3. ASSUME NEW x \in T PROVE \E i \in 1..Len(u) : u[i] = x
      <3>1. PICK i \in 1..Len(t) : t[i] = x
        BY DEF Node!Lists
      <3>2. Len(s) + i \in 1..Len(u) /\ u[Len(s) + i] = x
        BY <1>1, <1>2, <3>1
      <3>3. QED
        BY <3>2
    <2>4. QED
      BY <2>1, <2>2, <2>3
  <1>6. QED
    BY <1>4, <1>5 DEF u, Node!Lists

\* A message that is appended is the last one that a list carries.
LEMMA AppendCarries ==
  ASSUME NEW s \in Seq(Items), NEW S, Carries(s, S)
  PROVE  /\ \A m \in ImuItem : Below(S, {m.id}) => Carries(Append(s, m), S \cup {m.id})
         /\ \A m \in ImageItem : Carries(Append(s, m), S)
  <1>0. /\ Len(s) \in Nat
        /\ \A m \in ImuItem : m \in Items /\ m.what = "imu"
        /\ \A m \in ImageItem : m \in Items /\ m.what = "image"
    BY DEF Items, ImuItem, ImageItem
  <1>1. ASSUME NEW m \in ImuItem, Below(S, {m.id})
        PROVE  Carries(Append(s, m), S \cup {m.id})
    <2> DEFINE u == Append(s, m)
    <2>1. /\ Len(u) = Len(s) + 1 /\ \A i \in 1..Len(s) : u[i] = s[i]
          /\ u[Len(s) + 1] = m
      BY <1>0, Appended
    <2> HIDE DEF u
    <2>2. \A i, j \in 1..Len(u) :
            i < j /\ u[i].what = "imu" /\ u[j].what = "imu" => u[i].id < u[j].id
      BY <1>0, <1>1, <2>1 DEF Carries, Below
    <2>3. {i \in 1..Len(u) : u[i].what = "imu"}
            = {i \in 1..Len(s) : s[i].what = "imu"} \cup {Len(s) + 1}
      BY <1>0, <2>1
    <2>4. {u[i].id : i \in {k \in 1..Len(u) : u[k].what = "imu"}} = S \cup {m.id}
      BY <2>1, <2>3 DEF Carries
    <2>5. QED
      BY <2>2, <2>4 DEF u, Carries
  <1>2. ASSUME NEW m \in ImageItem
        PROVE  Carries(Append(s, m), S)
    <2> DEFINE u == Append(s, m)
    <2>1. /\ Len(u) = Len(s) + 1 /\ \A i \in 1..Len(s) : u[i] = s[i]
          /\ u[Len(s) + 1] = m
      BY <1>0, Appended
    <2> HIDE DEF u
    <2>2. \A i, j \in 1..Len(u) :
            i < j /\ u[i].what = "imu" /\ u[j].what = "imu" => u[i].id < u[j].id
      BY <1>0, <2>1 DEF Carries
    <2>3. {i \in 1..Len(u) : u[i].what = "imu"} = {i \in 1..Len(s) : s[i].what = "imu"}
      BY <1>0, <2>1
    <2>4. {u[i].id : i \in {k \in 1..Len(u) : u[k].what = "imu"}} = S
      BY <2>1, <2>3 DEF Carries
    <2>5. QED
      BY <2>2, <2>4 DEF u, Carries
  <1>3. QED
    BY <1>1, <1>2

\* Two lists of messages, the second one above the first, make one.
LEMMA JoinedCarries ==
  ASSUME NEW s \in Seq(Items), NEW t \in Seq(Items), NEW S, NEW T,
         Carries(s, S), Carries(t, T), Below(S, T)
  PROVE  Carries(s \o t, S \cup T)
  <1> DEFINE u == s \o t
             P(q) == {i \in 1..Len(q) : q[i].what = "imu"}
  <1>1. /\ Len(u) = Len(s) + Len(t)
        /\ \A i \in 1..Len(s) : u[i] = s[i]
        /\ \A i \in 1..Len(t) : u[Len(s) + i] = t[i]
        /\ \A k \in 1..Len(u) : k \in 1..Len(s) \/ (k - Len(s) \in 1..Len(t)
             /\ u[k] = t[k - Len(s)])
    BY Joined
  <1>2. Len(s) \in Nat /\ Len(t) \in Nat
    OBVIOUS
  <1> HIDE DEF u
  <1>3. /\ \A i \in P(s) : s[i].id \in S
        /\ \A i \in P(t) : t[i].id \in T
    BY DEF Carries
  <1>4. ASSUME NEW i \in 1..Len(u), NEW j \in 1..Len(u), i < j,
               u[i].what = "imu", u[j].what = "imu"
        PROVE  u[i].id < u[j].id
    <2>1. CASE i \in 1..Len(s) /\ j \in 1..Len(s)
      BY <1>1, <1>4, <2>1 DEF Carries
    <2>2. CASE i \in 1..Len(s) /\ j \notin 1..Len(s)
      <3>1. u[i] = s[i] /\ j - Len(s) \in 1..Len(t) /\ u[j] = t[j - Len(s)]
        BY <1>1, <1>4, <2>2
      <3>2. s[i].id \in S /\ t[j - Len(s)].id \in T
        BY <1>3, <1>4, <2>2, <3>1
      <3>3. QED
        BY <3>1, <3>2 DEF Below
    <2>3. CASE i \notin 1..Len(s)
      <3>1. /\ i - Len(s) \in 1..Len(t) /\ u[i] = t[i - Len(s)]
            /\ j - Len(s) \in 1..Len(t) /\ u[j] = t[j - Len(s)]
            /\ i - Len(s) < j - Len(s)
        BY <1>1, <1>2, <1>4, <2>3
      <3>2. QED
        BY <3>1, <1>4 DEF Carries
    <2>4. QED
      BY <2>1, <2>2, <2>3
  <1>5. {u[i].id : i \in P(u)} = S \cup T
    <2>1. \A i \in P(u) : u[i].id \in S \cup T
      BY <1>1, <1>3
    <2>2. ASSUME NEW x \in S PROVE \E i \in P(u) : u[i].id = x
      <3>1. PICK i \in P(s) : s[i].id = x
        BY DEF Carries
      <3>2. i \in P(u) /\ u[i].id = x
        BY <1>1, <1>2, <3>1
      <3>3. QED
        BY <3>2
    <2>3. ASSUME NEW x \in T PROVE \E i \in P(u) : u[i].id = x
      <3>1. PICK i \in P(t) : t[i].id = x
        BY DEF Carries
      <3>2. Len(s) + i \in P(u) /\ u[Len(s) + i].id = x
        BY <1>1, <1>2, <3>1
      <3>3. QED
        BY <3>2
    <2>4. QED
      BY <2>1, <2>2, <2>3
  <1>6. QED
    BY <1>4, <1>5 DEF u, Carries

\* The messages made of a rising list of readings carry these readings.
LEMMA MessagesCarry ==
  ASSUME NEW b \in Seq(Nat), Node!Rising(b)
  PROVE  Node!Messages(b) \in Seq(Items) /\ Carries(Node!Messages(b), Elems(b))
  <1>1. /\ Len(b) \in Nat /\ Node!Messages(b) \in Seq(Items)
        /\ Len(Node!Messages(b)) = Len(b)
        /\ \A i \in 1..Len(b) : Node!Messages(b)[i].what = "imu"
             /\ Node!Messages(b)[i].id = b[i]
    BY DEF Node!Messages, Node!Item, Items, ImuItem
  <1>2. QED
    BY <1>1 DEF Carries, Node!Rising, Elems

\* A list in order of arrival stays one when something that came later is appended.
LEMMA AppendTimely ==
  ASSUME NEW s \in Seq(Items), NEW m \in Items, Timely(s),
         \A i \in 1..Len(s) : s[i].at < m.at
  PROVE  Timely(Append(s, m))
  <1>1. /\ Len(s) \in Nat /\ Len(Append(s, m)) = Len(s) + 1
        /\ \A i \in 1..Len(s) : Append(s, m)[i] = s[i]
        /\ Append(s, m)[Len(s) + 1] = m
    BY Appended
  <1>2. QED
    BY <1>1 DEF Timely

\* Two lists in order of arrival, the second one later, make one.
LEMMA JoinedTimely ==
  ASSUME NEW s \in Seq(Items), NEW t \in Seq(Items), Timely(s), Timely(t),
         \A i \in 1..Len(s), j \in 1..Len(t) : s[i].at < t[j].at
  PROVE  Timely(s \o t)
  <1> DEFINE u == s \o t
  <1>1. /\ Len(u) = Len(s) + Len(t)
        /\ \A i \in 1..Len(s) : u[i] = s[i]
        /\ \A k \in 1..Len(u) : k \in 1..Len(s) \/ (k - Len(s) \in 1..Len(t)
             /\ u[k] = t[k - Len(s)])
    BY Joined
  <1>2. Len(s) \in Nat /\ Len(t) \in Nat
    OBVIOUS
  <1> HIDE DEF u
  <1>3. ASSUME NEW i \in 1..Len(u), NEW j \in 1..Len(u), i < j
        PROVE  u[i].at < u[j].at
    <2>1. CASE i \in 1..Len(s) /\ j \in 1..Len(s)
      BY <1>1, <1>3, <2>1 DEF Timely
    <2>2. CASE i \in 1..Len(s) /\ j \notin 1..Len(s)
      BY <1>1, <1>3, <2>2
    <2>3. CASE i \notin 1..Len(s)
      <3>1. /\ i - Len(s) \in 1..Len(t) /\ u[i] = t[i - Len(s)]
            /\ j - Len(s) \in 1..Len(t) /\ u[j] = t[j - Len(s)]
            /\ i - Len(s) < j - Len(s)
        BY <1>1, <1>2, <1>3, <2>3
      <3>2. QED
        BY <3>1, <1>3 DEF Timely
    <2>4. QED
      BY <2>1, <2>2, <2>3
  <1>4. QED
    BY <1>3 DEF u, Timely

-----------------------------------------------------------------------------
\* What the IMU callback makes of a reading.

Preceded(r, n) == \E a \in 1..(n - 1) : r[a] = Node!Accel
OnTime(r, t, n) == \E a \in 1..(n - 1) :
  r[a] = Node!Accel /\ (\A b \in (a + 1)..(n - 1) : r[b] # Node!Accel) /\ t[n] >= t[a]
Followed(r, n) == \E a \in (n + 1)..Len(r) : r[a] = Node!Accel
Copied(r) == {n \in 1..Len(r) : r[n] = Node!Gyro /\ Preceded(r, n)}
Between(r, t) ==
  {n \in 1..Len(r) : r[n] = Node!Gyro /\ OnTime(r, t, n) /\ Followed(r, n)}
Dues(m, r, t) == IF m = "copy" THEN Copied(r) ELSE Between(r, t)

\* UnitedComplete, as a statement about lists.
LEMMA UnitesDues ==
  /\ Node!UnitedComplete <=> Node!Lists(united, Dues(method, readings, times))
  /\ Node!UnitedComplete' <=> Node!Lists(united', Dues(method', readings', times'))
  <1>1. {n \in 1..Len(readings) : Node!Due(n)} = Dues(method, readings, times)
    BY DEF Dues, Copied, Between, Node!Due, Node!Before, Node!InTime, Node!After,
           Node!LastAccel, Preceded, OnTime, Followed
  <1>2. {n \in 1..Len(readings') : Node!Due(n)'} = Dues(method', readings', times')
    BY DEF Dues, Copied, Between, Node!Due, Node!Before, Node!InTime, Node!After,
           Node!LastAccel, Preceded, OnTime, Followed
  <1>3. QED
    BY <1>1, <1>2, Zenon DEF Node!UnitedComplete

\* The next reading gets the next number.
LEMMA Reads ==
  ASSUME Typed, NEW kind \in {Node!Gyro, Node!Accel}, NEW time \in Nat,
         Node!imu_callback_sync(kind, time)
  PROVE  LET n == Len(readings) + 1
         IN  /\ n \in 1..MaxReadings /\ Len(readings') = n /\ Len(readings) \in Nat
             /\ readings' \in Seq({Node!Gyro, Node!Accel})
             /\ readings'[n] = kind
             /\ \A i \in 1..Len(readings) : readings'[i] = readings[i]
             /\ times' \in Seq(Nat) /\ Len(times') = n
             /\ \A i \in 1..Len(readings) : times'[i] = times[i]
             /\ method' = method /\ method \in {"copy", "linear"}
             /\ united' = united \o batch'
             /\ united \in Seq(1..MaxReadings) /\ history \in Seq(1..MaxReadings)
  <1>1. /\ readings' = Append(readings, kind) /\ times' = Append(times, time)
        /\ Len(readings) < MaxReadings /\ method' = method /\ united' = united \o batch'
    BY DEF Node!imu_callback_sync, Node!params
  <1>2. /\ readings \in Seq({Node!Gyro, Node!Accel}) /\ times \in Seq(Nat)
        /\ Len(times) = Len(readings) /\ Len(readings) \in Nat
        /\ method \in {"copy", "linear"}
        /\ united \in Seq(1..MaxReadings) /\ history \in Seq(1..MaxReadings)
    BY DEF Typed, Node!TypeOK
  <1>3. /\ readings' \in Seq({Node!Gyro, Node!Accel}) /\ Len(readings') = Len(readings) + 1
        /\ \A i \in 1..Len(readings) : readings'[i] = readings[i]
        /\ readings'[Len(readings) + 1] = kind
    BY <1>1, <1>2, Appended
  <1>4. /\ times' \in Seq(Nat) /\ Len(times') = Len(readings) + 1
        /\ \A i \in 1..Len(readings) : times'[i] = times[i]
    BY <1>1, <1>2, Appended
  <1>5. QED
    BY <1>1, <1>2, <1>3, <1>4, ImuAssumption

\* FillImuData_Copy unites what is due after one more reading.
LEMMA CopyUnites ==
  ASSUME Typed, Kept, method = "copy", NEW kind \in {Node!Gyro, Node!Accel},
         NEW time \in Nat, Node!imu_callback_sync(kind, time)
  PROVE  LET old == Copied(readings)
             all == Copied(readings')
         IN  /\ Kept' /\ history' \in Seq(1..MaxReadings) /\ batch' \in Seq(1..MaxReadings)
             /\ Node!Lists(batch', all \ old) /\ old \subseteq all /\ Below(old, all \ old)
  <1> DEFINE n == Len(readings) + 1
             old == Copied(readings)
             all == Copied(readings')
             met == kind = Node!Gyro /\ history # <<>>
  <1>1. /\ n \in 1..MaxReadings /\ Len(readings') = n /\ Len(readings) \in Nat
        /\ readings'[n] = kind
        /\ \A i \in 1..Len(readings) : readings'[i] = readings[i]
        /\ method' = "copy" /\ history \in Seq(1..MaxReadings)
    BY Reads
  <1>2. Node!FillImuData_Copy(n)
    <2>1. Node!imu_callback_sync(kind, time) => IF method = "copy"
            THEN Node!FillImuData_Copy(Len(readings'))
                                     ELSE Node!FillImuData_LinearInterpolation(Len(readings'))
      BY DEF Node!imu_callback_sync
    <2>2. QED
      BY <1>1, <2>1
  <1>3. history # <<>> <=> Preceded(readings, n)
    BY <1>1 DEF Kept, Preceded
  <1>4. \A k \in 1..n : Preceded(readings', k) <=> Preceded(readings, k)
    <2>1. \A k \in 1..n : \A a \in 1..(k - 1) : readings'[a] = readings[a]
      BY <1>1
    <2>2. QED
      BY <2>1, Zenon DEF Preceded
  <1>5. 1..n = 1..Len(readings) \cup {n} /\ n \notin 1..Len(readings)
    BY <1>1
  <1>6. /\ old = {k \in 1..Len(readings) : readings[k] = Node!Gyro /\ Preceded(readings, k)}
        /\ all = {k \in 1..n : readings'[k] = Node!Gyro /\ Preceded(readings', k)}
    BY <1>1 DEF Copied
  <1>7. \A k \in 1..Len(readings) : k \in all <=> k \in old
    <2> HIDE DEF old, all, n
    <2>1. QED
      BY <1>1, <1>4, <1>5, <1>6
  <1>8. n \in all <=> met
    <2> HIDE DEF all, n
    <2>1. QED
      BY <1>1, <1>3, <1>4, <1>5, <1>6
  <1>9. /\ all \ old = IF met THEN {n} ELSE {}
        /\ old \subseteq all /\ old \subseteq 1..Len(readings)
    <2>1. old \subseteq 1..Len(readings) /\ all \subseteq 1..n
      BY <1>6
    <2> HIDE DEF old, all, met, n
    <2>2. QED
      BY <1>5, <1>7, <1>8, <2>1
  <1>10. /\ Node!Lists(<<>>, {}) /\ <<>> \in Seq(1..MaxReadings)
         /\ Node!Lists(<<n>>, {n}) /\ <<n>> \in Seq(1..MaxReadings) /\ <<n>> # <<>>
    BY <1>1 DEF Node!Lists, Node!Rising
  <1>11. /\ kind = Node!Gyro => history' = history /\ batch' = IF history = <<>>
              THEN <<>> ELSE <<n>>
         /\ kind = Node!Accel => history' = <<n>> /\ batch' = <<>>
    BY <1>1, <1>2 DEF Node!FillImuData_Copy, Node!Gyro, Node!Accel
  <1>12. Kept'
    <2>1. (\E a \in 1..n : readings'[a] = Node!Accel) <=> kind = Node!Accel
            \/ history # <<>>
      <3>1. (\E a \in 1..Len(readings) : readings[a] = Node!Accel) <=> history # <<>>
        BY DEF Kept
      <3> HIDE DEF n
      <3>2. QED
        BY <1>1, <1>5, <3>1
    <2>2. history' # <<>> <=> kind = Node!Accel \/ history # <<>>
      BY <1>10, <1>11 DEF Node!Gyro, Node!Accel
    <2>3. QED
      BY <1>1, <2>1, <2>2 DEF Kept
  <1>13. Node!Lists(batch', all \ old) /\ batch' \in Seq(1..MaxReadings)
    BY <1>9, <1>10, <1>11, Zenon
  <1>14. Below(old, all \ old)
    <2> HIDE DEF old, all, met
    <2>1. QED
      BY <1>1, <1>9 DEF Below
  <1>15. QED
    BY <1>1, <1>9, <1>10, <1>11, <1>12, <1>13, <1>14

\* The same for the interpolation, of readings r of which the last ones, from
\* base + 1 on, are kept, and one more.
KeptFrom(r, base) ==
  /\ base \in 0..Len(r)
  /\ \A k \in (base + 3)..Len(r) : r[k] = Node!Gyro
  /\ base > 0 => base < Len(r) /\ r[base + 1] = Node!Accel

\* What one more reading changes for the readings before it.
LEMMA OneMore ==
  ASSUME NEW r \in Seq({Node!Gyro, Node!Accel}), NEW kind \in {Node!Gyro, Node!Accel},
         NEW t, NEW tk, \A k \in 1..Len(r) : tk[k] = t[k]
  PROVE  LET rk == Append(r, kind)
             n  == Len(r) + 1
         IN  /\ Len(r) \in Nat /\ Len(rk) = n /\ rk[n] = kind
             /\ 1..n = 1..Len(r) \cup {n} /\ n \notin 1..Len(r)
             /\ \A k \in 1..Len(r) : rk[k] = r[k] /\ r[k] \in {Node!Gyro, Node!Accel}
             /\ \A k \in 1..Len(r) : OnTime(rk, tk, k) <=> OnTime(r, t, k)
             /\ \A k \in 1..n : Followed(rk, k) <=> Followed(r, k) \/ (kind = Node!Accel
                  /\ k < n)
             /\ ~Followed(r, n)
  <1> DEFINE rk == Append(r, kind)
             n  == Len(r) + 1
  <1>1. /\ Len(r) \in Nat /\ Len(rk) = n /\ rk[n] = kind
        /\ \A k \in 1..Len(r) : rk[k] = r[k] /\ r[k] \in {Node!Gyro, Node!Accel}
    OBVIOUS
  <1>2. 1..n = 1..Len(r) \cup {n} /\ n \notin 1..Len(r)
    BY <1>1
  <1> HIDE DEF rk
  <1>3. ASSUME NEW k \in 1..Len(r) PROVE OnTime(rk, tk, k) <=> OnTime(r, t, k)
    <2>1. \A a \in 1..(k - 1) : rk[a] = r[a] /\ tk[a] = t[a]
      BY <1>1
    <2>2. \A a \in 1..(k - 1) : \A b \in (a + 1)..(k - 1) : rk[b] = r[b]
      BY <1>1
    <2>3. tk[k] = t[k]
      OBVIOUS
    <2>4. QED
      BY <2>1, <2>2, <2>3, Zenon DEF OnTime
  <1>4. ASSUME NEW k \in 1..n
        PROVE  Followed(rk, k) <=> Followed(r, k) \/ (kind = Node!Accel /\ k < n)
    <2>1. \A a \in (k + 1)..n : a \in (k + 1)..Len(r) \/ (a = n /\ k < n)
      BY <1>1
    <2>2. \A a \in (k + 1)..Len(r) : a \in (k + 1)..n /\ rk[a] = r[a]
      BY <1>1
    <2>3. k < n => n \in (k + 1)..n
      BY <1>1
    <2> HIDE DEF n
    <2>4. QED
      BY <1>1, <2>1, <2>2, <2>3, Zenon DEF Followed
  <1>5. ~Followed(r, n)
    BY <1>1 DEF Followed
  <1>6. QED
    BY <1>1, <1>2, <1>3, <1>4, <1>5 DEF rk

\* The gyroscope readings that are due are before the readings that are kept.
LEMMA OldDues ==
  ASSUME NEW r \in Seq({Node!Gyro, Node!Accel}), NEW t, NEW base, KeptFrom(r, base)
  PROVE  Between(r, t) = {k \in 1..base : r[k] = Node!Gyro /\ OnTime(r, t, k)}
  <1>0. Len(r) \in Nat /\ base \in Nat /\ base <= Len(r) /\ Node!Gyro # Node!Accel
    BY DEF KeptFrom, Node!Gyro, Node!Accel
  <1>1. ASSUME NEW k \in Between(r, t) PROVE k \in 1..base
    <2>1. k \in 1..Len(r) /\ r[k] = Node!Gyro /\ OnTime(r, t, k) /\ Followed(r, k)
      BY DEF Between
    <2>2. PICK b \in (k + 1)..Len(r) : r[b] = Node!Accel
      BY <2>1 DEF Followed
    <2>3. b < base + 3
      BY <1>0, <2>1, <2>2 DEF KeptFrom
    <2>4. SUFFICES ASSUME k > base PROVE FALSE
      BY <1>0, <2>1
    <2>5. k = base + 1
      BY <1>0, <2>1, <2>2, <2>3, <2>4
    <2>6. base = 0
      BY <1>0, <2>1, <2>5 DEF KeptFrom
    <2>7. QED
      BY <2>1, <2>5, <2>6 DEF OnTime
  <1>2. ASSUME NEW k \in 1..base PROVE Followed(r, k) /\ k \in 1..Len(r)
    <2>1. base > 0 /\ base + 1 \in (k + 1)..Len(r) /\ r[base + 1] = Node!Accel
            /\ k \in 1..Len(r)
      BY <1>0 DEF KeptFrom
    <2>2. QED
      BY <2>1 DEF Followed
  <1>3. QED
    BY <1>1, <1>2 DEF Between

\* A gyroscope reading makes nothing due.
LEMMA GyroAddsNothing ==
  ASSUME NEW r \in Seq({Node!Gyro, Node!Accel}), NEW t, NEW tk,
         \A k \in 1..Len(r) : tk[k] = t[k]
  PROVE  Between(Append(r, Node!Gyro), tk) = Between(r, t)
  <1> DEFINE rk == Append(r, Node!Gyro)
             n  == Len(r) + 1
  <1>1. /\ Len(rk) = n /\ 1..n = 1..Len(r) \cup {n}
        /\ \A k \in 1..Len(r) : rk[k] = r[k]
        /\ \A k \in 1..Len(r) : OnTime(rk, tk, k) <=> OnTime(r, t, k)
        /\ \A k \in 1..n : Followed(rk, k) <=> Followed(r, k)
        /\ ~Followed(r, n)
    <2>1. Node!Gyro \in {Node!Gyro, Node!Accel} /\ Node!Gyro # Node!Accel
      BY DEF Node!Gyro, Node!Accel
    <2>2. QED
      BY <2>1, OneMore
  <1> HIDE DEF rk, n
  <1>2. ASSUME NEW k \in 1..n
        PROVE  k \in Between(rk, tk) <=> k \in Between(r, t)
    <2>1. CASE k = n
      BY <1>1, <2>1 DEF Between
    <2>2. CASE k \in 1..Len(r)
      BY <1>1, <2>2 DEF Between
    <2>3. QED
      BY <1>1, <2>1, <2>2
  <1>3. Between(rk, tk) \subseteq 1..n /\ Between(r, t) \subseteq 1..n
    BY <1>1 DEF Between
  <1>4. QED
    BY <1>2, <1>3 DEF rk

\* An accelerometer reading makes due the gyroscope readings that are kept, unless
\* they are older than the accelerometer reading before them.
Adds(r, t, base, rk, tk) ==
  LET old == Between(r, t)
      all == Between(rk, tk)
  IN  /\ old \subseteq all /\ Below(old, all \ old)
      /\ all \ old = {k \in (base + 1)..Len(r) : r[k] = Node!Gyro /\ OnTime(r, t, k)}
LEMMA AccelAdds ==
  ASSUME NEW r \in Seq({Node!Gyro, Node!Accel}), NEW base, KeptFrom(r, base),
         NEW rk, rk = Append(r, Node!Accel),
         NEW t, NEW tk, \A k \in 1..Len(r) : tk[k] = t[k]
  PROVE  Adds(r, t, base, rk, tk)
  <1> DEFINE n   == Len(r) + 1
             old == Between(r, t)
             all == Between(rk, tk)
             met == {k \in 1..Len(r) : r[k] = Node!Gyro /\ OnTime(r, t, k)}
  <1>0. Len(r) \in Nat /\ base \in Nat /\ base <= Len(r) /\ Node!Gyro # Node!Accel
    BY DEF KeptFrom, Node!Gyro, Node!Accel
  <1>1. /\ Len(rk) = n /\ 1..n = 1..Len(r) \cup {n} /\ rk[n] = Node!Accel
        /\ \A k \in 1..Len(r) : rk[k] = r[k]
        /\ \A k \in 1..Len(r) : OnTime(rk, tk, k) <=> OnTime(r, t, k)
        /\ \A k \in 1..n : Followed(rk, k) <=> Followed(r, k) \/ k < n
    BY OneMore
  <1>2. all = met
    <2>1. \A k \in 1..Len(r) : k \in 1..n /\ k < n
      BY <1>0
    <2> HIDE DEF n
    <2>2. QED
      BY <1>0, <1>1, <2>1 DEF Between
  <1>3. old = {k \in 1..base : r[k] = Node!Gyro /\ OnTime(r, t, k)}
    BY OldDues
  <1> HIDE DEF old, all, n
  <1>4. old \subseteq all /\ all \ old = {k \in (base + 1)..Len(r) : r[k] = Node!Gyro
          /\ OnTime(r, t, k)}
    BY <1>0, <1>2, <1>3
  <1>5. Below(old, all \ old)
    BY <1>0, <1>3, <1>4 DEF Below
  <1>6. QED
    BY <1>4, <1>5 DEF old, all, Adds

\* These are the readings that the loop counts.
CountsAdded(r, t, base, rk, tk, s) ==
  /\ Node!Rising(s)
  /\ {s[i] : i \in {k \in 1..Len(s) : Node!Counts(rk, tk, s, k)}}
       = {k \in (base + 1)..Len(r) : r[k] = Node!Gyro /\ OnTime(r, t, k)}
LEMMA CountedDues ==
  ASSUME NEW r \in Seq({Node!Gyro, Node!Accel}), NEW base, KeptFrom(r, base),
         NEW rk, rk = Append(r, Node!Accel),
         NEW t, NEW tk, \A k \in 1..Len(r) : tk[k] = t[k],
         NEW s \in Seq(Nat), base + Len(s) = Len(r) + 1, \A i \in 1..Len(s) :
             s[i] = base + i
  PROVE  CountsAdded(r, t, base, rk, tk, s)
  <1> DEFINE F  == {i \in 1..Len(s) : Node!Counts(rk, tk, s, i)}
             D  == {k \in (base + 1)..Len(r) : r[k] = Node!Gyro /\ OnTime(r, t, k)}
  <1>0. Len(r) \in Nat /\ Len(s) \in Nat /\ base \in Nat /\ base <= Len(r)
          /\ Node!Gyro # Node!Accel
    BY DEF KeptFrom, Node!Gyro, Node!Accel
  <1>1. rk[Len(r) + 1] = Node!Accel /\ \A k \in 1..Len(r) : rk[k] = r[k]
    BY OneMore
  <1>2. Node!Rising(s)
    BY <1>0 DEF Node!Rising
  <1>3. ASSUME NEW i \in F PROVE s[i] \in D
    <2>1. i \in 1..Len(s) /\ s[i] = base + i /\ rk[base + i] = Node!Gyro
      BY DEF Node!Counts
    <2>2. PICK j \in 1..(i - 1) :
             /\ rk[s[j]] = Node!Accel /\ (\A k \in (j + 1)..(i - 1) : rk[s[k]] # Node!Accel)
             /\ tk[s[i]] >= tk[s[j]]
      BY DEF Node!Counts
    <2>3. i # Len(s)
      BY <1>0, <1>1, <2>1
    <2>4. base + i \in (base + 1)..Len(r) /\ base + i \in 1..Len(r)
      BY <1>0, <2>1, <2>3
    <2>5. j \in 1..Len(s) /\ s[j] = base + j /\ base + j \in 1..(base + i - 1)
            /\ base + j \in 1..Len(r)
      BY <1>0, <2>1, <2>2, <2>4
    <2>6. r[base + i] = Node!Gyro /\ r[base + j] = Node!Accel
      BY <1>1, <2>1, <2>2, <2>4, <2>5
    <2>7. OnTime(r, t, base + i)
      <3>1. base + j \in 1..((base + i) - 1) /\ r[base + j] = Node!Accel
        BY <1>0, <2>1, <2>5, <2>6
      <3>2. ASSUME NEW b \in ((base + j) + 1)..((base + i) - 1) PROVE r[b] # Node!Accel
        <4>1. /\ b - base \in (j + 1)..(i - 1) /\ b - base \in 1..Len(s)
              /\ base + (b - base) = b /\ b \in 1..Len(r)
          BY <1>0, <2>1, <2>4, <2>5
        <4>2. s[b - base] = b
          BY <4>1
        <4>3. QED
          BY <1>1, <2>2, <4>1, <4>2
      <3>3. t[base + i] >= t[base + j]
        BY <2>1, <2>2, <2>4, <2>5
      <3>4. QED
        BY <3>1, <3>2, <3>3, Zenon DEF OnTime
    <2>8. QED
      BY <2>1, <2>4, <2>6, <2>7
  <1>4. ASSUME NEW k \in D PROVE \E i \in F : s[i] = k
    <2>1. /\ k \in (base + 1)..Len(r) /\ k \in 1..Len(r) /\ r[k] = Node!Gyro
          /\ rk[k] = Node!Gyro
          /\ OnTime(r, t, k)
      BY <1>0, <1>1
    <2>2. k - base \in 1..Len(s) /\ base + (k - base) = k /\ s[k - base] = k
      <3>1. k \in Nat /\ k >= base + 1 /\ k <= Len(r) /\ base + Len(s) = Len(r) + 1
        BY <1>0, <2>1
      <3>2. k - base \in 1..Len(s) /\ base + (k - base) = k
        BY <1>0, <3>1
      <3>3. QED
        BY <3>2
    <2>3. PICK a \in 1..(k - 1) :
             /\ r[a] = Node!Accel /\ (\A b \in (a + 1)..(k - 1) : r[b] # Node!Accel)
             /\ t[k] >= t[a]
      BY <2>1 DEF OnTime
    <2>4. a > base
      <3>1. CASE base = 0
        BY <1>0, <2>1, <3>1
      <3>2. CASE base > 0
        <4>1. r[base + 1] = Node!Accel
          BY <3>2 DEF KeptFrom
        <4>2. base + 1 # k
          BY <1>0, <2>1, <4>1
        <4>3. a <= base => base + 1 \in (a + 1)..(k - 1)
          BY <1>0, <2>1, <4>2
        <4>4. QED
          BY <1>0, <2>3, <4>1, <4>3
      <3>3. QED
        BY <1>0, <3>1, <3>2
    <2>5. /\ a - base \in 1..(k - base - 1) /\ a - base \in 1..Len(s)
          /\ base + (a - base) = a /\ a \in 1..Len(r)
      BY <1>0, <2>1, <2>2, <2>3, <2>4
    <2>6. s[a - base] = a /\ rk[a] = Node!Accel
      BY <1>1, <2>3, <2>5
    <2>7. ASSUME NEW l \in (a - base + 1)..(k - base - 1) PROVE rk[s[l]] # Node!Accel
      <3>1. /\ l \in 1..Len(s) /\ base + l \in (a + 1)..(k - 1) /\ base + l \in 1..Len(r)
        BY <1>0, <2>1, <2>2, <2>5
      <3>2. s[l] = base + l
        BY <3>1
      <3>3. QED
        BY <1>1, <2>3, <3>1, <3>2
    <2>8. tk[s[k - base]] >= tk[s[a - base]]
      BY <2>1, <2>2, <2>3, <2>5, <2>6
    <2>9. Node!Counts(rk, tk, s, k - base)
      BY <2>1, <2>2, <2>5, <2>6, <2>7, <2>8, Zenon DEF Node!Counts
    <2>10. QED
      BY <2>2, <2>9
  <1> HIDE DEF F, D
  <1>5. {s[i] : i \in F} = D
    BY <1>3, <1>4
  <1>6. QED
    BY <1>2, <1>5, Zenon DEF F, D, CountsAdded

\* FillImuData_LinearInterpolation unites what is due after one more reading.
LEMMA LinearUnites ==
  ASSUME Typed, Kept, method = "linear", NEW kind \in {Node!Gyro, Node!Accel},
         NEW time \in Nat, Node!imu_callback_sync(kind, time)
  PROVE  LET old == Between(readings, times)
             all == Between(readings', times')
         IN  /\ Kept' /\ history' \in Seq(1..MaxReadings) /\ batch' \in Seq(1..MaxReadings)
             /\ Node!Lists(batch', all \ old) /\ old \subseteq all /\ Below(old, all \ old)
  <1> DEFINE n    == Len(readings) + 1
             kept == Append(history, n)
             old  == Between(readings, times)
             all  == Between(readings', times')
             full == kind = Node!Accel /\ Len(kept) >= 3
  <1>1. /\ n \in 1..MaxReadings /\ Len(readings') = n /\ Len(readings) \in Nat
        /\ readings'[n] = kind
        /\ \A i \in 1..Len(readings) : readings'[i] = readings[i]
        /\ method' = "linear" /\ history \in Seq(1..MaxReadings)
        /\ \A i \in 1..Len(readings) : times'[i] = times[i]
        /\ readings \in Seq({Node!Gyro, Node!Accel}) /\ readings' = Append(readings, kind)
        /\ Node!Gyro # Node!Accel
    BY Reads DEF Typed, Node!TypeOK, Node!imu_callback_sync, Node!Gyro, Node!Accel
  <1>2. Node!FillImuData_LinearInterpolation(n)
    <2>1. Node!imu_callback_sync(kind, time) => IF method = "copy"
            THEN Node!FillImuData_Copy(Len(readings'))
                                     ELSE Node!FillImuData_LinearInterpolation(Len(readings'))
      BY DEF Node!imu_callback_sync
    <2>2. QED
      BY <1>1, <2>1
  <1>3. /\ full => history' = <<n>> /\ batch' = Node!Interpolated(readings', times', kept)
        /\ ~full => history' = kept /\ batch' = <<>>
    BY <1>1, <1>2 DEF Node!FillImuData_LinearInterpolation
  <1>4. /\ Len(history) \in Nat /\ Base \in Nat /\ Base = Len(readings) - Len(history)
        /\ \A i \in 1..Len(history) : history[i] = Base + i
        /\ \A i \in 3..Len(history) : readings[Base + i] = Node!Gyro
        /\ Base > 0 => Len(history) > 0 /\ readings[Base + 1] = Node!Accel
    BY <1>1 DEF Kept, Base
  <1>5. /\ kept \in Seq(1..MaxReadings) /\ Len(kept) = Len(history) + 1
        /\ Base + Len(kept) = n
        /\ \A i \in 1..Len(history) : kept[i] = history[i]
        /\ kept[Len(history) + 1] = n
    BY <1>1, <1>4, Appended
  <1> HIDE DEF kept
  <1>6. \A i \in 1..Len(kept) : kept[i] = Base + i
    <2>1. \A i \in 1..Len(kept) : i \in 1..Len(history) \/ i = Len(history) + 1
      BY <1>4, <1>5
    <2>2. QED
      BY <1>4, <1>5, <2>1
  <1>7. KeptFrom(readings, Base)
    <2>1. ASSUME NEW k \in (Base + 3)..Len(readings) PROVE readings[k] = Node!Gyro
      <3>1. k - Base \in 3..Len(history) /\ k = Base + (k - Base)
        BY <1>1, <1>4
      <3>2. QED
        BY <1>4, <3>1
    <2>2. QED
      BY <1>1, <1>4, <2>1 DEF KeptFrom
  <1>8. ASSUME kind = Node!Accel
         PROVE  /\ old \subseteq all /\ Below(old, all \ old)
                /\ all \ old = {k \in (Base + 1)..Len(readings) : readings[k] = Node!Gyro
                     /\ OnTime(readings, times, k)}
    <2>1. /\ readings \in Seq({Node!Gyro, Node!Accel}) /\ readings' = Append(readings, Node!Accel)
          /\ \A i \in 1..Len(readings) : times'[i] = times[i]
      BY <1>1, <1>8
    <2>2. Adds(readings, times, Base, readings', times')
      BY <1>7, <2>1, AccelAdds
    <2>3. QED
      BY <2>2, Zenon DEF Adds
  <1>9. CASE full
    <2>1. Kept' /\ history' \in Seq(1..MaxReadings)
      <3>1. /\ history' = <<n>> /\ Len(history') = 1 /\ history'[1] = n
            /\ history' \in Seq(1..MaxReadings) /\ history' # <<>>
        <4>1. \A x \in 1..MaxReadings : /\ <<x>> \in Seq(1..MaxReadings) /\ <<x>> # <<>>
                                        /\ Len(<<x>>) = 1 /\ <<x>>[1] = x
          OBVIOUS
        <4>2. history' = <<n>>
          BY <1>3, <1>9
        <4> HIDE DEF n
        <4>3. QED
          BY <1>1, <4>1, <4>2
      <3>2. Base' = n - 1
        BY <1>1, <3>1 DEF Base
      <3>3. QED
        BY <1>1, <1>9, <3>1, <3>2 DEF Kept
    <2>2. /\ old \subseteq all /\ Below(old, all \ old)
          /\ all \ old = {k \in (Base + 1)..Len(readings) : readings[k] = Node!Gyro
               /\ OnTime(readings, times, k)}
      BY <1>9, <1>8
    <2>5. /\ Node!Interpolated(readings', times', kept) \in Seq(Nat)
          /\ Node!Lists(Node!Interpolated(readings', times', kept), all \ old)
      <3>1. kept \in Seq(Nat)
        BY <1>5, 1..MaxReadings \subseteq Nat, Widened
      <3>2. /\ Node!Rising(kept)
            /\ {kept[i] : i \in {k \in 1..Len(kept) :
                   Node!Counts(readings', times', kept, k)}} = all \ old
        <4>1. /\ readings' = Append(readings, Node!Accel)
              /\ Base + Len(kept) = Len(readings) + 1
              /\ readings \in Seq({Node!Gyro, Node!Accel})
          BY <1>1, <1>5, <1>9
        <4> DEFINE D == {k \in (Base + 1)..Len(readings) : readings[k] = Node!Gyro
          /\ OnTime(readings, times, k)}
        <4>2. /\ Node!Rising(kept)
              /\ {kept[i] : i \in {k \in 1..Len(kept) :
                     Node!Counts(readings', times', kept, k)}} = D
          <5>1. \A i \in 1..Len(readings) : times'[i] = times[i]
            BY <1>1
          <5>2. CountsAdded(readings, times, Base, readings', times', kept)
            BY <1>6, <1>7, <3>1, <4>1, <5>1, CountedDues
          <5>3. QED
            BY <5>2, Zenon DEF CountsAdded
        <4>3. all \ old = D
          BY <2>2, Zenon
        <4>4. QED
          BY <4>1, <4>2, <4>3, Zenon
      <3>3. /\ Node!Interpolated(readings', times', kept) \in Seq(Nat)
            /\ Node!Lists(Node!Interpolated(readings', times', kept),
                     {kept[i] : i \in {k \in 1..Len(kept) :
                                           Node!Counts(readings', times', kept, k)}})
        BY <3>1, <3>2, InterpolatedLists
      <3>4. QED
        BY <3>2, <3>3, Zenon
    <2>6. Node!Lists(batch', all \ old) /\ batch' \in Seq(Nat)
      BY <1>3, <1>9, <2>5, Zenon
    <2>7. batch' \in Seq(1..MaxReadings)
      <3>1. \A i \in 1..Len(batch') : batch'[i] \in all \ old
        BY <2>6 DEF Node!Lists
      <3>2. all \ old \subseteq 1..MaxReadings
        <4>1. (Base + 1)..Len(readings) \subseteq 1..MaxReadings
          BY <1>1, <1>4, ImuAssumption
        <4> HIDE DEF all, old
        <4>2. QED
          BY <2>2, <4>1
      <3> HIDE DEF all, old
      <3>3. \A i \in 1..Len(batch') : batch'[i] \in 1..MaxReadings
        BY <3>1, <3>2
      <3>4. QED
        BY <2>6, <3>3, Widened
    <2>8. QED
      BY <2>1, <2>2, <2>6, <2>7
  <1>10. CASE ~full
    <2>1. /\ history' = kept /\ batch' = <<>> /\ <<>> \in Seq(1..MaxReadings)
          /\ Node!Lists(<<>>, {})
      BY <1>3, <1>10 DEF Node!Lists, Node!Rising
    <2>2. Base' = Base
      <3>1. Len(history') = Len(history) + 1
        BY <1>5, <2>1
      <3>2. QED
        BY <1>1, <1>4, <3>1 DEF Base
    <2>3. Kept'
      <3>1. \A i \in 1..Len(kept) : kept[i] = Base + i
        BY <1>6
      <3>2. ASSUME NEW i \in 3..Len(kept) PROVE readings'[Base + i] = Node!Gyro
        <4>1. CASE i \in 3..Len(history)
          <5>1. Base + i \in 1..Len(readings)
            BY <1>4, <4>1
          <5>2. QED
            BY <1>1, <1>4, <4>1, <5>1
        <4>2. CASE i = Len(kept)
          BY <1>1, <1>4, <1>5, <1>10, <3>2, <4>2
        <4>3. QED
          BY <1>4, <1>5, <3>2, <4>1, <4>2
      <3>3. Base > 0 => kept # <<>> /\ readings'[Base + 1] = Node!Accel
        <4>1. kept # <<>>
          BY <1>4, <1>5
        <4>2. Base > 0 => Base + 1 \in 1..Len(readings)
          BY <1>1, <1>4
        <4>3. QED
          BY <1>1, <1>4, <4>1, <4>2
      <3>4. QED
        BY <1>1, <1>4, <2>1, <2>2, <3>1, <3>2, <3>3 DEF Kept
    <2>4. old \subseteq all /\ all \ old = {}
      <3>1. CASE kind = Node!Gyro
        BY <1>1, <3>1, GyroAddsNothing
      <3>2. CASE kind = Node!Accel
        <4>1. /\ old \subseteq all
              /\ all \ old = {k \in (Base + 1)..Len(readings) : readings[k] = Node!Gyro
                   /\ OnTime(readings, times, k)}
          BY <3>2, <1>8
        <4>2. ASSUME NEW k \in (Base + 1)..Len(readings), readings[k] = Node!Gyro,
                     OnTime(readings, times, k)
              PROVE  FALSE
          <5>1. k = Base + 1
            BY <1>1, <1>4, <1>5, <1>10, <3>2
          <5>2. Base = 0
            BY <1>1, <1>4, <4>2, <5>1
          <5>3. QED
            BY <4>2, <5>1, <5>2 DEF OnTime
        <4> HIDE DEF all, old
        <4>3. QED
          BY <4>1, <4>2
      <3>3. QED
        BY <3>1, <3>2
    <2>5. Below(old, {})
      BY DEF Below
    <2>6. /\ history' \in Seq(1..MaxReadings) /\ batch' \in Seq(1..MaxReadings)
          /\ Node!Lists(batch', all \ old) /\ Below(old, all \ old)
      <3> HIDE DEF all, old
      <3>1. QED
        BY <1>5, <2>1, <2>4, <2>5
    <2>7. QED
      BY <2>3, <2>4, <2>6
  <1>11. QED
    BY <1>9, <1>10

\* The union is complete, and what is new comes after what was united before.
LEMMA CallbackUnites ==
  ASSUME Typed, Kept, Node!UnitedComplete, NEW kind \in {Node!Gyro, Node!Accel},
         NEW time \in Nat, Node!imu_callback_sync(kind, time)
  PROVE  /\ Kept' /\ Node!UnitedComplete' /\ history' \in Seq(1..MaxReadings)
         /\ batch' \in Seq(1..MaxReadings) /\ united' \in Seq(1..MaxReadings)
         /\ Node!Rising(batch')
         /\ Below(Elems(united), Elems(batch'))
         /\ Elems(united') = Elems(united) \cup Elems(batch')
  <1> DEFINE old == Dues(method, readings, times)
             all == Dues(method', readings', times')
  <1>1. /\ united' = united \o batch' /\ united \in Seq(1..MaxReadings)
        /\ method' = method /\ method \in {"copy", "linear"}
    BY Reads
  <1>2. /\ Kept' /\ history' \in Seq(1..MaxReadings) /\ batch' \in Seq(1..MaxReadings)
        /\ Node!Lists(batch', all \ old) /\ old \subseteq all /\ Below(old, all \ old)
    <2>1. CASE method = "copy"
      BY <1>1, <2>1, CopyUnites DEF Dues
    <2>2. CASE method = "linear"
      BY <1>1, <2>2, LinearUnites DEF Dues
    <2>3. QED
      BY <1>1, <2>1, <2>2
  <1> HIDE DEF old, all
  <1>3. Node!Lists(united, old)
    BY UnitesDues DEF old
  <1>4. united \in Seq(Nat) /\ batch' \in Seq(Nat) /\ united' \in Seq(1..MaxReadings)
    BY <1>1, <1>2, 1..MaxReadings \subseteq Nat, Widened, Joined
  <1>5. Node!Lists(united', old \cup (all \ old))
    BY <1>1, <1>2, <1>3, <1>4, JoinedLists
  <1>6. old \cup (all \ old) = all
    BY <1>2
  <1>7. Node!UnitedComplete'
    BY <1>5, <1>6, UnitesDues DEF all
  <1>8. Elems(united) = old /\ Elems(batch') = all \ old /\ Elems(united') = all
    BY <1>2, <1>3, <1>5, <1>6 DEF Node!Lists, Elems
  <1>9. QED
    BY <1>2, <1>4, <1>6, <1>7, <1>8 DEF Node!Lists

-----------------------------------------------------------------------------
\* Publishing a message.

\* The rest of a batch.
LEMMA Tails ==
  ASSUME NEW b \in Seq(Nat), b # <<>>, Node!Rising(b)
  PROVE  /\ Head(b) \in Nat /\ Tail(b) \in Seq(Nat) /\ Node!Rising(Tail(b))
         /\ Elems(b) = {Head(b)} \cup Elems(Tail(b))
         /\ Below({Head(b)}, Elems(Tail(b)))
  <1>1. /\ Len(b) \in Nat \ {0} /\ Head(b) = b[1] /\ Tail(b) \in Seq(Nat)
        /\ Len(Tail(b)) = Len(b) - 1
        /\ \A i \in 1..Len(Tail(b)) : Tail(b)[i] = b[i + 1]
        /\ \A i \in 1..Len(b) : b[i] \in Nat
    OBVIOUS
  <1> DEFINE t == Tail(b)
  <1>2. t \in Seq(Nat) /\ Len(t) = Len(b) - 1 /\ \A i \in 1..Len(t) : t[i] = b[i + 1]
    BY <1>1
  <1> HIDE DEF t
  <1>3. Node!Rising(t)
    BY <1>1, <1>2 DEF Node!Rising
  <1>4. Below({b[1]}, Elems(t))
    BY <1>1, <1>2 DEF Node!Rising, Below, Elems
  <1>5. Elems(b) = {b[1]} \cup Elems(t)
    <2>1. ASSUME NEW i \in 1..Len(b) PROVE b[i] = b[1] \/ b[i] \in Elems(t)
      <3>1. i = 1 \/ (i - 1 \in 1..Len(t) /\ t[i - 1] = b[i])
        BY <1>1, <1>2
      <3>2. QED
        BY <3>1 DEF Elems
    <2>2. 1 \in 1..Len(b) /\ \A i \in 1..Len(t) : i + 1 \in 1..Len(b) /\ b[i + 1] = t[i]
      BY <1>1, <1>2
    <2>3. QED
      BY <2>1, <2>2 DEF Elems
  <1>6. QED
    BY <1>1, <1>2, <1>3, <1>4, <1>5 DEF t

\* The three ways in which a message leaves the batch.
LEMMA Publishes ==
  ASSUME Typed, Batched, Node!Publish
  PROVE  LET m == Node!Item("imu", Head(batch), Node!Now)
         IN  /\ batch # <<>> /\ batch \in Seq(Nat) /\ Node!Now \in Nat
             /\ m \in ImuItem /\ m.id = Head(batch) /\ m.at = Node!Now
             /\ \/ paused /\ imu' = "stuck" /\ batch' = <<>> /\ UNCHANGED <<pending, out>>
                \/ /\ imu' = (IF batch' = <<>> THEN "idle" ELSE "publish")
                        /\ batch' = Tail(batch)
                   /\ \/ /\ paused /\ pending' = Append(pending, m) /\ UNCHANGED out
                         /\ Len(pending) < WaitingList
                      \/ ~paused /\ out' = Append(out, m) /\ UNCHANGED pending
  <1> DEFINE m == Node!Item("imu", Head(batch), Node!Now)
  <1>1. batch # <<>> /\ batch \in Seq(Nat)
    <2>1. batch \in Seq(1..MaxReadings)
      BY DEF Typed, Node!TypeOK
    <2>2. QED
      BY <2>1, 1..MaxReadings \subseteq Nat, Widened DEF Batched, Node!Publish
  <1>2. Node!Now \in Nat /\ Len(pending) \in Nat
    <2>1. Len(out) \in Nat /\ Len(pending) \in Nat /\ frames \in Nat
      BY ImuAssumption DEF Typed, Node!TypeOK
    <2>2. QED
      BY <2>1 DEF Node!Now
  <1>3. Head(batch) \in Nat
    BY <1>1
  <1>4. m \in ImuItem /\ m.id = Head(batch) /\ m.at = Node!Now
    BY <1>2, <1>3 DEF ImuItem, Node!Item
  <1>5. IF paused /\ Len(pending) >= WaitingList
        THEN imu' = "stuck" /\ batch' = <<>> /\ UNCHANGED <<pending, out>>
        ELSE /\ batch' = Tail(batch)
             /\ imu' = IF batch' = <<>> THEN "idle" ELSE "publish"
             /\ IF paused THEN pending' = Append(pending, m) /\ UNCHANGED out
                          ELSE out' = Append(out, m) /\ UNCHANGED pending
    BY DEF Node!Publish
  <1> HIDE DEF m
  <1>6. Len(pending) >= WaitingList \/ Len(pending) < WaitingList
    BY <1>2, ImuAssumption
  <1>7. QED
    BY <1>1, <1>2, <1>4, <1>5, <1>6 DEF m

-----------------------------------------------------------------------------
\* The invariant holds at first, and every step keeps it.

LEMMA ImuInitially == Node!Init => ImuIInv
  <1> SUFFICES ASSUME Node!Init PROVE ImuIInv
    OBVIOUS
  <1>1. Typed
    <2>1. \A X : <<>> \in Seq(X) /\ Len(<<>>) = 0
      OBVIOUS
    <2>2. busy \in [Videos -> Nat]
      BY DEF Node!Init, Node!None
    <2>3. 0 \in 0..MaxFrames /\ 0 <= WaitingList /\ 0 <= MaxReadings
      BY ImuAssumption
    <2>4. QED
      BY <2>1, <2>2, <2>3 DEF Node!Init, Typed, Node!TypeOK
  <1>2. Kept /\ Batched
    BY DEF Node!Init, Kept, Batched, Base
  <1>3. Node!UnitedComplete
    BY DEF Node!Init, Node!UnitedComplete, Node!Lists, Node!Rising
  <1>4. Placed
    BY DEF Node!Init, Placed, Carries, Ids, Elems, Node!Rising, Below
  <1>5. Arrived /\ OneAtATime
    BY DEF Node!Init, Arrived, OneAtATime, Timely, Node!Now, Node!None
  <1>6. QED
    BY <1>1, <1>2, <1>3, <1>4, <1>5 DEF ImuIInv

\* What the thread of an image does to the publisher.
LEMMA Shows ==
  ASSUME Typed, NEW v \in Videos, Node!publishFrame(v)
  PROVE  LET m == Node!Item("image", v, busy[v])
         IN  m \in ImageItem /\ m.at = busy[v] /\ (out' = Append(out, m) \/ UNCHANGED out)
  BY DEF Typed, Node!TypeOK, Node!publishFrame, Node!Item, ImageItem

\* Whatever happens is one of these.
LEMMA ImuSteps ==
  ASSUME [Node!Next]_(Node!vars)
  PROVE  \/ \E kind \in {Node!Gyro, Node!Accel}, time \in Nat :
              Node!imu_callback_sync(kind, time)
         \/ Node!Publish
         \/ \E v \in Videos : Node!Pause(v) \/ Node!publishFrame(v) \/ Node!Resume(v)
         \/ UNCHANGED Node!vars
  <1>1. Node!Imu => \/ Node!Publish
                    \/ \E kind \in {Node!Gyro, Node!Accel}, time \in Nat :
                         Node!imu_callback_sync(kind, time)
    BY ImuAssumption DEF Node!Imu
  <1>2. QED
    BY <1>1, Zenon DEF Node!Next, Node!Video

\* Every variable keeps its type.
LEMMA TypedStep ==
  ASSUME ImuIInv, [Node!Next]_(Node!vars)
  PROVE  Typed'
  <1> USE ImuAssumption
  <1>0. /\ Typed /\ Batched /\ ImuItem \subseteq Items /\ ImageItem \subseteq Items
        /\ Node!TypeOK /\ Len(readings) <= MaxReadings
        /\ out \in Seq(Items) /\ pending \in Seq(ImuItem)
    BY DEF ImuIInv, Typed, Items
  <1>1. ASSUME NEW kind \in {Node!Gyro, Node!Accel}, NEW time \in Nat,
               Node!imu_callback_sync(kind, time)
        PROVE  Typed'
    <2>1. /\ history' \in Seq(1..MaxReadings) /\ batch' \in Seq(1..MaxReadings)
          /\ united' \in Seq(1..MaxReadings)
      BY <1>1, CallbackUnites DEF ImuIInv
    <2>2. /\ readings' \in Seq({Node!Gyro, Node!Accel}) /\ Len(readings') <= MaxReadings
          /\ times' \in Seq(Nat) /\ Len(times') = Len(readings')
      BY <1>0, <1>1, Reads
    <2>3. UNCHANGED <<Node!params, Node!holding, Node!video, out>>
            /\ imu' \in {"idle", "publish", "stuck"}
      BY <1>1 DEF Node!imu_callback_sync
    <2>4. QED
      BY <1>0, <2>1, <2>2, <2>3 DEF Typed, Node!TypeOK, Node!params, Node!holding,
                                    Node!video
  <1>2. CASE Node!Publish
    <2> DEFINE m == Node!Item("imu", Head(batch), Node!Now)
    <2>1. /\ m \in ImuItem
          /\ \/ batch' = <<>> /\ UNCHANGED <<pending, out>>
             \/ /\ batch # <<>> /\ batch' = Tail(batch)
                /\ \/ pending' = Append(pending, m) /\ UNCHANGED out
                        /\ Len(pending) < WaitingList
                   \/ out' = Append(out, m) /\ UNCHANGED pending
          /\ imu' \in {"idle", "publish", "stuck"}
      BY <1>0, <1>2, Publishes
    <2> HIDE DEF m
    <2>2. batch' \in Seq(1..MaxReadings)
      <3>1. batch \in Seq(1..MaxReadings)
        BY <1>0 DEF Node!TypeOK
      <3>2. batch # <<>> => Tail(batch) \in Seq(1..MaxReadings)
        BY <3>1
      <3>3. <<>> \in Seq(1..MaxReadings)
        OBVIOUS
      <3>4. QED
        BY <2>1, <3>2, <3>3, Zenon
    <2>3. out' \in Seq(Items) /\ pending' \in Seq(ImuItem) /\ Len(pending') <= WaitingList
      <3>1. Len(pending) \in Nat /\ Len(pending) <= WaitingList
        BY <1>0 DEF Node!TypeOK
      <3>2. /\ Append(pending, m) \in Seq(ImuItem)
            /\ Len(Append(pending, m)) = Len(pending) + 1
            /\ Append(out, m) \in Seq(Items)
        BY <1>0, <2>1, Appended
      <3>3. Len(pending) < WaitingList => Len(pending) + 1 <= WaitingList
        BY <3>1
      <3>4. QED
        BY <1>0, <2>1, <3>1, <3>2, <3>3
    <2>4. UNCHANGED <<Node!params, Node!union, paused, Node!video>>
      BY <1>2 DEF Node!Publish
    <2>5. QED
      BY <1>0, <2>1, <2>2, <2>3, <2>4 DEF Typed, Node!TypeOK, Node!params, Node!union,
                                          Node!video
  <1>3. ASSUME NEW v \in Videos, Node!Pause(v) PROVE Typed'
    <2>1. /\ busy' \in [Videos -> Nat] /\ paused' \in BOOLEAN /\ overlap' \in BOOLEAN
          /\ frames' \in 0..MaxFrames
      <3>1. Node!Now \in Nat
        BY <1>0 DEF Node!Now, Node!TypeOK
      <3>2. QED
        BY <1>0, <1>3, <3>1 DEF Node!Pause, Node!TypeOK
    <2>2. UNCHANGED <<Node!params, Node!union, imu, batch, pending, sent, out>>
      BY <1>3 DEF Node!Pause
    <2>3. QED
      BY <1>0, <2>1, <2>2 DEF Typed, Node!TypeOK, Node!params, Node!union
  <1>4. ASSUME NEW v \in Videos, Node!publishFrame(v) PROVE Typed'
    <2>1. out' \in Seq(Items) /\ sent' \subseteq Videos
      <3> DEFINE m == Node!Item("image", v, busy[v])
      <3>1. m \in ImageItem /\ (out' = Append(out, m) \/ UNCHANGED out)
        BY <1>0, <1>4, Shows
      <3> HIDE DEF m
      <3>2. Append(out, m) \in Seq(Items)
        BY <1>0, <3>1, Appended
      <3>3. sent' \subseteq Videos
        BY <1>0, <1>4 DEF Node!publishFrame, Node!TypeOK
      <3>4. QED
        BY <1>0, <3>1, <3>2, <3>3
    <2>2. UNCHANGED <<Node!params, Node!union, imu, batch, Node!holding, busy, overlap,
          frames>>
      BY <1>4 DEF Node!publishFrame
    <2>3. QED
      BY <1>0, <2>1, <2>2 DEF Typed, Node!TypeOK, Node!params, Node!union, Node!holding
  <1>5. ASSUME NEW v \in Videos, Node!Resume(v) PROVE Typed'
    <2>1. out' \in Seq(Items) /\ pending' = <<>> /\ paused' \in BOOLEAN
      BY <1>0, <1>5, Widened, Joined DEF Node!Resume
    <2>2. busy' \in [Videos -> Nat] /\ sent' \subseteq Videos
      BY <1>0, <1>5 DEF Node!Resume, Node!TypeOK, Node!None
    <2>3. UNCHANGED <<Node!params, Node!union, imu, batch, overlap, frames>>
      BY <1>5 DEF Node!Resume
    <2>4. QED
      BY <1>0, <2>1, <2>2, <2>3 DEF Typed, Node!TypeOK, Node!params, Node!union
  <1>6. CASE UNCHANGED Node!vars
    BY <1>0, <1>6 DEF Typed, Node!TypeOK, Node!vars, Node!params, Node!union, Node!holding,
                      Node!video
  <1>7. QED
    BY <1>1, <1>2, <1>3, <1>4, <1>5, <1>6, ImuSteps, Zenon

\* What was united stays all that is due.
LEMMA UnionStep ==
  ASSUME ImuIInv, [Node!Next]_(Node!vars)
  PROVE  Kept' /\ Node!UnitedComplete' /\ Batched'
  <1>0. Typed /\ Kept /\ Node!UnitedComplete /\ Batched
    BY DEF ImuIInv
  <1>1. ASSUME NEW kind \in {Node!Gyro, Node!Accel}, NEW time \in Nat,
               Node!imu_callback_sync(kind, time)
        PROVE  Kept' /\ Node!UnitedComplete' /\ Batched'
    <2>1. Kept' /\ Node!UnitedComplete'
      BY <1>0, <1>1, CallbackUnites
    <2>2. imu' = IF batch' = <<>> THEN "idle" ELSE "publish"
      BY <1>1 DEF Node!imu_callback_sync
    <2>3. QED
      BY <2>1, <2>2 DEF Batched
  <1>2. ASSUME UNCHANGED <<Node!params, Node!union>> PROVE Kept' /\ Node!UnitedComplete'
    <2>1. UNCHANGED <<method, readings, times, history, united>>
      BY <1>2 DEF Node!params, Node!union
    <2>2. Kept'
      BY <1>0, <2>1 DEF Kept, Base
    <2>3. Node!Lists(united', Dues(method', readings', times'))
      BY <1>0, <2>1, UnitesDues
    <2>4. QED
      BY <2>2, <2>3, UnitesDues
  <1>3. CASE Node!Publish
    <2>1. UNCHANGED <<Node!params, Node!union>>
      BY <1>3 DEF Node!Publish
    <2>2. Batched'
      BY <1>0, <1>3, Publishes DEF Batched
    <2>3. QED
      BY <1>2, <2>1, <2>2
  <1>4. ASSUME UNCHANGED <<Node!params, Node!union, imu, batch>>
        PROVE  Kept' /\ Node!UnitedComplete' /\ Batched'
    <2>1. Batched'
      BY <1>0, <1>4 DEF Batched
    <2>2. QED
      BY <1>2, <1>4, <2>1
  <1>5. ASSUME NEW v \in Videos, Node!Pause(v) \/ Node!publishFrame(v) \/ Node!Resume(v)
        PROVE  UNCHANGED <<Node!params, Node!union, imu, batch>>
    BY <1>5 DEF Node!Pause, Node!publishFrame, Node!Resume
  <1>6. CASE UNCHANGED Node!vars
    BY <1>4, <1>6 DEF Node!vars
  <1>7. QED
    BY <1>1, <1>3, <1>4, <1>5, <1>6, ImuSteps, Zenon

\* Everything that arrived came before what arrives next.
LEMMA ArrivedStep ==
  ASSUME ImuIInv, [Node!Next]_(Node!vars)
  PROVE  Arrived'
  <1>0. /\ Typed /\ Arrived /\ Batched
        /\ out \in Seq(Items) /\ pending \in Seq(ImuItem) /\ busy \in [Videos -> Nat]
        /\ Len(out) \in Nat /\ Len(pending) \in Nat /\ frames \in Nat /\ Node!Now \in Nat
        /\ sent \subseteq Videos
        /\ \A i \in 1..Len(out) : out[i].at \in Nat
        /\ \A i \in 1..Len(pending) : pending[i].at \in Nat
    <2>1. /\ Typed /\ Arrived /\ Batched
          /\ out \in Seq(Items) /\ pending \in Seq(ImuItem) /\ busy \in [Videos -> Nat]
          /\ sent \subseteq Videos
      BY DEF ImuIInv, Typed, Node!TypeOK
    <2>2. /\ Len(out) \in Nat /\ Len(pending) \in Nat
          /\ \A i \in 1..Len(out) : out[i] \in Items
          /\ \A i \in 1..Len(pending) : pending[i] \in ImuItem
      BY <2>1
    <2>3. frames \in Nat
      BY ImuAssumption DEF ImuIInv, Typed, Node!TypeOK
    <2>4. \A m \in Items : m.at \in Nat
      BY DEF Items, ImuItem, ImageItem
    <2>5. \A m \in ImuItem : m.at \in Nat
      BY DEF ImuItem
    <2>6. Node!Now \in Nat
      BY <2>2, <2>3 DEF Node!Now
    <2>7. QED
      BY <2>1, <2>2, <2>3, <2>4, <2>5, <2>6
  <1>1. ASSUME NEW kind \in {Node!Gyro, Node!Accel}, NEW time \in Nat,
               Node!imu_callback_sync(kind, time)
        PROVE  Arrived'
    BY <1>0, <1>1 DEF Node!imu_callback_sync, Arrived, Node!Now, Node!holding, Node!video
  <1>2. CASE Node!Publish
    <2> DEFINE m == Node!Item("imu", Head(batch), Node!Now)
    <2>1. /\ m \in ImuItem /\ m.at = Node!Now
          /\ \/ UNCHANGED <<pending, out>>
             \/ paused /\ pending' = Append(pending, m) /\ UNCHANGED out
             \/ ~paused /\ out' = Append(out, m) /\ UNCHANGED pending
          /\ UNCHANGED <<paused, busy, sent, frames>>
      BY <1>0, <1>2, Publishes DEF Node!Publish, Node!video
    <2> HIDE DEF m
    <2>2. CASE UNCHANGED <<pending, out>>
      BY <1>0, <2>1, <2>2 DEF Arrived, Node!Now
    <2>3. CASE paused /\ pending' = Append(pending, m) /\ UNCHANGED out
      <3>1. /\ Len(pending') = Len(pending) + 1 /\ pending'[Len(pending) + 1] = m
            /\ \A i \in 1..Len(pending) : pending'[i] = pending[i]
        BY <1>0, <2>1, <2>3, Appended
      <3>2. Node!Now' = Node!Now + 1
        BY <1>0, <2>1, <2>3, <3>1 DEF Node!Now
      <3>3. ASSUME NEW i \in 1..Len(pending') PROVE pending'[i].at < Node!Now'
        <4>1. \A j \in 1..Len(pending) : pending[j].at < Node!Now
          BY <1>0 DEF Arrived
        <4>2. CASE i \in 1..Len(pending)
          <5>1. pending'[i].at = pending[i].at /\ pending[i].at < Node!Now /\ pending[i].at \in Nat
            BY <1>0, <3>1, <4>1, <4>2
          <5>2. QED
            BY <1>0, <3>2, <5>1
        <4>3. CASE i = Len(pending) + 1
          BY <1>0, <2>1, <3>1, <3>2, <4>3 DEF Arrived
        <4>4. QED
          BY <1>0, <3>1, <4>2, <4>3
      <3>4. QED
        <4>1. out' = out /\ busy' = busy /\ sent' = sent /\ paused' /\ Node!Now < Node!Now'
          BY <1>0, <2>1, <2>3, <3>2
        <4>2. /\ \A i \in 1..Len(out) : out[i].at < Node!Now /\ out[i].at \in Nat
              /\ \A v \in Videos : busy[v] < Node!Now /\ busy[v] \in Nat
              /\ \A v \in sent : busy[v] # Node!None
          BY <1>0 DEF Arrived
        <4>3. /\ \A i \in 1..Len(out) : out[i].at < Node!Now'
              /\ \A v \in Videos : busy[v] < Node!Now'
          BY <1>0, <3>2, <4>2
        <4>4. QED
          BY <3>3, <4>1, <4>2, <4>3 DEF Arrived
    <2>4. CASE ~paused /\ out' = Append(out, m) /\ UNCHANGED pending
      <3>1. /\ Len(out') = Len(out) + 1 /\ out'[Len(out) + 1] = m
            /\ \A i \in 1..Len(out) : out'[i] = out[i]
        <4>1. m \in Items
          BY <2>1 DEF Items
        <4>2. QED
          BY <1>0, <2>4, <4>1, Appended
      <3>2. Node!Now' = Node!Now + 1
        BY <1>0, <2>1, <2>4, <3>1 DEF Node!Now
      <3>3. ASSUME NEW i \in 1..Len(out') PROVE out'[i].at < Node!Now'
        <4>1. \A j \in 1..Len(out) : out[j].at < Node!Now
          BY <1>0 DEF Arrived
        <4>2. CASE i \in 1..Len(out)
          <5>1. out'[i].at = out[i].at /\ out[i].at < Node!Now /\ out[i].at \in Nat
            BY <1>0, <3>1, <4>1, <4>2
          <5>2. QED
            BY <1>0, <3>2, <5>1
        <4>3. CASE i = Len(out) + 1
          BY <1>0, <2>1, <3>1, <3>2, <4>3 DEF Arrived
        <4>4. QED
          BY <1>0, <3>1, <4>2, <4>3
      <3>4. QED
        BY <1>0, <2>1, <2>4, <3>2, <3>3 DEF Arrived
    <2>5. QED
      BY <2>1, <2>2, <2>3, <2>4
  <1>3. ASSUME NEW v \in Videos, Node!Pause(v) PROVE Arrived'
    <2>1. /\ frames' = frames + 1 /\ busy' = [busy EXCEPT ![v] = Node!Now]
          /\ UNCHANGED <<pending, sent, out>> /\ (paused => paused')
      BY <1>3 DEF Node!Pause
    <2>2. Node!Now' = Node!Now + 1
      BY <1>0, <2>1 DEF Node!Now
    <2>3. /\ \A w \in Videos : busy'[w] < Node!Now'
          /\ \A w \in sent' : busy'[w] # Node!None
      <3>1. Node!Now # 0
        BY <1>0 DEF Node!Now
      <3>2. QED
        BY <1>0, <2>1, <2>2, <3>1 DEF Arrived, Node!None
    <2>4. QED
      BY <1>0, <2>1, <2>2, <2>3 DEF Arrived
  <1>4. ASSUME NEW v \in Videos, Node!publishFrame(v) PROVE Arrived'
    <2> DEFINE m == Node!Item("image", v, busy[v])
    <2>1. /\ m \in ImageItem /\ m.at = busy[v] /\ (out' = Append(out, m) \/ UNCHANGED out)
          /\ UNCHANGED <<paused, pending, busy, frames>> /\ sent' = sent \cup {v}
          /\ busy[v] # Node!None
      BY <1>0, <1>4, Shows DEF Node!publishFrame, Node!holding
    <2> HIDE DEF m
    <2>2. CASE UNCHANGED out
      BY <1>0, <2>1, <2>2 DEF Arrived, Node!Now
    <2>3. CASE out' = Append(out, m)
      <3>1. /\ Len(out') = Len(out) + 1 /\ out'[Len(out) + 1] = m
            /\ \A i \in 1..Len(out) : out'[i] = out[i]
        <4>1. m \in Items
          BY <2>1 DEF Items
        <4>2. QED
          BY <1>0, <2>3, <4>1, Appended
      <3>2. Node!Now' = Node!Now + 1
        BY <1>0, <2>1, <3>1 DEF Node!Now
      <3>3. ASSUME NEW i \in 1..Len(out') PROVE out'[i].at < Node!Now'
        <4>1. \A j \in 1..Len(out) : out[j].at < Node!Now
          BY <1>0 DEF Arrived
        <4>2. CASE i \in 1..Len(out)
          <5>1. out'[i].at = out[i].at /\ out[i].at < Node!Now /\ out[i].at \in Nat
            BY <1>0, <3>1, <4>1, <4>2
          <5>2. QED
            BY <1>0, <3>2, <5>1
        <4>3. CASE i = Len(out) + 1
          BY <1>0, <2>1, <3>1, <3>2, <4>3 DEF Arrived
        <4>4. QED
          BY <1>0, <3>1, <4>2, <4>3
      <3>4. QED
        BY <1>0, <2>1, <3>2, <3>3 DEF Arrived
    <2>4. QED
      BY <2>1, <2>2, <2>3
  <1>5. ASSUME NEW v \in Videos, Node!Resume(v) PROVE Arrived'
    <2>1. /\ busy' = [busy EXCEPT ![v] = Node!None] /\ sent' = sent \ {v}
          /\ out' = out \o pending /\ pending' = <<>> /\ frames' = frames
      BY <1>5 DEF Node!Resume
    <2>2. /\ Len(out') = Len(out) + Len(pending)
          /\ \A i \in 1..Len(out) : out'[i] = out[i]
          /\ \A k \in 1..Len(out') :
               k \in 1..Len(out) \/ (k - Len(out) \in 1..Len(pending)
                 /\ out'[k] = pending[k - Len(out)])
      <3>1. pending \in Seq(Items)
        BY <1>0, Widened DEF Items
      <3>2. QED
        BY <1>0, <2>1, <3>1, Joined
    <2>3. Node!Now' = Node!Now
      BY <1>0, <2>1, <2>2 DEF Node!Now
    <2>4. \A i \in 1..Len(out') : out'[i].at < Node!Now'
      BY <1>0, <2>2, <2>3 DEF Arrived
    <2>5. /\ \A w \in Videos : busy'[w] < Node!Now'
          /\ \A w \in sent' : busy'[w] # Node!None
      <3>1. Node!None < Node!Now
        BY <1>0 DEF Node!None, Node!Now
      <3>2. QED
        BY <1>0, <2>1, <2>3, <3>1 DEF Arrived
    <2>6. QED
      BY <2>1, <2>4, <2>5 DEF Arrived
  <1>6. CASE UNCHANGED Node!vars
    BY <1>0, <1>6 DEF Arrived, Node!Now, Node!vars, Node!holding, Node!video
  <1>7. QED
    BY <1>1, <1>2, <1>3, <1>4, <1>5, <1>6, ImuSteps, Zenon

\* No message is lost, and each one goes after the ones that are older.
LEMMA PlacedStep ==
  ASSUME ImuIInv, [Node!Next]_(Node!vars)
  PROVE  Placed'
  <1>0. /\ Typed /\ Arrived /\ Batched /\ Placed /\ Node!UnitedComplete /\ Kept
        /\ out \in Seq(Items) /\ pending \in Seq(ImuItem) /\ pending \in Seq(Items)
    <2>1. out \in Seq(Items) /\ pending \in Seq(ImuItem)
      BY DEF ImuIInv, Typed
    <2>2. QED
      BY <2>1, Widened DEF ImuIInv, Items
  <1>1. ASSUME NEW kind \in {Node!Gyro, Node!Accel}, NEW time \in Nat,
               Node!imu_callback_sync(kind, time)
        PROVE  Placed'
    <2>1. /\ Node!Rising(batch') /\ Below(Elems(united), Elems(batch'))
          /\ Elems(united') = Elems(united) \cup Elems(batch')
      BY <1>0, <1>1, CallbackUnites
    <2>2. UNCHANGED <<pending, out>> /\ imu = "idle"
      BY <1>1 DEF Node!imu_callback_sync, Node!holding
    <2>3. Elems(batch) = {}
      BY <1>0, <2>2 DEF Batched, Elems
    <2>4. QED
      BY <1>0, <2>1, <2>2, <2>3 DEF Placed, Carries, Ids
  <1>2. CASE Node!Publish
    <2> DEFINE m == Node!Item("imu", Head(batch), Node!Now)
    <2>1. /\ imu = "publish" /\ m \in ImuItem /\ m.id = Head(batch)
          /\ batch # <<>> /\ batch \in Seq(Nat) /\ UNCHANGED united
          /\ \/ imu' = "stuck"
             \/ /\ batch' = Tail(batch)
                /\ \/ paused /\ pending' = Append(pending, m) /\ UNCHANGED out
                   \/ ~paused /\ out' = Append(out, m) /\ UNCHANGED pending
      BY <1>0, <1>2, Publishes DEF Node!Publish, Node!union
    <2> HIDE DEF m
    <2>2. /\ Carries(out, Ids(out)) /\ Carries(pending, Ids(pending)) /\ Node!Rising(batch)
          /\ Below(Ids(out), Ids(pending))
          /\ Below(Ids(out) \cup Ids(pending), Elems(batch))
          /\ Ids(out) \cup Ids(pending) \cup Elems(batch) = Elems(united)
      BY <1>0, <2>1 DEF Placed
    <2>3. /\ Node!Rising(Tail(batch)) /\ Elems(batch) = {m.id} \cup Elems(Tail(batch))
          /\ Below({m.id}, Elems(Tail(batch)))
      BY <2>1, <2>2, Tails
    <2>4. CASE imu' = "stuck"
      BY <2>4 DEF Placed
    <2>5. CASE /\ batch' = Tail(batch)
               /\ paused /\ pending' = Append(pending, m) /\ UNCHANGED out
      <3>1. Below(Ids(pending), {m.id}) /\ Below(Ids(out), {m.id})
        BY <2>2, <2>3 DEF Below
      <3>2. Carries(pending', Ids(pending) \cup {m.id})
        BY <1>0, <2>1, <2>2, <2>5, <3>1, AppendCarries
      <3>3. Ids(pending') = Ids(pending) \cup {m.id}
        BY <3>2 DEF Carries, Ids
      <3>4. Carries(out', Ids(out')) /\ Carries(pending', Ids(pending'))
              /\ Ids(out') = Ids(out)
        BY <2>2, <2>5, <3>2, <3>3 DEF Ids
      <3>5. Below(Ids(out'), Ids(pending'))
        BY <2>2, <3>1, <3>3, <3>4 DEF Below
      <3>6. Below(Ids(out') \cup Ids(pending'), Elems(batch'))
        BY <2>2, <2>3, <2>5, <3>3, <3>4 DEF Below
      <3>7. Ids(out') \cup Ids(pending') \cup Elems(batch') = Elems(united')
        <4>1. Elems(batch') = Elems(Tail(batch)) /\ Elems(united') = Elems(united)
          BY <2>1, <2>5
        <4>2. QED
          BY <2>2, <2>3, <3>3, <3>4, <4>1
      <3>8. Node!Rising(batch')
        BY <2>3, <2>5
      <3>9. QED
        BY <3>4, <3>5, <3>6, <3>7, <3>8 DEF Placed
    <2>6. CASE /\ batch' = Tail(batch)
               /\ ~paused /\ out' = Append(out, m) /\ UNCHANGED pending
      <3>1. Below(Ids(out), {m.id})
        BY <2>2, <2>3 DEF Below
      <3>2. Carries(out', Ids(out) \cup {m.id})
        BY <1>0, <2>1, <2>2, <2>6, <3>1, AppendCarries
      <3>3. Ids(out') = Ids(out) \cup {m.id}
        BY <3>2 DEF Carries, Ids
      <3>4. pending' = <<>> /\ Ids(pending') = {} /\ Ids(pending) = {}
        BY <1>0, <2>6 DEF Arrived, Ids
      <3>5. Carries(out', Ids(out')) /\ Carries(pending', Ids(pending'))
        BY <2>2, <2>6, <3>2, <3>3, <3>4 DEF Ids
      <3>6. Below(Ids(out'), Ids(pending'))
        BY <3>4 DEF Below
      <3>7. Below(Ids(out') \cup Ids(pending'), Elems(batch'))
        BY <2>2, <2>3, <2>6, <3>3, <3>4 DEF Below
      <3>8. Ids(out') \cup Ids(pending') \cup Elems(batch') = Elems(united')
        <4>1. Elems(batch') = Elems(Tail(batch)) /\ Elems(united') = Elems(united)
          BY <2>1, <2>6
        <4>2. QED
          BY <2>2, <2>3, <3>3, <3>4, <4>1
      <3>9. Node!Rising(batch')
        BY <2>3, <2>6
      <3>10. QED
        BY <3>5, <3>6, <3>7, <3>8, <3>9 DEF Placed
    <2>7. QED
      BY <2>1, <2>4, <2>5, <2>6
  <1>3. ASSUME UNCHANGED <<imu, batch, united, pending>>,
               \A S : Carries(out, S) => Carries(out', S)
        PROVE  Placed'
    <2>1. SUFFICES ASSUME imu # "stuck" PROVE Placed'
      BY <1>3 DEF Placed
    <2>2. /\ Carries(out, Ids(out)) /\ Carries(pending, Ids(pending)) /\ Node!Rising(batch)
          /\ Below(Ids(out), Ids(pending))
          /\ Below(Ids(out) \cup Ids(pending), Elems(batch))
          /\ Ids(out) \cup Ids(pending) \cup Elems(batch) = Elems(united)
      BY <1>0, <2>1 DEF Placed
    <2>3. Ids(out') = Ids(out) /\ Carries(out', Ids(out))
      BY <1>3, <2>2 DEF Carries, Ids
    <2>4. /\ Ids(pending') = Ids(pending) /\ Elems(batch') = Elems(batch)
          /\ Elems(united') = Elems(united)
      BY <1>3
    <2>5. QED
      BY <1>3, <2>2, <2>3, <2>4 DEF Placed
  <1>4. ASSUME NEW v \in Videos, Node!Pause(v) PROVE Placed'
    BY <1>3, <1>4 DEF Node!Pause, Node!union
  <1>5. ASSUME NEW v \in Videos, Node!publishFrame(v) PROVE Placed'
    <2> DEFINE m == Node!Item("image", v, busy[v])
    <2>1. m \in ImageItem /\ (out' = Append(out, m) \/ UNCHANGED out)
      BY <1>0, <1>5, Shows
    <2> HIDE DEF m
    <2>2. ASSUME NEW S, Carries(out, S) PROVE Carries(out', S)
      BY <1>0, <2>1, <2>2, AppendCarries
    <2>3. UNCHANGED <<imu, batch, united, pending>>
      BY <1>5 DEF Node!publishFrame, Node!union, Node!holding
    <2>4. QED
      BY <1>3, <2>2, <2>3
  <1>6. ASSUME NEW v \in Videos, Node!Resume(v) PROVE Placed'
    <2>1. UNCHANGED <<imu, batch, united>> /\ out' = out \o pending /\ pending' = <<>>
      BY <1>6 DEF Node!Resume, Node!union
    <2>2. SUFFICES ASSUME imu # "stuck" PROVE Placed'
      BY <2>1 DEF Placed
    <2>3. /\ Carries(out, Ids(out)) /\ Carries(pending, Ids(pending)) /\ Node!Rising(batch)
          /\ Below(Ids(out), Ids(pending))
          /\ Below(Ids(out) \cup Ids(pending), Elems(batch))
          /\ Ids(out) \cup Ids(pending) \cup Elems(batch) = Elems(united)
      BY <1>0, <2>2 DEF Placed
    <2>4. Carries(out', Ids(out) \cup Ids(pending))
      BY <1>0, <2>1, <2>3, JoinedCarries
    <2>5. Ids(out') = Ids(out) \cup Ids(pending)
      BY <2>4 DEF Carries, Ids
    <2>6. Ids(pending') = {} /\ Carries(pending', {})
      BY <2>1 DEF Ids, Carries
    <2>7. /\ Elems(batch') = Elems(batch) /\ Elems(united') = Elems(united)
          /\ Below(Ids(out'), {})
      BY <2>1 DEF Below
    <2>8. QED
      BY <2>1, <2>3, <2>4, <2>5, <2>6, <2>7 DEF Placed
  <1>7. CASE UNCHANGED Node!vars
    BY <1>3, <1>7 DEF Node!vars, Node!union, Node!holding
  <1>8. QED
    BY <1>1, <1>2, <1>4, <1>5, <1>6, <1>7, ImuSteps, Zenon

\* While images come one at a time, what is published is in order of arrival.
LEMMA OneAtATimeStep ==
  ASSUME ImuIInv, [Node!Next]_(Node!vars)
  PROVE  OneAtATime'
  <1>0. /\ Typed /\ Arrived /\ Batched /\ OneAtATime
        /\ out \in Seq(Items) /\ pending \in Seq(Items) /\ busy \in [Videos -> Nat]
        /\ Len(out) \in Nat /\ Len(pending) \in Nat /\ Node!Now \in Nat \ {0}
        /\ \A i \in 1..Len(out) : out[i].at \in Nat
        /\ \A i \in 1..Len(pending) : pending[i].at \in Nat
        /\ paused \in BOOLEAN /\ enabled \in BOOLEAN /\ overlap \in BOOLEAN
    <2>1. /\ Typed /\ Arrived /\ Batched /\ OneAtATime
          /\ out \in Seq(Items) /\ pending \in Seq(ImuItem) /\ busy \in [Videos -> Nat]
          /\ paused \in BOOLEAN /\ enabled \in BOOLEAN /\ overlap \in BOOLEAN
      BY DEF ImuIInv, Typed, Node!TypeOK
    <2>2. pending \in Seq(Items)
      BY <2>1, Widened DEF Items
    <2>3. /\ Len(out) \in Nat /\ Len(pending) \in Nat
          /\ \A i \in 1..Len(out) : out[i] \in Items
          /\ \A i \in 1..Len(pending) : pending[i] \in Items
      BY <2>1, <2>2
    <2>4. frames \in Nat
      BY ImuAssumption DEF ImuIInv, Typed, Node!TypeOK
    <2>5. \A m \in Items : m.at \in Nat
      BY DEF Items, ImuItem, ImageItem
    <2>6. Node!Now \in Nat \ {0}
      BY <2>3, <2>4 DEF Node!Now
    <2>7. QED
      BY <2>1, <2>2, <2>3, <2>5, <2>6
  <1> SUFFICES ASSUME enabled', ~overlap' PROVE OneAtATime'
    BY DEF OneAtATime
  <1>1. enabled /\ ~overlap
    <2>1. CASE UNCHANGED <<Node!params, overlap>>
      BY <2>1 DEF Node!params
    <2>2. ASSUME NEW v \in Videos, Node!Pause(v) PROVE enabled /\ ~overlap
      BY <2>2, Zenon DEF Node!Pause, Node!params
    <2>3. QED
      BY <2>1, <2>2 DEF Node!Next, Node!Imu, Node!Video, Node!imu_callback_sync,
                        Node!Publish, Node!publishFrame, Node!Resume,
                        Node!vars, Node!video
  <1>2. /\ \A v, w \in Videos : busy[v] # Node!None /\ busy[w] # Node!None => v = w
        /\ paused <=> \E v \in Videos : busy[v] # Node!None
        /\ Timely(out) /\ Timely(pending)
        /\ \A v \in Videos : busy[v] # Node!None =>
             /\ \A i \in 1..Len(out) :
                  out[i].at <= busy[v] /\ (v \notin sent => out[i].at < busy[v])
             /\ \A i \in 1..Len(pending) : busy[v] < pending[i].at
    BY <1>0, <1>1, Zenon DEF OneAtATime
  <1>3. CASE UNCHANGED <<paused, pending, busy, sent, out>>
    BY <1>2, <1>3 DEF OneAtATime, Timely
  <1>4. ASSUME NEW kind \in {Node!Gyro, Node!Accel}, NEW time \in Nat,
               Node!imu_callback_sync(kind, time)
        PROVE  UNCHANGED <<paused, pending, busy, sent, out>>
    BY <1>4 DEF Node!imu_callback_sync, Node!holding, Node!video
  <1>5. CASE Node!Publish
    <2> DEFINE m == Node!Item("imu", Head(batch), Node!Now)
    <2>1. /\ m \in Items /\ m.at = Node!Now
          /\ \/ UNCHANGED <<pending, out>>
             \/ paused /\ pending' = Append(pending, m) /\ UNCHANGED out
             \/ ~paused /\ out' = Append(out, m) /\ UNCHANGED pending
          /\ UNCHANGED <<paused, busy, sent>>
      BY <1>0, <1>5, Publishes DEF Node!Publish, Node!video, Items
    <2> HIDE DEF m
    <2>2. CASE paused /\ pending' = Append(pending, m) /\ UNCHANGED out
      <3>1. /\ Len(pending') = Len(pending) + 1 /\ pending'[Len(pending) + 1] = m
            /\ \A i \in 1..Len(pending) : pending'[i] = pending[i]
        BY <1>0, <2>1, <2>2, Appended
      <3>2. \A i \in 1..Len(pending) : pending[i].at < m.at
        BY <1>0, <2>1 DEF Arrived
      <3>3. Timely(pending')
        BY <1>0, <1>2, <2>1, <2>2, <3>2, AppendTimely
      <3>4. \A v \in Videos : busy[v] # Node!None
              => \A i \in 1..Len(pending') : busy[v] < pending'[i].at
        <4>1. \A v \in Videos : busy[v] < m.at
          BY <1>0, <2>1 DEF Arrived
        <4>2. \A i \in 1..Len(pending') : i \in 1..Len(pending) \/ i = Len(pending) + 1
          BY <1>0, <3>1
        <4>3. QED
          BY <1>2, <3>1, <4>1, <4>2
      <3>5. QED
        BY <1>2, <2>1, <2>2, <3>3, <3>4 DEF OneAtATime
    <2>3. CASE ~paused /\ out' = Append(out, m) /\ UNCHANGED pending
      <3>1. \A i \in 1..Len(out) : out[i].at < m.at
        BY <1>0, <2>1 DEF Arrived
      <3>2. Timely(out')
        BY <1>0, <1>2, <2>1, <2>3, <3>1, AppendTimely
      <3>3. \A v \in Videos : busy'[v] = Node!None
        BY <1>2, <2>1, <2>3
      <3>4. ~paused' /\ Timely(pending')
        BY <1>2, <2>1, <2>3
      <3>5. QED
        BY <3>2, <3>3, <3>4 DEF OneAtATime
    <2>4. QED
      BY <1>3, <2>1, <2>2, <2>3
  <1>6. ASSUME NEW v \in Videos, Node!Pause(v) PROVE OneAtATime'
    <2>1. /\ busy' = [busy EXCEPT ![v] = Node!Now] /\ paused'
          /\ UNCHANGED <<pending, sent, out>> /\ busy[v] = Node!None
          /\ \A w \in Videos : busy[w] = Node!None
      <3>1. overlap' = (overlap \/ \E w \in Videos : busy[w] # Node!None)
        BY <1>6, Zenon DEF Node!Pause
      <3>2. \A w \in Videos : busy[w] = Node!None
        BY <3>1, Zenon
      <3>3. paused' = (paused \/ enabled)
        BY <1>6, Zenon DEF Node!Pause
      <3>4. QED
        BY <1>1, <1>6, <3>2, <3>3 DEF Node!Pause
    <2>2. /\ \A w \in Videos \ {v} : busy'[w] = Node!None
          /\ busy'[v] = Node!Now /\ Node!Now # Node!None
      BY <1>0, <2>1 DEF Node!None
    <2>3. pending = <<>> /\ v \notin sent
      BY <1>0, <1>2, <2>1 DEF Arrived
    <2>4. \A i \in 1..Len(out) : out[i].at < Node!Now
      BY <1>0 DEF Arrived
    <2>5. /\ \A w, x \in Videos : busy'[w] # Node!None /\ busy'[x] # Node!None => w = x
          /\ paused' <=> \E w \in Videos : busy'[w] # Node!None
      BY <2>1, <2>2
    <2>6. /\ Timely(out') /\ Timely(pending')
      BY <1>2, <2>1
    <2>7. /\ \A i \in 1..Len(out') :
               out'[i].at <= busy'[v] /\ (v \notin sent' => out'[i].at < busy'[v])
          /\ \A i \in 1..Len(pending') : busy'[v] < pending'[i].at
      BY <1>0, <2>1, <2>2, <2>3, <2>4
    <2>8. QED
      BY <2>2, <2>5, <2>6, <2>7 DEF OneAtATime
  <1>7. ASSUME NEW v \in Videos, Node!publishFrame(v) PROVE OneAtATime'
    <2> DEFINE m == Node!Item("image", v, busy[v])
    <2>1. /\ m \in Items /\ m.at = busy[v] /\ (out' = Append(out, m) \/ UNCHANGED out)
          /\ UNCHANGED <<paused, pending, busy>> /\ sent' = sent \cup {v}
          /\ busy[v] # Node!None
          /\ v \notin sent
      BY <1>0, <1>7, Shows DEF Node!publishFrame, Node!holding, Items
    <2> HIDE DEF m
    <2>2. CASE UNCHANGED out
      BY <1>2, <2>1, <2>2 DEF OneAtATime
    <2>3. CASE out' = Append(out, m)
      <3>1. /\ Len(out') = Len(out) + 1 /\ out'[Len(out) + 1] = m
            /\ \A i \in 1..Len(out) : out'[i] = out[i]
        BY <1>0, <2>1, <2>3, Appended
      <3>2. \A i \in 1..Len(out) : out[i].at < m.at
        BY <1>2, <2>1
      <3>3. Timely(out')
        BY <1>0, <1>2, <2>1, <2>3, <3>2, AppendTimely
      <3>4. \A w \in Videos : busy'[w] # Node!None => w = v
        BY <1>2, <2>1
      <3>5. ASSUME NEW i \in 1..Len(out') PROVE out'[i].at <= busy'[v] /\ v \in sent'
        <4>1. i \in 1..Len(out) \/ i = Len(out) + 1
          BY <1>0, <3>1
        <4>2. busy[v] \in Nat /\ busy'[v] = busy[v] /\ m.at = busy[v] /\ v \in sent'
          BY <1>0, <2>1
        <4>3. CASE i \in 1..Len(out)
          <5>1. out'[i] = out[i] /\ out[i].at < m.at /\ out[i].at \in Nat
            BY <1>0, <3>1, <3>2, <4>3
          <5>2. QED
            BY <4>2, <5>1
        <4>4. CASE i = Len(out) + 1
          BY <3>1, <4>2, <4>4
        <4>5. QED
          BY <4>1, <4>3, <4>4
      <3>6. QED
        BY <1>2, <2>1, <3>3, <3>4, <3>5 DEF OneAtATime
    <2>4. QED
      BY <2>1, <2>2, <2>3
  <1>8. ASSUME NEW v \in Videos, Node!Resume(v) PROVE OneAtATime'
    <2>1. /\ busy' = [busy EXCEPT ![v] = Node!None] /\ v \in sent
          /\ out' = out \o pending /\ pending' = <<>> /\ paused' = FALSE
      BY <1>8 DEF Node!Resume
    <2>2. busy[v] # Node!None
      BY <1>0, <2>1 DEF Arrived
    <2>3. \A w \in Videos : busy'[w] = Node!None
      BY <1>0, <1>2, <2>1, <2>2
    <2>4. \A i \in 1..Len(out), j \in 1..Len(pending) : out[i].at < pending[j].at
      <3>1. busy[v] \in Nat
        BY <1>0
      <3>2. QED
        BY <1>0, <1>2, <2>2, <3>1
    <2>5. Timely(out') /\ Timely(pending')
      <3>1. Timely(out')
        BY <1>0, <1>2, <2>1, <2>4, JoinedTimely
      <3>2. QED
        BY <2>1, <3>1 DEF Timely
    <2>6. QED
      BY <2>1, <2>3, <2>5 DEF OneAtATime
  <1>9. CASE UNCHANGED Node!vars
    BY <1>3, <1>9 DEF Node!vars, Node!holding, Node!video
  <1>10. QED
    BY <1>3, <1>4, <1>5, <1>6, <1>7, <1>8, <1>9, ImuSteps, Zenon

-----------------------------------------------------------------------------
\* The invariant says what ImuInv says.

LEMMA PlacedIsNothingLost ==
  ASSUME ImuIInv
  PROVE  Node!NothingLost
  <1> SUFFICES ASSUME imu # "stuck" PROVE Node!NothingLost
    BY DEF Node!NothingLost
  <1> DEFINE all == out \o pending \o Node!Messages(batch)
             P   == {i \in 1..Len(all) : all[i].what = "imu"}
  <1>1. /\ Carries(out, Ids(out)) /\ Carries(pending, Ids(pending)) /\ Node!Rising(batch)
        /\ Below(Ids(out), Ids(pending)) /\ Below(Ids(out) \cup Ids(pending), Elems(batch))
        /\ Ids(out) \cup Ids(pending) \cup Elems(batch) = Elems(united)
    BY DEF ImuIInv, Placed
  <1>2. out \in Seq(Items) /\ pending \in Seq(Items) /\ batch \in Seq(Nat)
    BY Widened, 1..MaxReadings \subseteq Nat DEF ImuIInv, Typed, Node!TypeOK, Items
  <1>3. out \o pending \in Seq(Items) /\ Carries(out \o pending, Ids(out) \cup Ids(pending))
    BY <1>1, <1>2, Joined, JoinedCarries
  <1>4. Node!Messages(batch) \in Seq(Items) /\ Carries(Node!Messages(batch), Elems(batch))
    BY <1>1, <1>2, MessagesCarry
  <1>5. Carries(all, Ids(out) \cup Ids(pending) \cup Elems(batch))
    BY <1>1, <1>3, <1>4, JoinedCarries
  <1> HIDE DEF all
  <1>6. /\ \A i, j \in P : i < j => all[i].id < all[j].id
        /\ {all[i].id : i \in P} = Elems(united)
    BY <1>1, <1>5 DEF Carries
  <1>7. QED
    BY <1>6 DEF Node!NothingLost, Elems, all

LEMMA OneAtATimeIsInOrder ==
  ASSUME ImuIInv
  PROVE  Node!InOrderOfArrival
  BY DEF ImuIInv, OneAtATime, Node!InOrderOfArrival, Timely

LEMMA ImuImplied ==
  ASSUME ImuIInv
  PROVE  Node!ImuInv
  BY PlacedIsNothingLost, OneAtATimeIsInOrder DEF ImuIInv, Node!ImuInv, Typed

LEMMA ImuStep ==
  ASSUME ImuIInv, [Node!Next]_(Node!vars)
  PROVE  ImuIInv'
  BY TypedStep, UnionStep, ArrivedStep, PlacedStep, OneAtATimeStep DEF ImuIInv

\* However the readings of the sensors alternate, whatever their time stamps, and
\* whenever images start and end to be processed: every gyroscope reading that has its
\* accelerometer readings, and for the interpolation is not older than the one before
\* it, is made into one message, in order; holding the messages back loses, repeats
\* and reorders none, unless the waiting list was full, and as long as no two images
\* are processed at the same time messages and images come out in the order of their
\* arrival.
THEOREM ImuHolds == Node!Spec => []ImuInv
  <1>1. ImuIInv /\ [Node!Next]_(Node!vars) => ImuIInv'
    BY ImuStep
  <1>2. ImuIInv => ImuInv
    BY ImuImplied DEF ImuInv
  <1>3. QED
    BY ImuInitially, <1>1, <1>2, PTL DEF Node!Spec

\* The same for what TLC runs, where the factory may be looked at instead.
COROLLARY ImuHoldsBesideFactory == MCSpec => []ImuInv
  <1>1. MCInit => ImuIInv
    BY ImuInitially DEF MCInit
  <1>2. [MCNext]_mcVars => [Node!Next]_(Node!vars)
    BY DEF MCNext, Factory, Imu, mcVars, imuVars, Node!vars, Node!params, Node!union,
           Node!holding, Node!video
  <1>3. ImuIInv /\ [MCNext]_mcVars => ImuIInv'
    BY <1>2, ImuStep
  <1>4. ImuIInv => ImuInv
    BY ImuImplied DEF ImuInv
  <1>5. QED
    BY <1>1, <1>3, <1>4, PTL DEF MCSpec
=============================================================================
