--------------------------- MODULE RealsenseImu ---------------------------
(***************************************************************************)
(* How BaseRealSenseNode (base_realsense_node.cpp) unites gyroscope and    *)
(* accelerometer readings into IMU messages (unite_imu_method) and, with   *)
(* hold_back_imu_for_frames, keeps these messages back while images are    *)
(* processed (SyncedImuPublisher).                                         *)
(*                                                                         *)
(* librealsense calls back in a thread for each sensor: one for the IMU,   *)
(* one for each of the video sensors.  An exception in a callback is       *)
(* swallowed by librealsense.                                              *)
(***************************************************************************)
EXTENDS Integers, Sequences

CONSTANTS Videos,
          WaitingList,   \* messages that are held back at most
          GyroTimes, AccelTimes,   \* time stamps of the readings
          MaxReadings,   \* bound: IMU readings
          MaxFrames      \* bound: images

VARIABLES
  method,    \* unite_imu_method: "copy" or "linear"
  enabled,   \* hold_back_imu_for_frames
  readings,  \* history: kinds of the readings so far; they are numbered
  times,     \* history: their time stamps, which need not rise
  history,   \* readings that the union keeps: _imu_history, or the last _accel_data
  imu,       \* IMU thread: "idle", "publish" or "stuck" with m_mutex locked
  batch,     \*   messages still to be published; a message is its gyro reading
  united,    \* history: messages made so far
  paused,    \* _pause_mode
  pending,   \* _pending_messages
  busy,      \* images that are being processed: arrival of the one of a thread
  sent,      \*   threads that are done with publishing
  overlap,   \* history: an image arrived while another one was processed
  out,       \* history: what was published, with its arrival
  frames     \* images so far

params  == <<method, enabled>>
union   == <<readings, times, history, united>>
holding == <<paused, pending>>
video   == <<busy, sent, overlap, frames>>
vars    == <<params, union, imu, batch, holding, video, out>>

Gyro  == "gyro"
Accel == "accel"
Item(what, n, t)  == [what |-> what, id |-> n, at |-> t]
None   == 0

Init ==
  /\ method \in {"copy", "linear"} /\ enabled \in BOOLEAN
  /\ readings = <<>> /\ times = <<>> /\ history = <<>> /\ united = <<>>
  /\ imu = "idle" /\ batch = <<>>
  /\ paused = FALSE /\ pending = <<>> /\ out = <<>>
  /\ busy = [v \in Videos |-> None] /\ sent = {} /\ overlap = FALSE /\ frames = 0

\* Arrivals are counted by what has arrived at the publisher so far.
Now == Len(out) + Len(pending) + frames + 1

----------------------------------------------------------------------------
\* FillImuData_Copy: each gyro reading with the last accelerometer reading.
\* FillImuData_LinearInterpolation: when an accelerometer reading comes, the gyro
\* readings between the ones that are kept.

\* The loop over the history s, for the kinds r of the readings and their time
\* stamps t: a gyro reading counts unless it is older than the last accelerometer
\* reading before it.
Counts(r, t, s, i) ==
  /\ r[s[i]] = Gyro
  /\ \E j \in 1..(i - 1) :
       /\ r[s[j]] = Accel /\ \A k \in (j + 1)..(i - 1) : r[s[k]] # Accel
       /\ t[s[i]] >= t[s[j]]
Interpolated(r, t, s) ==
  LET gyros[i \in 0..Len(s)] ==
        IF i = 0 THEN <<>>
        ELSE IF Counts(r, t, s, i) THEN Append(gyros[i - 1], s[i]) ELSE gyros[i - 1]
  IN  gyros[Len(s)]

FillImuData_Copy(n) ==
  IF readings'[n] = Accel THEN history' = <<n>> /\ batch' = <<>>
  ELSE /\ UNCHANGED history
       /\ batch' = IF history = <<>> THEN <<>> ELSE <<n>>

FillImuData_LinearInterpolation_Cleared(n) ==   \* mutant: the last reading is not kept
  LET all == Append(history, n)
  IN  IF readings'[n] = Accel /\ Len(all) >= 3
      THEN history' = <<>> /\ batch' = Interpolated(readings', times', all)
      ELSE history' = all /\ batch' = <<>>
FillImuData_LinearInterpolation(n) ==
  LET all == Append(history, n)
  IN  IF readings'[n] = Accel /\ Len(all) >= 3
      THEN history' = <<n>> /\ batch' = Interpolated(readings', times', all)
      ELSE history' = all /\ batch' = <<>>

\* imu_callback_sync, with m_mutex, while the topic has subscribers.
imu_callback_sync(kind, time) ==
  /\ imu = "idle" /\ Len(readings) < MaxReadings
  /\ readings' = Append(readings, kind) /\ times' = Append(times, time)
  /\ LET n == Len(readings')
     IN  IF method = "copy" THEN FillImuData_Copy(n) ELSE FillImuData_LinearInterpolation(n)
  /\ united' = united \o batch'
  /\ imu' = IF batch' = <<>> THEN "idle" ELSE "publish"
  /\ UNCHANGED <<params, holding, video, out>>

\* SyncedImuPublisher::Publish, with _mutex.  The exception leaves
\* imu_callback_sync without unlocking m_mutex, and the callbacks that follow
\* wait for it.
Publish ==
  /\ imu = "publish"
  /\ LET m == Item("imu", Head(batch), Now)
     IN  IF paused /\ Len(pending) >= WaitingList
         THEN imu' = "stuck" /\ batch' = <<>> /\ UNCHANGED <<pending, out>>
         ELSE /\ batch' = Tail(batch)
              /\ imu' = IF batch' = <<>> THEN "idle" ELSE "publish"
              /\ IF paused THEN pending' = Append(pending, m) /\ UNCHANGED out
                           ELSE out' = Append(out, m) /\ UNCHANGED pending
  /\ UNCHANGED <<params, union, paused, video>>

----------------------------------------------------------------------------
\* frame_callback in the thread v.

Pause(v) ==
  /\ busy[v] = None /\ frames < MaxFrames
  /\ frames' = frames + 1 /\ busy' = [busy EXCEPT ![v] = Now]
  /\ overlap' = (overlap \/ \E w \in Videos : busy[w] # None)
  /\ paused' = (paused \/ enabled)
  /\ UNCHANGED <<params, union, imu, batch, pending, sent, out>>

\* The image is published, or not, when its topic has no subscribers or its
\* processing fails.
publishFrame(v) ==
  /\ busy[v] # None /\ v \notin sent /\ sent' = sent \cup {v}
  /\ \/ out' = Append(out, Item("image", v, busy[v]))
     \/ UNCHANGED out
  /\ UNCHANGED <<params, union, imu, batch, holding, busy, overlap, frames>>

Resume_Keep(v) ==   \* mutant: only the mode is reset
  /\ v \in sent /\ sent' = sent \ {v} /\ busy' = [busy EXCEPT ![v] = None]
  /\ paused' = FALSE
  /\ UNCHANGED <<params, union, imu, batch, pending, out, overlap, frames>>
Resume(v) ==
  /\ v \in sent /\ sent' = sent \ {v} /\ busy' = [busy EXCEPT ![v] = None]
  /\ out' = out \o pending /\ pending' = <<>> /\ paused' = FALSE
  /\ UNCHANGED <<params, union, imu, batch, overlap, frames>>

Imu ==
  \/ Publish
  \/ \E time \in GyroTimes : imu_callback_sync(Gyro, time)
  \/ \E time \in AccelTimes : imu_callback_sync(Accel, time)
Video(v) == publishFrame(v) \/ Resume(v)

Next == Imu \/ \E v \in Videos : Pause(v) \/ Video(v)

Spec == Init /\ [][Next]_vars

\* The processing of an image ends.
FairSpec == Spec /\ \A v \in Videos : WF_vars(Video(v))

----------------------------------------------------------------------------
TypeOK ==
  /\ method \in {"copy", "linear"} /\ enabled \in BOOLEAN
  /\ readings \in Seq({Gyro, Accel}) /\ times \in Seq(Nat) /\ history \in Seq(1..MaxReadings)
  /\ united \in Seq(1..MaxReadings) /\ batch \in Seq(1..MaxReadings)
  /\ imu \in {"idle", "publish", "stuck"}
  /\ paused \in BOOLEAN /\ Len(pending) <= WaitingList
  /\ busy \in [Videos -> Nat] /\ sent \subseteq Videos
  /\ overlap \in BOOLEAN /\ frames \in 0..MaxFrames

\* What the union should compute, once and in order: every gyro reading that has an
\* accelerometer reading before it; for the interpolation, every one that has one
\* after it too and whose time stamp is not before that of the last one before it.
\* ("Every gyro message is attached by the an accel message interpolated to the
\* gyro's timestamp", realsense-ros/README.md:194, says nothing of this exception.)
LastAccel(n, a) ==
  a \in 1..(n - 1) /\ readings[a] = Accel /\ \A b \in (a + 1)..(n - 1) : readings[b] # Accel
Before(n) == \E a \in 1..(n - 1) : readings[a] = Accel
InTime(n) == \E a \in 1..(n - 1) : LastAccel(n, a) /\ times[n] >= times[a]
After(n)  == \E a \in (n + 1)..Len(readings) : readings[a] = Accel
Due(n)    == readings[n] = Gyro /\ IF method = "copy" THEN Before(n) ELSE InTime(n) /\ After(n)
Rising(s)  == \A i, j \in 1..Len(s) : i < j => s[i] < s[j]
Lists(s, S) == Rising(s) /\ {s[i] : i \in 1..Len(s)} = S
UnitedComplete == Lists(united, {n \in 1..Len(readings) : Due(n)})

\* Holding messages back neither loses nor reorders nor repeats them: unless the
\* exception was thrown, the messages that were published, are held back or are
\* to be published are, in this order, those that were made.
Messages(ids) == [i \in 1..Len(ids) |-> Item("imu", ids[i], 0)]
NothingLost == imu # "stuck" =>
  LET all == out \o pending \o Messages(batch)
      P   == {i \in 1..Len(all) : all[i].what = "imu"}
  IN  /\ \A i, j \in P : i < j => all[i].id < all[j].id
      /\ {all[i].id : i \in P} = {united[i] : i \in 1..Len(united)}

\* hold_back_imu_for_frames: IMU messages and images come out in the order of
\* their arrival, as long as no two images are processed at the same time.
InOrderOfArrival ==
  enabled /\ ~overlap => \A i, j \in 1..Len(out) : i < j => out[i].at < out[j].at

\* The union is complete, and holding it back loses and reorders nothing.
ImuInv == TypeOK /\ UnitedComplete /\ NothingLost /\ InOrderOfArrival

\* What is held back is published in the end.
HeldIsPublished == pending # <<>> ~> pending = <<>>
=============================================================================
