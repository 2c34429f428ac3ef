------------------------ MODULE AstraStreams_proofs ------------------------
(***************************************************************************)
(* The streams of an Astra camera run while they have subscribers, in      *)
(* whatever order subscriptions, toggles and reconfigurations come and     *)
(* however many there are: theorems about AstraStreams.                    *)
(***************************************************************************)
EXTENDS AstraStreams, TLAPS

-----------------------------------------------------------------------------
\* The type invariant in parts, which are proved apart.

Booleans == useUVC \in BOOLEAN
Sets ==
  /\ supported \subseteq Streams /\ advertised \subseteq Streams
  /\ enabled \subseteq Streams /\ modes \subseteq Streams /\ created \subseteq Streams
  /\ started \subseteq Streams /\ failed \subseteq Streams /\ list \subseteq Streams
Camera == uvc \in [opened : BOOLEAN, handle : BOOLEAN, streaming : BOOLEAN]
Points ==
  /\ life \in {"new", "advertised", "up", "joining", "cleaned", "gone"}
  /\ poll \in {"none", "test", "wait", "read", "ended"}
  /\ tf \in {"none", "running", "ended"}
  /\ crash \in {"none", "no_mode", "null_stream", "no_handle"}
Spins == spin \in {Idle} \cup ({"setting", "uvc"} \X Streams)
Outside ==
  /\ subs \in [Streams -> 0..MaxSubs] /\ events \in 0..MaxEvents
Event   == [kind : Kinds, stream : Streams]
Waiting == queue \in Seq(Event)

LEMMA TypeParts ==
  TypeOK <=> Booleans /\ Sets /\ Camera /\ Points /\ Spins /\ Outside /\ Waiting
  BY DEF TypeOK, Booleans, Sets, Camera, Points, Spins, Outside, Event, Waiting

-----------------------------------------------------------------------------
\* The inductive invariant.

\* What has not begun while the node is being built.
Built ==
  /\ life \in {"new", "advertised"} => /\ poll = "none" /\ started = {} /\ uvc = NoCamera
                                       /\ spin # <<"uvc", Color>>
  /\ life = "new" => advertised = {} /\ subs = [s \in Streams |-> 0]

\* Colour comes either from a stream or from the UVC camera.
ColorOnce ==
  /\ ~useUVC => uvc = NoCamera
  /\ useUVC /\ life # "new" => Color \notin enabled
  /\ useUVC /\ life = "advertised" => Color \notin advertised /\ subs[Color] = 0
  /\ uvc.handle => uvc.opened
UVCStarting == \A s \in Streams : spin = <<"uvc", s>> => ~OwnStream(s)
Toggling    == \A i \in 1..Len(queue) :
  queue[i].kind \in {"on", "off"} => OwnStream(queue[i].stream)

\* A callback that waits for the ROS thread.
Call(k, s) == [kind |-> k, stream |-> s]
Pending(k, s) == \E i \in 1..Len(queue) : queue[i] = Call(k, s)

\* A stream that does not follow its subscribers has a callback pending that will
\* make it do so.
Follows ==
  life = "up" /\ crash = "none" =>
    \A s \in enabled \ failed : /\ s \notin started /\ subs[s] > 0 => Pending("sub", s)
                                /\ s \in started /\ subs[s] = 0 => Pending("unsub", s)

\* The same of the UVC camera, which may be about to be started.
Starting == spin = <<"uvc", Color>>
CameraFollows ==
  life = "up" /\ crash = "none" /\ uvc.handle =>
    /\ ~uvc.streaming /\ subs[Color] > 0 => Pending("sub", Color) \/ Starting
    /\ uvc.streaming \/ Starting => subs[Color] > 0 \/ Pending("unsub", Color)

\* The camera is not started for a subscriber that is gone: its unsubscription
\* comes after.
InTurn ==
  \A i \in 1..Len(queue) : queue[i] = Call("sub", Color) /\ subs[Color] = 0 =>
     \E j \in (i + 1)..Len(queue) : queue[j] = Call("unsub", Color)

StreamsIInv == /\ Built /\ ColorOnce /\ UVCStarting /\ Toggling
               /\ PollReadsLiveStreams /\ Follows /\ CameraFollows /\ InTurn

-----------------------------------------------------------------------------
\* The steps, with the threads that take them.

LEMMA Steps ==
  ASSUME [Next]_vars
  PROVE  \/ Advertise \/ InitDone \/ InitFails
         \/ PollTests \/ PollWaits \/ PollReads \/ TfEnds
         \/ Unplugged \/ CleanStreams \/ MembersDestroyed
         \/ \E s \in Streams :
              \/ imageSubscribedCallback(s) \/ imageUnsubscribedCallback(s)
              \/ \E on \in BOOLEAN : toggleSensor(s, on)
              \/ reconfigureCallback(s) \/ SettingChecks(s) \/ SettingActs(s)
              \/ UVCSubscribed(s) \/ UVCStarts(s) \/ UVCUnsubscribed(s)
              \/ \E k \in Kinds : Calls(k, s)
         \/ UNCHANGED vars
  BY DEF Next, Building, RosThread, Polling, Cleaning

LEMMA BooleansStep ==
  ASSUME Booleans, [Next]_vars
  PROVE  Booleans'
  <1> USE DEF config, streams, outside, Booleans
  <1>1. CASE Advertise
    BY <1>1 DEF Advertise
  <1>2. CASE InitDone
    BY <1>2 DEF InitDone, StartStreams
  <1>3. CASE InitFails
    BY <1>3 DEF InitFails
  <1>4. CASE PollTests
    BY <1>4 DEF PollTests
  <1>5. CASE PollWaits
    BY <1>5 DEF PollWaits
  <1>6. CASE PollReads
    BY <1>6 DEF PollReads
  <1>7. CASE TfEnds
    BY <1>7 DEF TfEnds
  <1>8. CASE Unplugged
    BY <1>8 DEF Unplugged
  <1>9. CASE CleanStreams
    BY <1>9 DEF CleanStreams, StopStreams
  <1>10. CASE MembersDestroyed
    BY <1>10 DEF MembersDestroyed
  <1>11. ASSUME NEW s \in Streams, imageSubscribedCallback(s) PROVE Booleans'
    BY <1>11 DEF imageSubscribedCallback, Take, StartStreams
  <1>12. ASSUME NEW s \in Streams, imageUnsubscribedCallback(s) PROVE Booleans'
    BY <1>12 DEF imageUnsubscribedCallback, Take
  <1>13. ASSUME NEW s \in Streams, NEW on \in BOOLEAN, toggleSensor(s, on) PROVE Booleans'
    BY <1>13 DEF toggleSensor, Take, StartStreams, StopStreams, Crashed
  <1>14. ASSUME NEW s \in Streams, reconfigureCallback(s) PROVE Booleans'
    BY <1>14 DEF reconfigureCallback, Take, StartStreams, StopStreams, Crashed
  <1>15. ASSUME NEW s \in Streams, SettingChecks(s) PROVE Booleans'
    BY <1>15 DEF SettingChecks, Take
  <1>16. ASSUME NEW s \in Streams, SettingActs(s) PROVE Booleans'
    BY <1>16 DEF SettingActs, Crashed
  <1>17. ASSUME NEW s \in Streams, UVCSubscribed(s) PROVE Booleans'
    BY <1>17 DEF UVCSubscribed, Take, Crashed
  <1>18. ASSUME NEW s \in Streams, UVCStarts(s) PROVE Booleans'
    BY <1>18 DEF UVCStarts, Crashed
  <1>19. ASSUME NEW s \in Streams, UVCUnsubscribed(s) PROVE Booleans'
    BY <1>19 DEF UVCUnsubscribed, Take
  <1>20. ASSUME NEW s \in Streams, NEW k \in Kinds, Calls(k, s) PROVE Booleans'
    BY <1>20 DEF Calls
  <1>21. CASE UNCHANGED vars
    BY <1>21 DEF vars
  <1>22. QED
    BY <1>1, <1>2, <1>3, <1>4, <1>5, <1>6, <1>7, <1>8, <1>9, <1>10, <1>11,
       <1>12, <1>13, <1>14, <1>15, <1>16, <1>17, <1>18, <1>19, <1>20, <1>21, Steps

LEMMA SetsStep ==
  ASSUME Sets, [Next]_vars
  PROVE  Sets'
  <1> USE StreamsAssumption DEF config, streams, outside, Sets, Chosen, Kept
  <1>1. CASE Advertise
    BY <1>1 DEF Advertise
  <1>2. CASE InitDone
    BY <1>2 DEF InitDone, StartStreams
  <1>3. CASE InitFails
    BY <1>3 DEF InitFails
  <1>4. CASE PollTests
    BY <1>4 DEF PollTests
  <1>5. CASE PollWaits
    BY <1>5 DEF PollWaits
  <1>6. CASE PollReads
    BY <1>6 DEF PollReads
  <1>7. CASE TfEnds
    BY <1>7 DEF TfEnds
  <1>8. CASE Unplugged
    BY <1>8 DEF Unplugged
  <1>9. CASE CleanStreams
    BY <1>9 DEF CleanStreams, StopStreams
  <1>10. CASE MembersDestroyed
    BY <1>10 DEF MembersDestroyed
  <1>11. ASSUME NEW s \in Streams, imageSubscribedCallback(s) PROVE Sets'
    BY <1>11 DEF imageSubscribedCallback, Take, StartStreams
  <1>12. ASSUME NEW s \in Streams, imageUnsubscribedCallback(s) PROVE Sets'
    BY <1>12 DEF imageUnsubscribedCallback, Take
  <1>13. ASSUME NEW s \in Streams, NEW on \in BOOLEAN, toggleSensor(s, on) PROVE Sets'
    BY <1>13 DEF toggleSensor, Take, StartStreams, StopStreams, Crashed
  <1>14. ASSUME NEW s \in Streams, reconfigureCallback(s) PROVE Sets'
    BY <1>14 DEF reconfigureCallback, Take, StartStreams, StopStreams, Crashed
  <1>15. ASSUME NEW s \in Streams, SettingChecks(s) PROVE Sets'
    BY <1>15 DEF SettingChecks, Take
  <1>16. ASSUME NEW s \in Streams, SettingActs(s) PROVE Sets'
    BY <1>16 DEF SettingActs, Crashed
  <1>17. ASSUME NEW s \in Streams, UVCSubscribed(s) PROVE Sets'
    BY <1>17 DEF UVCSubscribed, Take, Crashed
  <1>18. ASSUME NEW s \in Streams, UVCStarts(s) PROVE Sets'
    BY <1>18 DEF UVCStarts, Crashed
  <1>19. ASSUME NEW s \in Streams, UVCUnsubscribed(s) PROVE Sets'
    BY <1>19 DEF UVCUnsubscribed, Take
  <1>20. ASSUME NEW s \in Streams, NEW k \in Kinds, Calls(k, s) PROVE Sets'
    BY <1>20 DEF Calls
  <1>21. CASE UNCHANGED vars
    BY <1>21 DEF vars
  <1>22. QED
    BY <1>1, <1>2, <1>3, <1>4, <1>5, <1>6, <1>7, <1>8, <1>9, <1>10, <1>11,
       <1>12, <1>13, <1>14, <1>15, <1>16, <1>17, <1>18, <1>19, <1>20, <1>21, Steps

LEMMA CameraStep ==
  ASSUME Camera, [Next]_vars
  PROVE  Camera'
  <1> USE DEF config, streams, outside, Camera, NoCamera
  <1>1. CASE Advertise
    BY <1>1 DEF Advertise
  <1>2. CASE InitDone
    BY <1>2 DEF InitDone, StartStreams
  <1>3. CASE InitFails
    BY <1>3 DEF InitFails
  <1>4. CASE PollTests
    BY <1>4 DEF PollTests
  <1>5. CASE PollWaits
    BY <1>5 DEF PollWaits
  <1>6. CASE PollReads
    BY <1>6 DEF PollReads
  <1>7. CASE TfEnds
    BY <1>7 DEF TfEnds
  <1>8. CASE Unplugged
    BY <1>8 DEF Unplugged
  <1>9. CASE CleanStreams
    BY <1>9 DEF CleanStreams, StopStreams
  <1>10. CASE MembersDestroyed
    BY <1>10 DEF MembersDestroyed
  <1>11. ASSUME NEW s \in Streams, imageSubscribedCallback(s) PROVE Camera'
    BY <1>11 DEF imageSubscribedCallback, Take, StartStreams
  <1>12. ASSUME NEW s \in Streams, imageUnsubscribedCallback(s) PROVE Camera'
    BY <1>12 DEF imageUnsubscribedCallback, Take
  <1>13. ASSUME NEW s \in Streams, NEW on \in BOOLEAN, toggleSensor(s, on) PROVE Camera'
    BY <1>13 DEF toggleSensor, Take, StartStreams, StopStreams, Crashed
  <1>14. ASSUME NEW s \in Streams, reconfigureCallback(s) PROVE Camera'
    BY <1>14 DEF reconfigureCallback, Take, StartStreams, StopStreams, Crashed
  <1>15. ASSUME NEW s \in Streams, SettingChecks(s) PROVE Camera'
    BY <1>15 DEF SettingChecks, Take
  <1>16. ASSUME NEW s \in Streams, SettingActs(s) PROVE Camera'
    BY <1>16 DEF SettingActs, Crashed
  <1>17. ASSUME NEW s \in Streams, UVCSubscribed(s) PROVE Camera'
    BY <1>17 DEF UVCSubscribed, Take, Crashed
  <1>18. ASSUME NEW s \in Streams, UVCStarts(s) PROVE Camera'
    BY <1>18 DEF UVCStarts, Crashed
  <1>19. ASSUME NEW s \in Streams, UVCUnsubscribed(s) PROVE Camera'
    BY <1>19 DEF UVCUnsubscribed, Take
  <1>20. ASSUME NEW s \in Streams, NEW k \in Kinds, Calls(k, s) PROVE Camera'
    BY <1>20 DEF Calls
  <1>21. CASE UNCHANGED vars
    BY <1>21 DEF vars
  <1>22. QED
    BY <1>1, <1>2, <1>3, <1>4, <1>5, <1>6, <1>7, <1>8, <1>9, <1>10, <1>11,
       <1>12, <1>13, <1>14, <1>15, <1>16, <1>17, <1>18, <1>19, <1>20, <1>21, Steps

LEMMA PointsStep ==
  ASSUME Points, [Next]_vars
  PROVE  Points'
  <1> USE DEF config, streams, outside, Points
  <1>1. CASE Advertise
    BY <1>1 DEF Advertise
  <1>2. CASE InitDone
    BY <1>2 DEF InitDone, StartStreams
  <1>3. CASE InitFails
    BY <1>3 DEF InitFails
  <1>4. CASE PollTests
    BY <1>4 DEF PollTests
  <1>5. CASE PollWaits
    BY <1>5 DEF PollWaits
  <1>6. CASE PollReads
    BY <1>6 DEF PollReads
  <1>7. CASE TfEnds
    BY <1>7 DEF TfEnds
  <1>8. CASE Unplugged
    BY <1>8 DEF Unplugged
  <1>9. CASE CleanStreams
    BY <1>9 DEF CleanStreams, StopStreams
  <1>10. CASE MembersDestroyed
    BY <1>10 DEF MembersDestroyed
  <1>11. ASSUME NEW s \in Streams, imageSubscribedCallback(s) PROVE Points'
    BY <1>11 DEF imageSubscribedCallback, Take, StartStreams
  <1>12. ASSUME NEW s \in Streams, imageUnsubscribedCallback(s) PROVE Points'
    BY <1>12 DEF imageUnsubscribedCallback, Take
  <1>13. ASSUME NEW s \in Streams, NEW on \in BOOLEAN, toggleSensor(s, on) PROVE Points'
    BY <1>13 DEF toggleSensor, Take, StartStreams, StopStreams, Crashed
  <1>14. ASSUME NEW s \in Streams, reconfigureCallback(s) PROVE Points'
    BY <1>14 DEF reconfigureCallback, Take, StartStreams, StopStreams, Crashed
  <1>15. ASSUME NEW s \in Streams, SettingChecks(s) PROVE Points'
    BY <1>15 DEF SettingChecks, Take
  <1>16. ASSUME NEW s \in Streams, SettingActs(s) PROVE Points'
    BY <1>16 DEF SettingActs, Crashed
  <1>17. ASSUME NEW s \in Streams, UVCSubscribed(s) PROVE Points'
    BY <1>17 DEF UVCSubscribed, Take, Crashed
  <1>18. ASSUME NEW s \in Streams, UVCStarts(s) PROVE Points'
    BY <1>18 DEF UVCStarts, Crashed
  <1>19. ASSUME NEW s \in Streams, UVCUnsubscribed(s) PROVE Points'
    BY <1>19 DEF UVCUnsubscribed, Take
  <1>20. ASSUME NEW s \in Streams, NEW k \in Kinds, Calls(k, s) PROVE Points'
    BY <1>20 DEF Calls
  <1>21. CASE UNCHANGED vars
    BY <1>21 DEF vars
  <1>22. QED
    BY <1>1, <1>2, <1>3, <1>4, <1>5, <1>6, <1>7, <1>8, <1>9, <1>10, <1>11,
       <1>12, <1>13, <1>14, <1>15, <1>16, <1>17, <1>18, <1>19, <1>20, <1>21, Steps

LEMMA SpinsStep ==
  ASSUME Spins, [Next]_vars
  PROVE  Spins'
  <1> USE DEF config, streams, outside, Spins, Idle
  <1>1. CASE Advertise
    BY <1>1 DEF Advertise
  <1>2. CASE InitDone
    BY <1>2 DEF InitDone, StartStreams
  <1>3. CASE InitFails
    BY <1>3 DEF InitFails
  <1>4. CASE PollTests
    BY <1>4 DEF PollTests
  <1>5. CASE PollWaits
    BY <1>5 DEF PollWaits
  <1>6. CASE PollReads
    BY <1>6 DEF PollReads
  <1>7. CASE TfEnds
    BY <1>7 DEF TfEnds
  <1>8. CASE Unplugged
    BY <1>8 DEF Unplugged
  <1>9. CASE CleanStreams
    BY <1>9 DEF CleanStreams, StopStreams
  <1>10. CASE MembersDestroyed
    BY <1>10 DEF MembersDestroyed
  <1>11. ASSUME NEW s \in Streams, imageSubscribedCallback(s) PROVE Spins'
    BY <1>11 DEF imageSubscribedCallback, Take, StartStreams
  <1>12. ASSUME NEW s \in Streams, imageUnsubscribedCallback(s) PROVE Spins'
    BY <1>12 DEF imageUnsubscribedCallback, Take
  <1>13. ASSUME NEW s \in Streams, NEW on \in BOOLEAN, toggleSensor(s, on) PROVE Spins'
    BY <1>13 DEF toggleSensor, Take, StartStreams, StopStreams, Crashed
  <1>14. ASSUME NEW s \in Streams, reconfigureCallback(s) PROVE Spins'
    BY <1>14 DEF reconfigureCallback, Take, StartStreams, StopStreams, Crashed
  <1>15. ASSUME NEW s \in Streams, SettingChecks(s) PROVE Spins'
    BY <1>15 DEF SettingChecks, Take
  <1>16. ASSUME NEW s \in Streams, SettingActs(s) PROVE Spins'
    BY <1>16 DEF SettingActs, Crashed
  <1>17. ASSUME NEW s \in Streams, UVCSubscribed(s) PROVE Spins'
    BY <1>17 DEF UVCSubscribed, Take, Crashed
  <1>18. ASSUME NEW s \in Streams, UVCStarts(s) PROVE Spins'
    BY <1>18 DEF UVCStarts, Crashed
  <1>19. ASSUME NEW s \in Streams, UVCUnsubscribed(s) PROVE Spins'
    BY <1>19 DEF UVCUnsubscribed, Take
  <1>20. ASSUME NEW s \in Streams, NEW k \in Kinds, Calls(k, s) PROVE Spins'
    BY <1>20 DEF Calls
  <1>21. CASE UNCHANGED vars
    BY <1>21 DEF vars
  <1>22. QED
    BY <1>1, <1>2, <1>3, <1>4, <1>5, <1>6, <1>7, <1>8, <1>9, <1>10, <1>11,
       <1>12, <1>13, <1>14, <1>15, <1>16, <1>17, <1>18, <1>19, <1>20, <1>21, Steps

LEMMA OutsideStep ==
  ASSUME Outside, [Next]_vars
  PROVE  Outside'
  <1> USE StreamsAssumption DEF config, streams, outside, Outside
  <1>1. CASE Advertise
    BY <1>1 DEF Advertise
  <1>2. CASE InitDone
    BY <1>2 DEF InitDone, StartStreams
  <1>3. CASE InitFails
    BY <1>3 DEF InitFails
  <1>4. CASE PollTests
    BY <1>4 DEF PollTests
  <1>5. CASE PollWaits
    BY <1>5 DEF PollWaits
  <1>6. CASE PollReads
    BY <1>6 DEF PollReads
  <1>7. CASE TfEnds
    BY <1>7 DEF TfEnds
  <1>8. CASE Unplugged
    BY <1>8 DEF Unplugged
  <1>9. CASE CleanStreams
    BY <1>9 DEF CleanStreams, StopStreams
  <1>10. CASE MembersDestroyed
    BY <1>10 DEF MembersDestroyed
  <1>11. ASSUME NEW s \in Streams, imageSubscribedCallback(s) PROVE Outside'
    BY <1>11 DEF imageSubscribedCallback, Take, StartStreams
  <1>12. ASSUME NEW s \in Streams, imageUnsubscribedCallback(s) PROVE Outside'
    BY <1>12 DEF imageUnsubscribedCallback, Take
  <1>13. ASSUME NEW s \in Streams, NEW on \in BOOLEAN, toggleSensor(s, on) PROVE Outside'
    BY <1>13 DEF toggleSensor, Take, StartStreams, StopStreams, Crashed
  <1>14. ASSUME NEW s \in Streams, reconfigureCallback(s) PROVE Outside'
    BY <1>14 DEF reconfigureCallback, Take, StartStreams, StopStreams, Crashed
  <1>15. ASSUME NEW s \in Streams, SettingChecks(s) PROVE Outside'
    BY <1>15 DEF SettingChecks, Take
  <1>16. ASSUME NEW s \in Streams, SettingActs(s) PROVE Outside'
    BY <1>16 DEF SettingActs, Crashed
  <1>17. ASSUME NEW s \in Streams, UVCSubscribed(s) PROVE Outside'
    BY <1>17 DEF UVCSubscribed, Take, Crashed
  <1>18. ASSUME NEW s \in Streams, UVCStarts(s) PROVE Outside'
    BY <1>18 DEF UVCStarts, Crashed
  <1>19. ASSUME NEW s \in Streams, UVCUnsubscribed(s) PROVE Outside'
    BY <1>19 DEF UVCUnsubscribed, Take
  <1>20. ASSUME NEW s \in Streams, NEW k \in Kinds, Calls(k, s) PROVE Outside'
    BY <1>20 DEF Calls
  <1>21. CASE UNCHANGED vars
    BY <1>21 DEF vars
  <1>22. QED
    BY <1>1, <1>2, <1>3, <1>4, <1>5, <1>6, <1>7, <1>8, <1>9, <1>10, <1>11,
       <1>12, <1>13, <1>14, <1>15, <1>16, <1>17, <1>18, <1>19, <1>20, <1>21, Steps

LEMMA WaitingStep ==
  ASSUME Waiting, [Next]_vars
  PROVE  Waiting'
  <1> USE DEF config, streams, outside, Waiting, Event
  <1>1. CASE Advertise
    BY <1>1 DEF Advertise
  <1>2. CASE InitDone
    BY <1>2 DEF InitDone, StartStreams
  <1>3. CASE InitFails
    BY <1>3 DEF InitFails
  <1>4. CASE PollTests
    BY <1>4 DEF PollTests
  <1>5. CASE PollWaits
    BY <1>5 DEF PollWaits
  <1>6. CASE PollReads
    BY <1>6 DEF PollReads
  <1>7. CASE TfEnds
    BY <1>7 DEF TfEnds
  <1>8. CASE Unplugged
    BY <1>8 DEF Unplugged
  <1>9. CASE CleanStreams
    BY <1>9 DEF CleanStreams, StopStreams
  <1>10. CASE MembersDestroyed
    BY <1>10 DEF MembersDestroyed
  <1>11. ASSUME NEW s \in Streams, imageSubscribedCallback(s) PROVE Waiting'
    BY <1>11 DEF imageSubscribedCallback, Take, StartStreams
  <1>12. ASSUME NEW s \in Streams, imageUnsubscribedCallback(s) PROVE Waiting'
    BY <1>12 DEF imageUnsubscribedCallback, Take
  <1>13. ASSUME NEW s \in Streams, NEW on \in BOOLEAN, toggleSensor(s, on) PROVE Waiting'
    BY <1>13 DEF toggleSensor, Take, StartStreams, StopStreams, Crashed
  <1>14. ASSUME NEW s \in Streams, reconfigureCallback(s) PROVE Waiting'
    BY <1>14 DEF reconfigureCallback, Take, StartStreams, StopStreams, Crashed
  <1>15. ASSUME NEW s \in Streams, SettingChecks(s) PROVE Waiting'
    BY <1>15 DEF SettingChecks, Take
  <1>16. ASSUME NEW s \in Streams, SettingActs(s) PROVE Waiting'
    BY <1>16 DEF SettingActs, Crashed
  <1>17. ASSUME NEW s \in Streams, UVCSubscribed(s) PROVE Waiting'
    BY <1>17 DEF UVCSubscribed, Take, Crashed
  <1>18. ASSUME NEW s \in Streams, UVCStarts(s) PROVE Waiting'
    BY <1>18 DEF UVCStarts, Crashed
  <1>19. ASSUME NEW s \in Streams, UVCUnsubscribed(s) PROVE Waiting'
    BY <1>19 DEF UVCUnsubscribed, Take
  <1>20. ASSUME NEW s \in Streams, NEW k \in Kinds, Calls(k, s) PROVE Waiting'
    BY <1>20 DEF Calls
  <1>21. CASE UNCHANGED vars
    BY <1>21 DEF vars
  <1>22. QED
    BY <1>1, <1>2, <1>3, <1>4, <1>5, <1>6, <1>7, <1>8, <1>9, <1>10, <1>11,
       <1>12, <1>13, <1>14, <1>15, <1>16, <1>17, <1>18, <1>19, <1>20, <1>21, Steps

-----------------------------------------------------------------------------
\* What taking a callback from the queue, and adding one, leaves in it.

LEMMA TakeFacts ==
  ASSUME Waiting, NEW k, NEW s, Take(k, s)
  PROVE  /\ queue[1] = Call(k, s) /\ Len(queue) \in Nat /\ Len(queue) >= 1
         /\ Len(queue') = Len(queue) - 1
         /\ \A i \in 1..Len(queue') : queue'[i] = queue[i + 1]
         /\ \A c, t : Pending(c, t) /\ Call(c, t) # Call(k, s) => Pending(c, t)'
  <1>1. queue \in Seq(Event) /\ queue # <<>> /\ Head(queue) = Call(k, s) /\ queue' = Tail(queue)
    BY DEF Take, Waiting, Call
  <1>2. queue[1] = Call(k, s) /\ Len(queue) \in Nat /\ Len(queue) >= 1
    BY <1>1
  <1>3. Len(queue') = Len(queue) - 1 /\ \A i \in 1..(Len(queue) - 1) : queue'[i] = queue[i + 1]
    BY <1>1
  <1>4. ASSUME NEW c, NEW t, Pending(c, t), Call(c, t) # Call(k, s) PROVE Pending(c, t)'
    <2>1. PICK i \in 1..Len(queue) : queue[i] = Call(c, t)
      BY <1>4 DEF Pending
    <2>2. i - 1 \in 1..Len(queue') /\ queue'[i - 1] = Call(c, t)
      BY <1>2, <1>3, <1>4, <2>1
    <2>3. QED
      BY <2>2 DEF Pending, Call
  <1>5. QED
    BY <1>2, <1>3, <1>4

LEMMA CallFacts ==
  ASSUME Waiting, NEW k \in Kinds, NEW s \in Streams, Calls(k, s)
  PROVE  /\ Len(queue) \in Nat /\ Len(queue') = Len(queue) + 1
         /\ queue'[Len(queue) + 1] = Call(k, s)
         /\ \A i \in 1..Len(queue) : queue'[i] = queue[i]
         /\ Pending(k, s)'
         /\ \A c, t : Pending(c, t) => Pending(c, t)'
  <1>1. queue \in Seq(Event) /\ queue' = Append(queue, Call(k, s)) /\ Call(k, s) \in Event
    BY DEF Calls, Waiting, Call, Event
  <1>2. /\ Len(queue) \in Nat /\ Len(queue') = Len(queue) + 1
        /\ queue'[Len(queue) + 1] = Call(k, s)
        /\ \A i \in 1..Len(queue) : queue'[i] = queue[i]
    BY <1>1
  <1>3. Pending(k, s)'
    BY <1>2 DEF Pending, Call
  <1>4. \A c, t : Pending(c, t) => Pending(c, t)'
    BY <1>2 DEF Pending, Call
  <1>5. QED
    BY <1>2, <1>3, <1>4

-----------------------------------------------------------------------------
\* The parts of the inductive invariant.

LEMMA BuiltStep ==
  ASSUME Points, Built, [Next]_vars
  PROVE  Built'
  <1> USE StreamsAssumption DEF config, streams, outside, Points, Built, NoCamera, Idle
  <1>1. CASE Advertise
    BY <1>1 DEF Advertise
  <1>2. CASE InitDone
    BY <1>2 DEF InitDone, StartStreams
  <1>3. CASE InitFails
    BY <1>3 DEF InitFails
  <1>4. CASE PollTests
    BY <1>4 DEF PollTests
  <1>5. CASE PollWaits
    BY <1>5 DEF PollWaits
  <1>6. CASE PollReads
    BY <1>6 DEF PollReads
  <1>7. CASE TfEnds
    BY <1>7 DEF TfEnds
  <1>8. CASE Unplugged
    BY <1>8 DEF Unplugged
  <1>9. CASE CleanStreams
    BY <1>9 DEF CleanStreams, StopStreams
  <1>10. CASE MembersDestroyed
    BY <1>10 DEF MembersDestroyed
  <1>11. ASSUME NEW s \in Streams, imageSubscribedCallback(s) PROVE Built'
    BY <1>11 DEF imageSubscribedCallback, Take, StartStreams
  <1>12. ASSUME NEW s \in Streams, imageUnsubscribedCallback(s) PROVE Built'
    BY <1>12 DEF imageUnsubscribedCallback, Take
  <1>13. ASSUME NEW s \in Streams, NEW on \in BOOLEAN, toggleSensor(s, on) PROVE Built'
    BY <1>13 DEF toggleSensor, Take, StartStreams, StopStreams, Crashed, DeviceLockFree
  <1>14. ASSUME NEW s \in Streams, reconfigureCallback(s) PROVE Built'
    BY <1>14 DEF reconfigureCallback, Take, StartStreams, StopStreams, Crashed, DeviceLockFree
  <1>15. ASSUME NEW s \in Streams, SettingChecks(s) PROVE Built'
    BY <1>15 DEF SettingChecks, Take
  <1>16. ASSUME NEW s \in Streams, SettingActs(s) PROVE Built'
    BY <1>16 DEF SettingActs, Crashed
  <1>17. ASSUME NEW s \in Streams, UVCSubscribed(s) PROVE Built'
    BY <1>17 DEF UVCSubscribed, Take, Crashed
  <1>18. ASSUME NEW s \in Streams, UVCStarts(s) PROVE Built'
    <2>1. life' = life /\ poll' = poll /\ started' = started /\ advertised' = advertised
          /\ subs' = subs
      BY <1>18 DEF UVCStarts, Crashed
    <2>2. CASE life \in {"new", "advertised"}
      <3>1. ~uvc.handle
        BY <2>2
      <3>2. uvc' = uvc /\ spin' = spin
        BY <1>18, <3>1 DEF UVCStarts, Crashed
      <3>3. QED
        BY <2>1, <3>2
    <2>3. QED
      BY <2>1, <2>2
  <1>19. ASSUME NEW s \in Streams, UVCUnsubscribed(s) PROVE Built'
    <2>1. life' = life /\ poll' = poll /\ started' = started /\ advertised' = advertised
          /\ subs' = subs /\ spin' = spin
      BY <1>19 DEF UVCUnsubscribed, Take
    <2>2. uvc' = uvc \/ uvc' = [uvc EXCEPT !.streaming = FALSE]
      BY <1>19 DEF UVCUnsubscribed, Take
    <2>3. uvc = NoCamera => uvc' = NoCamera
      BY <2>2
    <2>4. QED
      BY <2>1, <2>3
  <1>20. ASSUME NEW s \in Streams, NEW k \in Kinds, Calls(k, s) PROVE Built'
    BY <1>20 DEF Calls
  <1>21. CASE UNCHANGED vars
    BY <1>21 DEF vars
  <1>22. QED
    BY <1>1, <1>2, <1>3, <1>4, <1>5, <1>6, <1>7, <1>8, <1>9, <1>10, <1>11,
       <1>12, <1>13, <1>14, <1>15, <1>16, <1>17, <1>18, <1>19, <1>20, <1>21, Steps

LEMMA PollStep ==
  ASSUME Points, Built, PollReadsLiveStreams, [Next]_vars
  PROVE  PollReadsLiveStreams'
  <1> USE DEF config, streams, outside, Points, Built, PollReadsLiveStreams
  <1>1. CASE Advertise
    BY <1>1 DEF Advertise
  <1>2. CASE InitDone
    BY <1>2 DEF InitDone, StartStreams
  <1>3. CASE InitFails
    BY <1>3 DEF InitFails
  <1>4. CASE PollTests
    BY <1>4 DEF PollTests
  <1>5. CASE PollWaits
    BY <1>5 DEF PollWaits
  <1>6. CASE PollReads
    BY <1>6 DEF PollReads
  <1>7. CASE TfEnds
    BY <1>7 DEF TfEnds
  <1>8. CASE Unplugged
    BY <1>8 DEF Unplugged
  <1>9. CASE CleanStreams
    BY <1>9 DEF CleanStreams, StopStreams, Joined
  <1>10. CASE MembersDestroyed
    BY <1>10 DEF MembersDestroyed
  <1>11. ASSUME NEW s \in Streams, imageSubscribedCallback(s) PROVE PollReadsLiveStreams'
    BY <1>11 DEF imageSubscribedCallback, Take, StartStreams
  <1>12. ASSUME NEW s \in Streams, imageUnsubscribedCallback(s) PROVE PollReadsLiveStreams'
    BY <1>12 DEF imageUnsubscribedCallback, Take
  <1>13. ASSUME NEW s \in Streams, NEW on \in BOOLEAN, toggleSensor(s, on) PROVE PollReadsLiveStreams'
    BY <1>13 DEF toggleSensor, Take, StartStreams, StopStreams, Crashed
  <1>14. ASSUME NEW s \in Streams, reconfigureCallback(s) PROVE PollReadsLiveStreams'
    BY <1>14 DEF reconfigureCallback, Take, StartStreams, StopStreams, Crashed
  <1>15. ASSUME NEW s \in Streams, SettingChecks(s) PROVE PollReadsLiveStreams'
    BY <1>15 DEF SettingChecks, Take
  <1>16. ASSUME NEW s \in Streams, SettingActs(s) PROVE PollReadsLiveStreams'
    BY <1>16 DEF SettingActs, Crashed
  <1>17. ASSUME NEW s \in Streams, UVCSubscribed(s) PROVE PollReadsLiveStreams'
    BY <1>17 DEF UVCSubscribed, Take, Crashed
  <1>18. ASSUME NEW s \in Streams, UVCStarts(s) PROVE PollReadsLiveStreams'
    BY <1>18 DEF UVCStarts, Crashed
  <1>19. ASSUME NEW s \in Streams, UVCUnsubscribed(s) PROVE PollReadsLiveStreams'
    BY <1>19 DEF UVCUnsubscribed, Take
  <1>20. ASSUME NEW s \in Streams, NEW k \in Kinds, Calls(k, s) PROVE PollReadsLiveStreams'
    BY <1>20 DEF Calls
  <1>21. CASE UNCHANGED vars
    BY <1>21 DEF vars
  <1>22. QED
    BY <1>1, <1>2, <1>3, <1>4, <1>5, <1>6, <1>7, <1>8, <1>9, <1>10, <1>11,
       <1>12, <1>13, <1>14, <1>15, <1>16, <1>17, <1>18, <1>19, <1>20, <1>21, Steps

LEMMA ColorOnceStep ==
  ASSUME Points, Waiting, Outside, Sets, Camera, Built, Toggling, ColorOnce, [Next]_vars
  PROVE  ColorOnce'
  <1> USE StreamsAssumption DEF config, streams, outside, Points, Built, ColorOnce, Chosen, Kept, Outside, Sets, Camera
  <1>1. CASE Advertise
    BY <1>1 DEF Advertise
  <1>2. CASE InitDone
    BY <1>2 DEF InitDone, StartStreams
  <1>3. CASE InitFails
    BY <1>3 DEF InitFails
  <1>4. CASE PollTests
    BY <1>4 DEF PollTests
  <1>5. CASE PollWaits
    BY <1>5 DEF PollWaits
  <1>6. CASE PollReads
    BY <1>6 DEF PollReads
  <1>7. CASE TfEnds
    BY <1>7 DEF TfEnds
  <1>8. CASE Unplugged
    BY <1>8 DEF Unplugged
  <1>9. CASE CleanStreams
    BY <1>9 DEF CleanStreams, StopStreams, NoCamera
  <1>10. CASE MembersDestroyed
    BY <1>10 DEF MembersDestroyed
  <1>11. ASSUME NEW s \in Streams, imageSubscribedCallback(s) PROVE ColorOnce'
    BY <1>11 DEF imageSubscribedCallback, Take, StartStreams
  <1>12. ASSUME NEW s \in Streams, imageUnsubscribedCallback(s) PROVE ColorOnce'
    BY <1>12 DEF imageUnsubscribedCallback, Take
  <1>13. ASSUME NEW s \in Streams, NEW on \in BOOLEAN, toggleSensor(s, on) PROVE ColorOnce'
    <2>1. useUVC' = useUVC /\ life' = life /\ advertised' = advertised /\ uvc' = uvc
          /\ subs' = subs
      BY <1>13 DEF toggleSensor, Take, Crashed
    <2>2. queue[1] = Call(IF on THEN "on" ELSE "off", s) /\ 1 \in 1..Len(queue)
      BY <1>13, TakeFacts DEF toggleSensor
    <2>3. ~(useUVC /\ s = Color)
      BY <2>2 DEF Toggling, OwnStream, Call
    <2>4. enabled' \subseteq enabled \cup {s}
      BY <1>13 DEF toggleSensor, Crashed
    <2>5. QED
      BY <2>1, <2>3, <2>4
  <1>14. ASSUME NEW s \in Streams, reconfigureCallback(s) PROVE ColorOnce'
    BY <1>14 DEF reconfigureCallback, Take, StartStreams, StopStreams, Crashed
  <1>15. ASSUME NEW s \in Streams, SettingChecks(s) PROVE ColorOnce'
    BY <1>15 DEF SettingChecks, Take
  <1>16. ASSUME NEW s \in Streams, SettingActs(s) PROVE ColorOnce'
    BY <1>16 DEF SettingActs, Crashed
  <1>17. ASSUME NEW s \in Streams, UVCSubscribed(s) PROVE ColorOnce'
    BY <1>17 DEF UVCSubscribed, Take, Crashed
  <1>18. ASSUME NEW s \in Streams, UVCStarts(s) PROVE ColorOnce'
    <2>1. life' = life /\ useUVC' = useUVC /\ enabled' = enabled /\ advertised' = advertised
          /\ subs' = subs
      BY <1>18 DEF UVCStarts, Crashed
    <2>2. \/ uvc' = uvc
          \/ /\ uvc.handle
             /\ \E ok \in BOOLEAN : uvc' = [uvc EXCEPT !.streaming = ok, !.handle = ok]
      BY <1>18 DEF UVCStarts, Crashed
    <2>3. uvc.handle => uvc.opened /\ useUVC
      BY DEF NoCamera
    <2>4. /\ uvc'.handle => uvc'.opened
          /\ ~useUVC => uvc' = uvc
      BY <2>2, <2>3
    <2>5. QED
      BY <2>1, <2>4
  <1>19. ASSUME NEW s \in Streams, UVCUnsubscribed(s) PROVE ColorOnce'
    <2>1. life' = life /\ useUVC' = useUVC /\ enabled' = enabled /\ advertised' = advertised
          /\ subs' = subs
      BY <1>19 DEF UVCUnsubscribed, Take, Crashed
    <2>2. uvc' = uvc \/ uvc' = [uvc EXCEPT !.streaming = FALSE]
      BY <1>19 DEF UVCUnsubscribed, Take
    <2>3. /\ uvc'.handle => uvc'.opened
          /\ uvc = NoCamera => uvc' = NoCamera
      BY <2>2 DEF NoCamera
    <2>4. QED
      BY <2>1, <2>3
  <1>20. ASSUME NEW s \in Streams, NEW k \in Kinds, Calls(k, s) PROVE ColorOnce'
    BY <1>20 DEF Calls
  <1>21. CASE UNCHANGED vars
    BY <1>21 DEF vars
  <1>22. QED
    BY <1>1, <1>2, <1>3, <1>4, <1>5, <1>6, <1>7, <1>8, <1>9, <1>10, <1>11,
       <1>12, <1>13, <1>14, <1>15, <1>16, <1>17, <1>18, <1>19, <1>20, <1>21, Steps

LEMMA UVCStartingStep ==
  ASSUME UVCStarting, [Next]_vars
  PROVE  UVCStarting'
  <1> USE DEF config, streams, outside, UVCStarting, OwnStream, Idle
  <1>1. CASE Advertise
    BY <1>1 DEF Advertise
  <1>2. CASE InitDone
    BY <1>2 DEF InitDone, StartStreams
  <1>3. CASE InitFails
    BY <1>3 DEF InitFails
  <1>4. CASE PollTests
    BY <1>4 DEF PollTests
  <1>5. CASE PollWaits
    BY <1>5 DEF PollWaits
  <1>6. CASE PollReads
    BY <1>6 DEF PollReads
  <1>7. CASE TfEnds
    BY <1>7 DEF TfEnds
  <1>8. CASE Unplugged
    BY <1>8 DEF Unplugged
  <1>9. CASE CleanStreams
    BY <1>9 DEF CleanStreams, StopStreams
  <1>10. CASE MembersDestroyed
    BY <1>10 DEF MembersDestroyed
  <1>11. ASSUME NEW s \in Streams, imageSubscribedCallback(s) PROVE UVCStarting'
    BY <1>11 DEF imageSubscribedCallback, Take, StartStreams
  <1>12. ASSUME NEW s \in Streams, imageUnsubscribedCallback(s) PROVE UVCStarting'
    BY <1>12 DEF imageUnsubscribedCallback, Take
  <1>13. ASSUME NEW s \in Streams, NEW on \in BOOLEAN, toggleSensor(s, on) PROVE UVCStarting'
    BY <1>13 DEF toggleSensor, Take, StartStreams, StopStreams, Crashed
  <1>14. ASSUME NEW s \in Streams, reconfigureCallback(s) PROVE UVCStarting'
    BY <1>14 DEF reconfigureCallback, Take, StartStreams, StopStreams, Crashed
  <1>15. ASSUME NEW s \in Streams, SettingChecks(s) PROVE UVCStarting'
    BY <1>15 DEF SettingChecks, Take
  <1>16. ASSUME NEW s \in Streams, SettingActs(s) PROVE UVCStarting'
    BY <1>16 DEF SettingActs, Crashed
  <1>17. ASSUME NEW s \in Streams, UVCSubscribed(s) PROVE UVCStarting'
    <2>1. useUVC' = useUVC /\ ~OwnStream(s)
      BY <1>17 DEF UVCSubscribed, Crashed
    <2>2. spin' = spin \/ spin' = <<"uvc", s>>
      BY <1>17 DEF UVCSubscribed, Crashed
    <2>3. \A t \in Streams : spin' = <<"uvc", t>> => spin = <<"uvc", t>> \/ t = s
      BY <2>2
    <2>4. QED
      BY <2>1, <2>3
  <1>18. ASSUME NEW s \in Streams, UVCStarts(s) PROVE UVCStarting'
    BY <1>18 DEF UVCStarts, Crashed
  <1>19. ASSUME NEW s \in Streams, UVCUnsubscribed(s) PROVE UVCStarting'
    BY <1>19 DEF UVCUnsubscribed, Take
  <1>20. ASSUME NEW s \in Streams, NEW k \in Kinds, Calls(k, s) PROVE UVCStarting'
    BY <1>20 DEF Calls
  <1>21. CASE UNCHANGED vars
    BY <1>21 DEF vars
  <1>22. QED
    BY <1>1, <1>2, <1>3, <1>4, <1>5, <1>6, <1>7, <1>8, <1>9, <1>10, <1>11,
       <1>12, <1>13, <1>14, <1>15, <1>16, <1>17, <1>18, <1>19, <1>20, <1>21, Steps

LEMMA TogglingStep ==
  ASSUME Waiting, Toggling, [Next]_vars
  PROVE  Toggling'
  <1> USE DEF config, streams, outside
  <1>1. CASE Advertise
    BY <1>1 DEF Advertise, Toggling, OwnStream
  <1>2. CASE InitDone
    BY <1>2 DEF InitDone, StartStreams, Toggling, OwnStream
  <1>3. CASE InitFails
    BY <1>3 DEF InitFails, Toggling, OwnStream
  <1>4. CASE PollTests
    BY <1>4 DEF PollTests, Toggling, OwnStream
  <1>5. CASE PollWaits
    BY <1>5 DEF PollWaits, Toggling, OwnStream
  <1>6. CASE PollReads
    BY <1>6 DEF PollReads, Toggling, OwnStream
  <1>7. CASE TfEnds
    BY <1>7 DEF TfEnds, Toggling, OwnStream
  <1>8. CASE Unplugged
    BY <1>8 DEF Unplugged, Toggling, OwnStream
  <1>9. CASE CleanStreams
    BY <1>9 DEF CleanStreams, StopStreams, Toggling, OwnStream
  <1>10. CASE MembersDestroyed
    <2>1. Len(queue') = 0
      BY <1>10 DEF MembersDestroyed
    <2>2. QED
      BY <2>1 DEF Toggling
  <1>11. ASSUME NEW s \in Streams, imageSubscribedCallback(s) PROVE Toggling'
    <2>1. useUVC' = useUVC
      BY <1>11 DEF imageSubscribedCallback, Take, Crashed, config
    <2>2. /\ Len(queue) \in Nat /\ Len(queue') = Len(queue) - 1
          /\ \A i \in 1..Len(queue') : queue'[i] = queue[i + 1]
      BY <1>11, TakeFacts DEF imageSubscribedCallback
    <2>3. QED
      BY <2>1, <2>2 DEF Toggling, OwnStream
  <1>12. ASSUME NEW s \in Streams, imageUnsubscribedCallback(s) PROVE Toggling'
    <2>1. useUVC' = useUVC
      BY <1>12 DEF imageUnsubscribedCallback, Take, Crashed, config
    <2>2. /\ Len(queue) \in Nat /\ Len(queue') = Len(queue) - 1
          /\ \A i \in 1..Len(queue') : queue'[i] = queue[i + 1]
      BY <1>12, TakeFacts DEF imageUnsubscribedCallback
    <2>3. QED
      BY <2>1, <2>2 DEF Toggling, OwnStream
  <1>13. ASSUME NEW s \in Streams, NEW on \in BOOLEAN, toggleSensor(s, on) PROVE Toggling'
    <2>1. useUVC' = useUVC
      BY <1>13 DEF toggleSensor, Take, Crashed, config
    <2>2. /\ Len(queue) \in Nat /\ Len(queue') = Len(queue) - 1
          /\ \A i \in 1..Len(queue') : queue'[i] = queue[i + 1]
      BY <1>13, TakeFacts DEF toggleSensor
    <2>3. QED
      BY <2>1, <2>2 DEF Toggling, OwnStream
  <1>14. ASSUME NEW s \in Streams, reconfigureCallback(s) PROVE Toggling'
    <2>1. useUVC' = useUVC
      BY <1>14 DEF reconfigureCallback, Take, Crashed, config
    <2>2. /\ Len(queue) \in Nat /\ Len(queue') = Len(queue) - 1
          /\ \A i \in 1..Len(queue') : queue'[i] = queue[i + 1]
      BY <1>14, TakeFacts DEF reconfigureCallback
    <2>3. QED
      BY <2>1, <2>2 DEF Toggling, OwnStream
  <1>15. ASSUME NEW s \in Streams, SettingChecks(s) PROVE Toggling'
    <2>1. useUVC' = useUVC
      BY <1>15 DEF SettingChecks, Take, Crashed, config
    <2>2. /\ Len(queue) \in Nat /\ Len(queue') = Len(queue) - 1
          /\ \A i \in 1..Len(queue') : queue'[i] = queue[i + 1]
      BY <1>15, TakeFacts DEF SettingChecks
    <2>3. QED
      BY <2>1, <2>2 DEF Toggling, OwnStream
  <1>16. ASSUME NEW s \in Streams, SettingActs(s) PROVE Toggling'
    BY <1>16 DEF SettingActs, Crashed, Toggling, OwnStream
  <1>17. ASSUME NEW s \in Streams, UVCSubscribed(s) PROVE Toggling'
    <2>1. useUVC' = useUVC
      BY <1>17 DEF UVCSubscribed, Take, Crashed, config
    <2>2. /\ Len(queue) \in Nat /\ Len(queue') = Len(queue) - 1
          /\ \A i \in 1..Len(queue') : queue'[i] = queue[i + 1]
      BY <1>17, TakeFacts DEF UVCSubscribed
    <2>3. QED
      BY <2>1, <2>2 DEF Toggling, OwnStream
  <1>18. ASSUME NEW s \in Streams, UVCStarts(s) PROVE Toggling'
    BY <1>18 DEF UVCStarts, Crashed, Toggling, OwnStream
  <1>19. ASSUME NEW s \in Streams, UVCUnsubscribed(s) PROVE Toggling'
    <2>1. useUVC' = useUVC
      BY <1>19 DEF UVCUnsubscribed, Take, Crashed, config
    <2>2. /\ Len(queue) \in Nat /\ Len(queue') = Len(queue) - 1
          /\ \A i \in 1..Len(queue') : queue'[i] = queue[i + 1]
      BY <1>19, TakeFacts DEF UVCUnsubscribed
    <2>3. QED
      BY <2>1, <2>2 DEF Toggling, OwnStream
  <1>20. ASSUME NEW s \in Streams, NEW k \in Kinds, Calls(k, s) PROVE Toggling'
    <2>1. useUVC' = useUVC
      BY <1>20 DEF Calls, config
    <2>2. /\ Len(queue) \in Nat /\ Len(queue') = Len(queue) + 1
          /\ queue'[Len(queue) + 1] = Call(k, s)
          /\ \A i \in 1..Len(queue) : queue'[i] = queue[i]
      BY <1>20, CallFacts
    <2>3. k \in {"on", "off"} => OwnStream(s)
      BY <1>20 DEF Calls
    <2>4. ASSUME NEW i \in 1..Len(queue'), queue'[i].kind \in {"on", "off"}
          PROVE  OwnStream(queue'[i].stream)
      <3>1. CASE i \in 1..Len(queue)
        BY <2>2, <2>4, <3>1 DEF Toggling
      <3>2. CASE i = Len(queue) + 1
        BY <2>2, <2>3, <2>4, <3>2 DEF Call
      <3>3. QED
        BY <2>2, <3>1, <3>2
    <2>5. QED
      BY <2>1, <2>4 DEF Toggling, OwnStream
  <1>21. CASE UNCHANGED vars
    BY <1>21 DEF vars, Toggling, OwnStream
  <1>22. QED
    BY <1>1, <1>2, <1>3, <1>4, <1>5, <1>6, <1>7, <1>8, <1>9, <1>10, <1>11,
       <1>12, <1>13, <1>14, <1>15, <1>16, <1>17, <1>18, <1>19, <1>20, <1>21, Steps

LEMMA PendingSame ==
  ASSUME queue' = queue
  PROVE  \A c, t : Pending(c, t)' <=> Pending(c, t)
  BY DEF Pending, Call

LEMMA FollowsStep ==
  ASSUME Points, Sets, Outside, Waiting, Built, ColorOnce, Follows, [Next]_vars
  PROVE  Follows'
  <1> USE DEF config, streams, outside
  <1>1. CASE Advertise
    BY <1>1, PendingSame DEF Advertise, Follows
  <1>2. CASE InitDone
    <2> SUFFICES ASSUME life' = "up", crash' = "none", NEW r \in enabled', r \notin failed'
                 PROVE  /\ r \notin started' /\ subs'[r] > 0 => Pending("sub", r)'
                        /\ r \in started' /\ subs'[r] = 0 => Pending("unsub", r)'
      BY DEF Follows, Pending, Call
    <2>1. started = {}
      BY <1>2 DEF InitDone, Built
    <2>2. PICK want, bad : /\ started' = want \ bad
                           /\ failed' = (failed \ enabled') \cup bad
                           /\ want = {t \in enabled' : subs[t] > 0}
      <3> DEFINE S == enabled' \ started
                 W == {t \in S : life \in {"new", "advertised", "up"} /\ subs[t] > 0}
      <3>1. StartStreams(S, started) /\ life = "advertised"
        BY <1>2 DEF InitDone
      <3>2. \E bad \in SUBSET W : /\ started' = started \cup (W \ bad)
                                   /\ failed' = (failed \ S) \cup bad
        BY <3>1 DEF StartStreams
      <3>3. S = enabled' /\ W = {t \in enabled' : subs[t] > 0}
        BY <2>1, <3>1
      <3>4. QED
        BY <2>1, <3>2, <3>3
    <2>3. subs' = subs
      BY <1>2 DEF InitDone
    <2>4. QED
      BY <2>2, <2>3 DEF Outside, Sets
  <1>3. CASE InitFails
    BY <1>3, PendingSame DEF InitFails, Follows
  <1>4. CASE PollTests
    BY <1>4, PendingSame DEF PollTests, Follows
  <1>5. CASE PollWaits
    BY <1>5, PendingSame DEF PollWaits, Follows
  <1>6. CASE PollReads
    BY <1>6, PendingSame DEF PollReads, Follows
  <1>7. CASE TfEnds
    BY <1>7, PendingSame DEF TfEnds, Follows
  <1>8. CASE Unplugged
    BY <1>8, PendingSame DEF Unplugged, Follows
  <1>9. CASE CleanStreams
    BY <1>9, PendingSame DEF CleanStreams, StopStreams, Follows
  <1>10. CASE MembersDestroyed
    BY <1>10, PendingSame DEF MembersDestroyed, Follows
  <1>11. ASSUME NEW s \in Streams, imageSubscribedCallback(s) PROVE Follows'
    <2> SUFFICES ASSUME life' = "up", crash' = "none", NEW r \in enabled', r \notin failed'
                 PROVE  /\ r \notin started' /\ subs'[r] > 0 => Pending("sub", r)'
                        /\ r \in started' /\ subs'[r] = 0 => Pending("unsub", r)'
      BY DEF Follows, Pending, Call
    <2>1. Take("sub", s) /\ life = "up" /\ crash = "none" /\ subs' = subs /\ enabled' = enabled
      BY <1>11 DEF imageSubscribedCallback, Take
    <2>2. \A c, t : Pending(c, t) /\ Call(c, t) # Call("sub", s) => Pending(c, t)'
      BY <2>1, TakeFacts
    <2>3. CASE s \in enabled \ started
      <3>1. PICK want, bad : /\ started' = started \cup (want \ bad)
                             /\ failed' = (failed \ {s}) \cup bad /\ bad \subseteq want
                             /\ want = {t \in {s} : subs[t] > 0}
        BY <1>11, <2>1, <2>3 DEF imageSubscribedCallback, StartStreams
      <3>2. CASE r = s
        BY <2>1, <2>3, <3>1, <3>2 DEF Outside, Sets
      <3>3. CASE r # s
        <4>1. r \in enabled \ failed /\ (r \in started' <=> r \in started)
          BY <2>1, <3>1, <3>3
        <4>2. QED
          BY <2>1, <2>2, <3>3, <4>1 DEF Follows, Call
      <3>4. QED
        BY <3>2, <3>3
    <2>4. CASE s \notin enabled \ started
      <3>1. started' = started /\ failed' = failed
        BY <1>11, <2>4 DEF imageSubscribedCallback
      <3>2. r = s => r \in started
        BY <2>1, <2>4
      <3>3. QED
        BY <2>1, <2>2, <3>1, <3>2 DEF Follows, Call
    <2>5. QED
      BY <2>3, <2>4
  <1>12. ASSUME NEW s \in Streams, imageUnsubscribedCallback(s) PROVE Follows'
    <2> SUFFICES ASSUME life' = "up", crash' = "none", NEW r \in enabled', r \notin failed'
                 PROVE  /\ r \notin started' /\ subs'[r] > 0 => Pending("sub", r)'
                        /\ r \in started' /\ subs'[r] = 0 => Pending("unsub", r)'
      BY DEF Follows, Pending, Call
    <2>1. /\ Take("unsub", s) /\ life = "up" /\ crash = "none" /\ subs' = subs
          /\ enabled' = enabled /\ failed' = failed
          /\ started' = IF subs[s] = 0 /\ s \in enabled THEN started \ {s} ELSE started
      BY <1>12 DEF imageUnsubscribedCallback, Take
    <2>2. \A c, t : Pending(c, t) /\ Call(c, t) # Call("unsub", s) => Pending(c, t)'
      BY <2>1, TakeFacts
    <2>3. CASE r = s
      <3>1. ~(r \in started' /\ subs'[r] = 0)
        BY <2>1, <2>3
      <3>2. r \notin started' /\ subs'[r] > 0 => r \notin started /\ subs[r] > 0
        BY <2>1, <2>3
      <3>3. r \notin started /\ subs[r] > 0 => Pending("sub", r)
        BY <2>1 DEF Follows
      <3>4. Call("sub", r) # Call("unsub", s)
        BY DEF Call
      <3>5. QED
        BY <2>2, <3>1, <3>2, <3>3, <3>4
    <2>4. CASE r # s
      BY <2>1, <2>2, <2>4 DEF Follows, Call
    <2>5. QED
      BY <2>3, <2>4
  <1>13. ASSUME NEW s \in Streams, NEW on \in BOOLEAN, toggleSensor(s, on) PROVE Follows'
    <2> SUFFICES ASSUME life' = "up", crash' = "none", NEW r \in enabled', r \notin failed'
                 PROVE  /\ r \notin started' /\ subs'[r] > 0 => Pending("sub", r)'
                        /\ r \in started' /\ subs'[r] = 0 => Pending("unsub", r)'
      BY DEF Follows, Pending, Call
    <2>1. life = "up" /\ subs' = subs
      BY <1>13 DEF toggleSensor, Take, Crashed
    <2>2. PICK running, want, bad : /\ started' = running \cup (want \ bad)
                                    /\ failed' = (failed \ enabled') \cup bad
                                    /\ want = {t \in enabled' : subs[t] > 0}
                                    /\ running \cap enabled' = {}
      <3> DEFINE W == {t \in enabled' : life \in {"new", "advertised", "up"} /\ subs[t] > 0}
      <3>1. StartStreams(enabled', StopStreams(enabled'))
        <4>1. CASE started \cap (IF on THEN enabled \cup {s} ELSE enabled \ {s}) \subseteq created
          BY <1>13, <4>1 DEF toggleSensor
        <4>2. CASE ~(started \cap (IF on THEN enabled \cup {s} ELSE enabled \ {s}) \subseteq created)
          BY <1>13, <4>2 DEF toggleSensor, Crashed
        <4>3. QED
          BY <4>1, <4>2
      <3>2. \E bad \in SUBSET W : /\ started' = (started \ enabled') \cup (W \ bad)
                                   /\ failed' = (failed \ enabled') \cup bad
        BY <3>1 DEF StartStreams, StopStreams
      <3>3. W = {t \in enabled' : subs[t] > 0}
        BY <2>1
      <3>4. QED
        BY <3>2, <3>3
    <2>3. QED
      BY <2>1, <2>2 DEF Outside, Sets
  <1>14. ASSUME NEW s \in Streams, reconfigureCallback(s) PROVE Follows'
    <2> SUFFICES ASSUME life' = "up", crash' = "none", NEW r \in enabled', r \notin failed'
                 PROVE  /\ r \notin started' /\ subs'[r] > 0 => Pending("sub", r)'
                        /\ r \in started' /\ subs'[r] = 0 => Pending("unsub", r)'
      BY DEF Follows, Pending, Call
    <2>1. life = "up" /\ subs' = subs
      BY <1>14 DEF reconfigureCallback, Take, Crashed
    <2>2. PICK running, want, bad : /\ started' = running \cup (want \ bad)
                                    /\ failed' = (failed \ enabled') \cup bad
                                    /\ want = {t \in enabled' : subs[t] > 0}
                                    /\ running \cap enabled' = {}
      BY <1>14, <2>1 DEF reconfigureCallback, Take, StartStreams, StopStreams, Crashed, Chosen, Kept
    <2>3. QED
      BY <2>1, <2>2 DEF Outside, Sets
  <1>15. ASSUME NEW s \in Streams, SettingChecks(s) PROVE Follows'
    <2> SUFFICES ASSUME life' = "up", crash' = "none", NEW r \in enabled', r \notin failed'
                 PROVE  /\ r \notin started' /\ subs'[r] > 0 => Pending("sub", r)'
                        /\ r \in started' /\ subs'[r] = 0 => Pending("unsub", r)'
      BY DEF Follows, Pending, Call
    <2>1. /\ Take("setting", s) /\ life = "up" /\ crash = "none" /\ subs' = subs
          /\ enabled' = enabled /\ failed' = failed /\ started' = started
      BY <1>15 DEF SettingChecks, Take, Crashed
    <2>2. \A c, t : Pending(c, t) /\ Call(c, t) # Call("setting", s) => Pending(c, t)'
      BY <2>1, TakeFacts
    <2>3. Call("sub", r) # Call("setting", s) /\ Call("unsub", r) # Call("setting", s)
      BY DEF Call
    <2>4. QED
      BY <2>1, <2>2, <2>3 DEF Follows, Call
  <1>16. ASSUME NEW s \in Streams, SettingActs(s) PROVE Follows'
    BY <1>16, PendingSame DEF SettingActs, Crashed, Follows
  <1>17. ASSUME NEW s \in Streams, UVCSubscribed(s) PROVE Follows'
    <2> SUFFICES ASSUME life' = "up", crash' = "none", NEW r \in enabled', r \notin failed'
                 PROVE  /\ r \notin started' /\ subs'[r] > 0 => Pending("sub", r)'
                        /\ r \in started' /\ subs'[r] = 0 => Pending("unsub", r)'
      BY DEF Follows, Pending, Call
    <2>1. /\ Take("sub", s) /\ life = "up" /\ crash = "none" /\ subs' = subs
          /\ enabled' = enabled /\ failed' = failed /\ started' = started
      BY <1>17 DEF UVCSubscribed, Take, Crashed
    <2>2. \A c, t : Pending(c, t) /\ Call(c, t) # Call("sub", s) => Pending(c, t)'
      BY <2>1, TakeFacts
    <2>3. r # s
      BY <1>17, <2>1 DEF UVCSubscribed, OwnStream, ColorOnce
    <2>4. QED
      BY <2>1, <2>2, <2>3 DEF Follows, Call
  <1>18. ASSUME NEW s \in Streams, UVCStarts(s) PROVE Follows'
    BY <1>18, PendingSame DEF UVCStarts, Crashed, Follows
  <1>19. ASSUME NEW s \in Streams, UVCUnsubscribed(s) PROVE Follows'
    <2> SUFFICES ASSUME life' = "up", crash' = "none", NEW r \in enabled', r \notin failed'
                 PROVE  /\ r \notin started' /\ subs'[r] > 0 => Pending("sub", r)'
                        /\ r \in started' /\ subs'[r] = 0 => Pending("unsub", r)'
      BY DEF Follows, Pending, Call
    <2>1. /\ Take("unsub", s) /\ life = "up" /\ crash = "none" /\ subs' = subs
          /\ enabled' = enabled /\ failed' = failed /\ started' = started
      BY <1>19 DEF UVCUnsubscribed, Take, Crashed
    <2>2. \A c, t : Pending(c, t) /\ Call(c, t) # Call("unsub", s) => Pending(c, t)'
      BY <2>1, TakeFacts
    <2>3. r # s
      BY <1>19, <2>1 DEF UVCUnsubscribed, OwnStream, ColorOnce
    <2>4. QED
      BY <2>1, <2>2, <2>3 DEF Follows, Call
  <1>20. ASSUME NEW s \in Streams, NEW k \in Kinds, Calls(k, s) PROVE Follows'
    <2> SUFFICES ASSUME life' = "up", crash' = "none", NEW r \in enabled', r \notin failed'
                 PROVE  /\ r \notin started' /\ subs'[r] > 0 => Pending("sub", r)'
                        /\ r \in started' /\ subs'[r] = 0 => Pending("unsub", r)'
      BY DEF Follows, Pending, Call
    <2>1. /\ life = "up" /\ crash = "none" /\ enabled' = enabled
          /\ failed' = failed /\ started' = started
      BY <1>20 DEF Calls
    <2>2. Pending(k, s)' /\ \A c, t : Pending(c, t) => Pending(c, t)'
      BY <1>20, CallFacts
    <2>3. \/ subs' = subs
          \/ k = "sub" /\ subs' = [subs EXCEPT ![s] = @ + 1]
          \/ k = "unsub" /\ subs' = [subs EXCEPT ![s] = @ - 1]
      BY <1>20 DEF Calls
    <2>4. CASE r = s
      BY <2>1, <2>2, <2>3, <2>4 DEF Follows, Outside, Sets
    <2>5. CASE r # s
      BY <2>1, <2>2, <2>3, <2>5 DEF Follows, Outside, Sets
    <2>6. QED
      BY <2>4, <2>5
  <1>21. CASE UNCHANGED vars
    BY <1>21, PendingSame DEF vars, Follows
  <1>22. QED
    BY <1>1, <1>2, <1>3, <1>4, <1>5, <1>6, <1>7, <1>8, <1>9, <1>10, <1>11,
       <1>12, <1>13, <1>14, <1>15, <1>16, <1>17, <1>18, <1>19, <1>20, <1>21, Steps

LEMMA ShiftedInTurn ==
  ASSUME InTurn, subs' = subs, Len(queue) \in Nat, Len(queue') = Len(queue) - 1,
         \A i \in 1..Len(queue') : queue'[i] = queue[i + 1]
  PROVE  InTurn'
  <1>1. ASSUME NEW i \in 1..Len(queue'), queue'[i] = Call("sub", Color), subs[Color] = 0
        PROVE  \E j \in (i + 1)..Len(queue') : queue'[j] = Call("unsub", Color)
    <2>1. i + 1 \in 1..Len(queue) /\ queue[i + 1] = Call("sub", Color)
      BY <1>1
    <2>2. PICK j \in (i + 2)..Len(queue) : queue[j] = Call("unsub", Color)
      BY <1>1, <2>1 DEF InTurn
    <2>3. j - 1 \in (i + 1)..Len(queue') /\ queue'[j - 1] = queue[j]
      BY <2>2
    <2>4. QED
      BY <2>2, <2>3
  <1>2. QED
    BY <1>1 DEF InTurn, Call

LEMMA InTurnStep ==
  ASSUME Outside, Waiting, InTurn, [Next]_vars
  PROVE  InTurn'
  <1> USE DEF config, streams, outside
  <1>1. CASE Advertise
    BY <1>1 DEF Advertise, InTurn, Call
  <1>2. CASE InitDone
    BY <1>2 DEF InitDone, StartStreams, InTurn, Call
  <1>3. CASE InitFails
    BY <1>3 DEF InitFails, InTurn, Call
  <1>4. CASE PollTests
    BY <1>4 DEF PollTests, InTurn, Call
  <1>5. CASE PollWaits
    BY <1>5 DEF PollWaits, InTurn, Call
  <1>6. CASE PollReads
    BY <1>6 DEF PollReads, InTurn, Call
  <1>7. CASE TfEnds
    BY <1>7 DEF TfEnds, InTurn, Call
  <1>8. CASE Unplugged
    BY <1>8 DEF Unplugged, InTurn, Call
  <1>9. CASE CleanStreams
    BY <1>9 DEF CleanStreams, StopStreams, InTurn, Call
  <1>10. CASE MembersDestroyed
    <2>1. Len(queue') = 0
      BY <1>10 DEF MembersDestroyed
    <2>2. QED
      BY <2>1 DEF InTurn
  <1>11. ASSUME NEW s \in Streams, imageSubscribedCallback(s) PROVE InTurn'
    <2>1. subs' = subs
      BY <1>11 DEF imageSubscribedCallback, Take, Crashed
    <2>2. /\ Len(queue) \in Nat /\ Len(queue') = Len(queue) - 1
          /\ \A i \in 1..Len(queue') : queue'[i] = queue[i + 1]
      BY <1>11, TakeFacts DEF imageSubscribedCallback
    <2>3. QED
      BY <2>1, <2>2, ShiftedInTurn
  <1>12. ASSUME NEW s \in Streams, imageUnsubscribedCallback(s) PROVE InTurn'
    <2>1. subs' = subs
      BY <1>12 DEF imageUnsubscribedCallback, Take, Crashed
    <2>2. /\ Len(queue) \in Nat /\ Len(queue') = Len(queue) - 1
          /\ \A i \in 1..Len(queue') : queue'[i] = queue[i + 1]
      BY <1>12, TakeFacts DEF imageUnsubscribedCallback
    <2>3. QED
      BY <2>1, <2>2, ShiftedInTurn
  <1>13. ASSUME NEW s \in Streams, NEW on \in BOOLEAN, toggleSensor(s, on) PROVE InTurn'
    <2>1. subs' = subs
      BY <1>13 DEF toggleSensor, Take, Crashed
    <2>2. /\ Len(queue) \in Nat /\ Len(queue') = Len(queue) - 1
          /\ \A i \in 1..Len(queue') : queue'[i] = queue[i + 1]
      BY <1>13, TakeFacts DEF toggleSensor
    <2>3. QED
      BY <2>1, <2>2, ShiftedInTurn
  <1>14. ASSUME NEW s \in Streams, reconfigureCallback(s) PROVE InTurn'
    <2>1. subs' = subs
      BY <1>14 DEF reconfigureCallback, Take, Crashed
    <2>2. /\ Len(queue) \in Nat /\ Len(queue') = Len(queue) - 1
          /\ \A i \in 1..Len(queue') : queue'[i] = queue[i + 1]
      BY <1>14, TakeFacts DEF reconfigureCallback
    <2>3. QED
      BY <2>1, <2>2, ShiftedInTurn
  <1>15. ASSUME NEW s \in Streams, SettingChecks(s) PROVE InTurn'
    <2>1. subs' = subs
      BY <1>15 DEF SettingChecks, Take, Crashed
    <2>2. /\ Len(queue) \in Nat /\ Len(queue') = Len(queue) - 1
          /\ \A i \in 1..Len(queue') : queue'[i] = queue[i + 1]
      BY <1>15, TakeFacts DEF SettingChecks
    <2>3. QED
      BY <2>1, <2>2, ShiftedInTurn
  <1>16. ASSUME NEW s \in Streams, SettingActs(s) PROVE InTurn'
    BY <1>16 DEF SettingActs, Crashed, InTurn, Call
  <1>17. ASSUME NEW s \in Streams, UVCSubscribed(s) PROVE InTurn'
    <2>1. subs' = subs
      BY <1>17 DEF UVCSubscribed, Take, Crashed
    <2>2. /\ Len(queue) \in Nat /\ Len(queue') = Len(queue) - 1
          /\ \A i \in 1..Len(queue') : queue'[i] = queue[i + 1]
      BY <1>17, TakeFacts DEF UVCSubscribed
    <2>3. QED
      BY <2>1, <2>2, ShiftedInTurn
  <1>18. ASSUME NEW s \in Streams, UVCStarts(s) PROVE InTurn'
    BY <1>18 DEF UVCStarts, Crashed, InTurn, Call
  <1>19. ASSUME NEW s \in Streams, UVCUnsubscribed(s) PROVE InTurn'
    <2>1. subs' = subs
      BY <1>19 DEF UVCUnsubscribed, Take, Crashed
    <2>2. /\ Len(queue) \in Nat /\ Len(queue') = Len(queue) - 1
          /\ \A i \in 1..Len(queue') : queue'[i] = queue[i + 1]
      BY <1>19, TakeFacts DEF UVCUnsubscribed
    <2>3. QED
      BY <2>1, <2>2, ShiftedInTurn
  <1>20. ASSUME NEW s \in Streams, NEW k \in Kinds, Calls(k, s) PROVE InTurn'
    <2>1. /\ Len(queue) \in Nat /\ Len(queue') = Len(queue) + 1
          /\ queue'[Len(queue) + 1] = Call(k, s)
          /\ \A i \in 1..Len(queue) : queue'[i] = queue[i]
      BY <1>20, CallFacts
    <2>2. \/ subs' = subs /\ k \notin {"sub", "unsub"}
          \/ k = "sub" /\ subs' = [subs EXCEPT ![s] = @ + 1]
          \/ k = "unsub" /\ subs' = [subs EXCEPT ![s] = @ - 1]
      BY <1>20 DEF Calls
    <2>3. ASSUME NEW i \in 1..Len(queue'), queue'[i] = Call("sub", Color), subs'[Color] = 0
          PROVE  \E j \in (i + 1)..Len(queue') : queue'[j] = Call("unsub", Color)
      <3>1. subs[Color] \in Nat
        BY StreamsAssumption DEF Outside
      <3>2. CASE k = "sub" /\ s = Color
        BY StreamsAssumption, <2>2, <2>3, <3>1, <3>2 DEF Outside
      <3>3. CASE k = "unsub" /\ s = Color
        <4>1. Call(k, s) = Call("unsub", Color) /\ Call("unsub", Color) # Call("sub", Color)
          BY <3>3 DEF Call
        <4>2. i \in 1..Len(queue)
          BY <2>1, <2>3, <4>1
        <4>3. QED
          BY <2>1, <4>1, <4>2
      <3>4. CASE ~(k \in {"sub", "unsub"} /\ s = Color)
        <4>1. Call(k, s) # Call("sub", Color)
          BY <3>4 DEF Call
        <4>2. i \in 1..Len(queue) /\ queue[i] = Call("sub", Color)
          BY <2>1, <2>3, <4>1
        <4>3. subs[Color] = 0
          <5>1. Color \in Streams /\ subs \in [Streams -> 0..MaxSubs]
            BY StreamsAssumption DEF Outside
          <5>2. subs' = subs \/ s # Color
            BY <2>2, <3>4
          <5>3. s # Color => subs'[Color] = subs[Color]
            BY <2>2, <5>1
          <5>4. QED
            BY <5>2, <5>3, <2>3
        <4>4. PICK j \in (i + 1)..Len(queue) : queue[j] = Call("unsub", Color)
          BY <4>2, <4>3 DEF InTurn
        <4>5. QED
          BY <2>1, <4>2, <4>4
      <3>5. QED
        BY <3>2, <3>3, <3>4
    <2>4. QED
      BY <2>3 DEF InTurn, Call
  <1>21. CASE UNCHANGED vars
    BY <1>21 DEF vars, InTurn, Call
  <1>22. QED
    BY <1>1, <1>2, <1>3, <1>4, <1>5, <1>6, <1>7, <1>8, <1>9, <1>10, <1>11,
       <1>12, <1>13, <1>14, <1>15, <1>16, <1>17, <1>18, <1>19, <1>20, <1>21, Steps

LEMMA CameraFollowsStep ==
  ASSUME Points, Camera, Outside, Waiting, Built, ColorOnce, UVCStarting, InTurn, CameraFollows, [Next]_vars
  PROVE  CameraFollows'
  <1> USE StreamsAssumption DEF config, streams, outside
  <1>1. CASE Advertise
    BY <1>1, PendingSame DEF Advertise, CameraFollows, Starting
  <1>2. CASE InitDone
    <2> SUFFICES ASSUME life' = "up", crash' = "none", uvc'.handle
                 PROVE  /\ ~uvc'.streaming /\ subs'[Color] > 0 => Pending("sub", Color)' \/ Starting'
                        /\ uvc'.streaming \/ Starting' => subs'[Color] > 0 \/ Pending("unsub", Color)'
      BY DEF CameraFollows, Pending, Call
    <2>1. useUVC
      BY <1>2 DEF InitDone, NoCamera
    <2>2. subs'[Color] = 0 /\ ~Starting'
      BY <1>2, <2>1 DEF InitDone, ColorOnce, Built, Starting
    <2>3. ~uvc'.streaming
      BY <1>2, <2>1 DEF InitDone, NoCamera
    <2>4. QED
      BY <2>2, <2>3
  <1>3. CASE InitFails
    BY <1>3, PendingSame DEF InitFails, CameraFollows, Starting
  <1>4. CASE PollTests
    BY <1>4, PendingSame DEF PollTests, CameraFollows, Starting
  <1>5. CASE PollWaits
    BY <1>5, PendingSame DEF PollWaits, CameraFollows, Starting
  <1>6. CASE PollReads
    BY <1>6, PendingSame DEF PollReads, CameraFollows, Starting
  <1>7. CASE TfEnds
    BY <1>7, PendingSame DEF TfEnds, CameraFollows, Starting
  <1>8. CASE Unplugged
    BY <1>8, PendingSame DEF Unplugged, CameraFollows, Starting
  <1>9. CASE CleanStreams
    BY <1>9, PendingSame DEF CleanStreams, StopStreams, CameraFollows, Starting
  <1>10. CASE MembersDestroyed
    BY <1>10, PendingSame DEF MembersDestroyed, CameraFollows, Starting
  <1>11. ASSUME NEW s \in Streams, imageSubscribedCallback(s) PROVE CameraFollows'
    <2> SUFFICES ASSUME life' = "up", crash' = "none", uvc'.handle
                 PROVE  /\ ~uvc'.streaming /\ subs'[Color] > 0 => Pending("sub", Color)' \/ Starting'
                        /\ uvc'.streaming \/ Starting' => subs'[Color] > 0 \/ Pending("unsub", Color)'
      BY DEF CameraFollows, Pending, Call
    <2>1. /\ Take("sub", s) /\ life = "up" /\ crash = "none" /\ subs' = subs /\ uvc' = uvc
          /\ ~Starting /\ ~Starting'
      BY <1>11 DEF imageSubscribedCallback, Take, Crashed, Starting, Idle, StartStreams
    <2>2. \A c, t : Pending(c, t) /\ Call(c, t) # Call("sub", s) => Pending(c, t)'
      BY <2>1, TakeFacts
    <2>3. Call("sub", Color) # Call("sub", s) /\ Call("unsub", Color) # Call("sub", s)
      BY <1>11, <2>1 DEF imageSubscribedCallback, OwnStream, ColorOnce, NoCamera, Call
    <2>4. QED
      BY <2>1, <2>2, <2>3 DEF CameraFollows
  <1>12. ASSUME NEW s \in Streams, imageUnsubscribedCallback(s) PROVE CameraFollows'
    <2> SUFFICES ASSUME life' = "up", crash' = "none", uvc'.handle
                 PROVE  /\ ~uvc'.streaming /\ subs'[Color] > 0 => Pending("sub", Color)' \/ Starting'
                        /\ uvc'.streaming \/ Starting' => subs'[Color] > 0 \/ Pending("unsub", Color)'
      BY DEF CameraFollows, Pending, Call
    <2>1. /\ Take("unsub", s) /\ life = "up" /\ crash = "none" /\ subs' = subs /\ uvc' = uvc
          /\ ~Starting /\ ~Starting'
      BY <1>12 DEF imageUnsubscribedCallback, Take, Crashed, Starting, Idle
    <2>2. \A c, t : Pending(c, t) /\ Call(c, t) # Call("unsub", s) => Pending(c, t)'
      BY <2>1, TakeFacts
    <2>3. Call("sub", Color) # Call("unsub", s) /\ Call("unsub", Color) # Call("unsub", s)
      BY <1>12, <2>1 DEF imageUnsubscribedCallback, OwnStream, ColorOnce, NoCamera, Call
    <2>4. QED
      BY <2>1, <2>2, <2>3 DEF CameraFollows
  <1>13. ASSUME NEW s \in Streams, NEW on \in BOOLEAN, toggleSensor(s, on) PROVE CameraFollows'
    <2> SUFFICES ASSUME life' = "up", crash' = "none", uvc'.handle
                 PROVE  /\ ~uvc'.streaming /\ subs'[Color] > 0 => Pending("sub", Color)' \/ Starting'
                        /\ uvc'.streaming \/ Starting' => subs'[Color] > 0 \/ Pending("unsub", Color)'
      BY DEF CameraFollows, Pending, Call
    <2>1. /\ Take(IF on THEN "on" ELSE "off", s) /\ life = "up" /\ crash = "none" /\ subs' = subs /\ uvc' = uvc
          /\ ~Starting /\ ~Starting'
      <3>1. Take(IF on THEN "on" ELSE "off", s)
        BY <1>13 DEF toggleSensor
      <3>2. spin = <<>> /\ crash = "none"
        BY <3>1 DEF Take, Idle
      <3>3. /\ life' = life /\ subs' = subs /\ uvc' = uvc /\ spin' = spin
        BY <1>13 DEF toggleSensor, Crashed
      <3>4. ~Starting /\ ~Starting'
        BY <3>2, <3>3 DEF Starting
      <3>5. QED
        BY <3>1, <3>2, <3>3, <3>4
    <2>2. \A c, t : Pending(c, t) /\ Call(c, t) # Call(IF on THEN "on" ELSE "off", s) => Pending(c, t)'
      BY <2>1, TakeFacts
    <2>3. Call("sub", Color) # Call(IF on THEN "on" ELSE "off", s) /\ Call("unsub", Color) # Call(IF on THEN "on" ELSE "off", s)
      BY DEF Call
    <2>4. QED
      BY <2>1, <2>2, <2>3 DEF CameraFollows
  <1>14. ASSUME NEW s \in Streams, reconfigureCallback(s) PROVE CameraFollows'
    <2> SUFFICES ASSUME life' = "up", crash' = "none", uvc'.handle
                 PROVE  /\ ~uvc'.streaming /\ subs'[Color] > 0 => Pending("sub", Color)' \/ Starting'
                        /\ uvc'.streaming \/ Starting' => subs'[Color] > 0 \/ Pending("unsub", Color)'
      BY DEF CameraFollows, Pending, Call
    <2>1. /\ Take("reconf", s) /\ life = "up" /\ crash = "none" /\ subs' = subs /\ uvc' = uvc
          /\ ~Starting /\ ~Starting'
      <3>1. Take("reconf", s)
        BY <1>14 DEF reconfigureCallback
      <3>2. spin = <<>> /\ crash = "none"
        BY <3>1 DEF Take, Idle
      <3>3. /\ life' = life /\ subs' = subs /\ uvc' = uvc /\ spin' = spin
        BY <1>14 DEF reconfigureCallback, Crashed
      <3>4. ~Starting /\ ~Starting'
        BY <3>2, <3>3 DEF Starting
      <3>5. QED
        BY <3>1, <3>2, <3>3, <3>4
    <2>2. \A c, t : Pending(c, t) /\ Call(c, t) # Call("reconf", s) => Pending(c, t)'
      BY <2>1, TakeFacts
    <2>3. Call("sub", Color) # Call("reconf", s) /\ Call("unsub", Color) # Call("reconf", s)
      BY DEF Call
    <2>4. QED
      BY <2>1, <2>2, <2>3 DEF CameraFollows
  <1>15. ASSUME NEW s \in Streams, SettingChecks(s) PROVE CameraFollows'
    <2> SUFFICES ASSUME life' = "up", crash' = "none", uvc'.handle
                 PROVE  /\ ~uvc'.streaming /\ subs'[Color] > 0 => Pending("sub", Color)' \/ Starting'
                        /\ uvc'.streaming \/ Starting' => subs'[Color] > 0 \/ Pending("unsub", Color)'
      BY DEF CameraFollows, Pending, Call
    <2>1. /\ Take("setting", s) /\ life = "up" /\ crash = "none" /\ subs' = subs /\ uvc' = uvc
          /\ ~Starting /\ ~Starting'
      BY <1>15 DEF SettingChecks, Take, Crashed, Starting, Idle
    <2>2. \A c, t : Pending(c, t) /\ Call(c, t) # Call("setting", s) => Pending(c, t)'
      BY <2>1, TakeFacts
    <2>3. Call("sub", Color) # Call("setting", s) /\ Call("unsub", Color) # Call("setting", s)
      BY DEF Call
    <2>4. QED
      BY <2>1, <2>2, <2>3 DEF CameraFollows
  <1>16. ASSUME NEW s \in Streams, SettingActs(s) PROVE CameraFollows'
    <2> SUFFICES ASSUME life' = "up", crash' = "none", uvc'.handle
                 PROVE  /\ ~uvc'.streaming /\ subs'[Color] > 0 => Pending("sub", Color)' \/ Starting'
                        /\ uvc'.streaming \/ Starting' => subs'[Color] > 0 \/ Pending("unsub", Color)'
      BY DEF CameraFollows, Pending, Call
    <2>1. /\ life = "up" /\ crash = "none" /\ subs' = subs /\ uvc' = uvc /\ queue' = queue
          /\ ~Starting /\ ~Starting'
      BY <1>16 DEF SettingActs, Crashed, Starting, Idle
    <2>2. QED
      BY <2>1, PendingSame DEF CameraFollows
  <1>17. ASSUME NEW s \in Streams, UVCSubscribed(s) PROVE CameraFollows'
    <2> SUFFICES ASSUME life' = "up", crash' = "none", uvc'.handle
                 PROVE  /\ ~uvc'.streaming /\ subs'[Color] > 0 => Pending("sub", Color)' \/ Starting'
                        /\ uvc'.streaming \/ Starting' => subs'[Color] > 0 \/ Pending("unsub", Color)'
      BY DEF CameraFollows, Pending, Call
    <2>1. /\ Take("sub", Color) /\ life = "up" /\ crash = "none" /\ subs' = subs /\ uvc' = uvc
          /\ uvc.opened /\ ~Starting
      BY <1>17 DEF UVCSubscribed, OwnStream, Take, Crashed, Starting, Idle, ColorOnce
    <2>2. /\ queue[1] = Call("sub", Color) /\ Len(queue) \in Nat /\ Len(queue) >= 1
          /\ Len(queue') = Len(queue) - 1
          /\ \A i \in 1..Len(queue') : queue'[i] = queue[i + 1]
          /\ \A c, t : Pending(c, t) /\ Call(c, t) # Call("sub", Color) => Pending(c, t)'
      BY <2>1, TakeFacts
    <2>3. subs[Color] > 0 \/ Pending("unsub", Color)'
      <3>1. CASE subs[Color] = 0
        <4>1. PICK j \in 2..Len(queue) : queue[j] = Call("unsub", Color)
          BY <2>2, <3>1 DEF InTurn
        <4>2. j - 1 \in 1..Len(queue') /\ queue'[j - 1] = Call("unsub", Color)
          BY <2>2, <4>1
        <4>3. QED
          BY <4>2 DEF Pending, Call
      <3>2. CASE subs[Color] # 0
        BY StreamsAssumption, <3>2 DEF Outside
      <3>3. QED
        BY <3>1, <3>2
    <2>4. ~uvc.streaming => Starting'
      BY <1>17, <2>1 DEF UVCSubscribed, OwnStream, Starting
    <2>5. QED
      BY <2>1, <2>3, <2>4
  <1>18. ASSUME NEW s \in Streams, UVCStarts(s) PROVE CameraFollows'
    <2> SUFFICES ASSUME life' = "up", crash' = "none", uvc'.handle
                 PROVE  /\ ~uvc'.streaming /\ subs'[Color] > 0 => Pending("sub", Color)' \/ Starting'
                        /\ uvc'.streaming \/ Starting' => subs'[Color] > 0 \/ Pending("unsub", Color)'
      BY DEF CameraFollows, Pending, Call
    <2>1. /\ life = "up" /\ crash = "none" /\ subs' = subs /\ uvc.handle /\ queue' = queue
          /\ \E ok \in BOOLEAN : uvc' = [uvc EXCEPT !.streaming = ok, !.handle = ok]
      BY <1>18 DEF UVCStarts, Crashed
    <2>2. Starting
      BY <1>18 DEF UVCStarts, UVCStarting, OwnStream, Starting
    <2>3. uvc'.streaming
      BY <2>1 DEF Camera
    <2>4. QED
      BY <2>1, <2>2, <2>3, PendingSame DEF CameraFollows
  <1>19. ASSUME NEW s \in Streams, UVCUnsubscribed(s) PROVE CameraFollows'
    <2> SUFFICES ASSUME life' = "up", crash' = "none", uvc'.handle
                 PROVE  /\ ~uvc'.streaming /\ subs'[Color] > 0 => Pending("sub", Color)' \/ Starting'
                        /\ uvc'.streaming \/ Starting' => subs'[Color] > 0 \/ Pending("unsub", Color)'
      BY DEF CameraFollows, Pending, Call
    <2>1. /\ Take("unsub", Color) /\ life = "up" /\ crash = "none" /\ subs' = subs
          /\ ~Starting /\ ~Starting'
          /\ uvc' = IF subs[Color] = 0 THEN [uvc EXCEPT !.streaming = FALSE] ELSE uvc
      BY <1>19 DEF UVCUnsubscribed, OwnStream, Take, Starting, Idle
    <2>2. \A c, t : Pending(c, t) /\ Call(c, t) # Call("unsub", Color) => Pending(c, t)'
      BY <2>1, TakeFacts
    <2>3. CASE subs[Color] = 0
      BY <2>1, <2>3 DEF Camera
    <2>4. CASE subs[Color] # 0
      <3>1. subs[Color] > 0
        BY StreamsAssumption, <2>4 DEF Outside
      <3>2. uvc' = uvc /\ Call("sub", Color) # Call("unsub", Color)
        BY <2>1, <2>4 DEF Call
      <3>3. ~uvc.streaming => Pending("sub", Color)
        BY <2>1, <3>1, <3>2 DEF CameraFollows
      <3>4. QED
        BY <2>1, <2>2, <3>1, <3>2, <3>3
    <2>5. QED
      BY <2>3, <2>4
  <1>20. ASSUME NEW s \in Streams, NEW k \in Kinds, Calls(k, s) PROVE CameraFollows'
    <2> SUFFICES ASSUME life' = "up", crash' = "none", uvc'.handle
                 PROVE  /\ ~uvc'.streaming /\ subs'[Color] > 0 => Pending("sub", Color)' \/ Starting'
                        /\ uvc'.streaming \/ Starting' => subs'[Color] > 0 \/ Pending("unsub", Color)'
      BY DEF CameraFollows, Pending, Call
    <2>1. /\ life = "up" /\ crash = "none" /\ uvc' = uvc /\ (Starting' <=> Starting)
      BY <1>20 DEF Calls, Starting
    <2>2. Pending(k, s)' /\ \A c, t : Pending(c, t) => Pending(c, t)'
      BY <1>20, CallFacts
    <2>3. \/ subs'[Color] = subs[Color]
          \/ k = "sub" /\ s = Color /\ subs'[Color] = subs[Color] + 1
          \/ k = "unsub" /\ s = Color /\ subs'[Color] = subs[Color] - 1
      BY StreamsAssumption, <1>20 DEF Calls, Outside
    <2>4. subs[Color] \in Nat
      BY StreamsAssumption DEF Outside
    <2>5. CASE subs'[Color] = subs[Color]
      BY <2>1, <2>2, <2>5 DEF CameraFollows
    <2>6. CASE k = "sub" /\ s = Color /\ subs'[Color] = subs[Color] + 1
      BY <2>2, <2>4, <2>6
    <2>7. CASE k = "unsub" /\ s = Color /\ subs'[Color] = subs[Color] - 1
      <3>1. subs'[Color] > 0 => subs[Color] > 0
        BY <2>4, <2>7
      <3>2. QED
        BY <2>1, <2>2, <2>7, <3>1 DEF CameraFollows
    <2>8. QED
      BY <2>3, <2>5, <2>6, <2>7
  <1>21. CASE UNCHANGED vars
    BY <1>21, PendingSame DEF vars, CameraFollows, Starting
  <1>22. QED
    BY <1>1, <1>2, <1>3, <1>4, <1>5, <1>6, <1>7, <1>8, <1>9, <1>10, <1>11,
       <1>12, <1>13, <1>14, <1>15, <1>16, <1>17, <1>18, <1>19, <1>20, <1>21, Steps


-----------------------------------------------------------------------------
\* The theorems.

LEMMA StreamsInit ==
  ASSUME Init
  PROVE  TypeOK /\ StreamsIInv
  <1> USE DEF Init
  <1>1. Booleans /\ Camera /\ Points /\ Spins
    BY DEF Booleans, Camera, Points, Spins, NoCamera, Idle
  <1>2. Sets
    BY DEF Sets
  <1>3. Outside /\ Waiting
    BY StreamsAssumption DEF Outside, Waiting, Event
  <1>4. Built /\ ColorOnce /\ UVCStarting
    BY DEF Built, ColorOnce, UVCStarting, NoCamera, Idle
  <1>5. Len(queue) = 0
    OBVIOUS
  <1>6. Toggling /\ InTurn
    BY <1>5 DEF Toggling, InTurn
  <1>7. PollReadsLiveStreams /\ Follows /\ CameraFollows
    BY DEF PollReadsLiveStreams, Follows, CameraFollows
  <1>8. QED
    BY <1>1, <1>2, <1>3, <1>4, <1>6, <1>7, TypeParts DEF StreamsIInv

LEMMA StreamsStep ==
  ASSUME TypeOK, StreamsIInv, [Next]_vars
  PROVE  TypeOK' /\ StreamsIInv'
  <1>1. Booleans /\ Sets /\ Camera /\ Points /\ Spins /\ Outside /\ Waiting
    BY TypeParts
  <1>2. /\ Built /\ ColorOnce /\ UVCStarting /\ Toggling
        /\ PollReadsLiveStreams /\ Follows /\ CameraFollows /\ InTurn
    BY DEF StreamsIInv
  <1>3. Booleans' /\ Sets' /\ Camera' /\ Points' /\ Spins' /\ Outside' /\ Waiting'
    BY <1>1, BooleansStep, SetsStep, CameraStep, PointsStep, SpinsStep, OutsideStep, WaitingStep
  <1>4. TypeOK'
    BY <1>3 DEF TypeOK, Booleans, Sets, Camera, Points, Spins, Outside, Event, Waiting
  <1>5. Built' /\ ColorOnce' /\ UVCStarting' /\ Toggling'
    BY <1>1, <1>2, BuiltStep, ColorOnceStep, UVCStartingStep, TogglingStep
  <1>6. PollReadsLiveStreams' /\ Follows' /\ InTurn'
    BY <1>1, <1>2, PollStep, FollowsStep, InTurnStep
  <1>7. CameraFollows'
    BY <1>1, <1>2, CameraFollowsStep
  <1>8. QED
    BY <1>4, <1>5, <1>6, <1>7 DEF StreamsIInv

LEMMA StreamsInvariant == Spec => [](TypeOK /\ StreamsIInv)
  <1>1. Init => TypeOK /\ StreamsIInv
    BY StreamsInit
  <1>2. TypeOK /\ StreamsIInv /\ [Next]_vars => TypeOK' /\ StreamsIInv'
    BY StreamsStep
  <1>3. QED
    BY <1>1, <1>2, PTL DEF Spec

\* Whatever is subscribed, toggled and reconfigured, the state of the node has its
\* type: no stream has more subscribers than it can have, or fewer than none.
THEOREM StreamsTyped == Spec => []TypeOK
  BY StreamsInvariant, PTL

\* pollFrame does not take device_lock_, and yet it never reads from a stream
\* that clean has destroyed: clean runs after the polling thread has been joined.
THEOREM StreamsPolledLive == Spec => []PollReadsLiveStreams
  <1>1. StreamsIInv => PollReadsLiveStreams
    BY DEF StreamsIInv
  <1>2. QED
    BY StreamsInvariant, <1>1, PTL

\* With every callback run, exactly the enabled streams with subscribers run, and
\* the UVC camera if and only if its topic has subscribers.
THEOREM StreamsFollow == Spec => []StreamFollowsSubscribers
  <1>1. ASSUME TypeOK, StreamsIInv, life = "up", crash = "none", queue = <<>>, spin = Idle
        PROVE  /\ \A s \in enabled \ failed : s \in started <=> subs[s] > 0
               /\ uvc.handle => (uvc.streaming <=> subs[Color] > 0)
    <2>1. Color \in Streams /\ enabled \subseteq Streams /\ \A s \in Streams : subs[s] \in Nat
      BY <1>1, StreamsAssumption DEF TypeOK
    <2>2. \A k, s : ~Pending(k, s)
      <3>1. Len(queue) = 0
        BY <1>1
      <3>2. QED
        BY <3>1 DEF Pending
    <2>3. ~Starting
      BY <1>1 DEF Starting, Idle
    <2>4. \A s \in enabled \ failed : s \in started <=> subs[s] > 0
      <3> TAKE s \in enabled \ failed
      <3>1. s \notin started => ~(subs[s] > 0)
        BY <1>1, <2>2 DEF StreamsIInv, Follows
      <3>2. s \in started => subs[s] # 0
        BY <1>1, <2>2 DEF StreamsIInv, Follows
      <3>3. subs[s] # 0 => subs[s] > 0
        BY <2>1
      <3>4. QED
        BY <3>1, <3>2, <3>3
    <2>5. uvc.handle => (uvc.streaming <=> subs[Color] > 0)
      <3>1. uvc.handle => /\ ~uvc.streaming => ~(subs[Color] > 0)
                          /\ uvc.streaming => subs[Color] > 0
        BY <1>1, <2>2, <2>3 DEF StreamsIInv, CameraFollows
      <3>2. QED
        BY <3>1
    <2>6. QED
      BY <2>4, <2>5
  <1>2. TypeOK /\ StreamsIInv => StreamFollowsSubscribers
    BY <1>1 DEF StreamFollowsSubscribers
  <1>3. QED
    BY StreamsInvariant, <1>2, PTL
=============================================================================
