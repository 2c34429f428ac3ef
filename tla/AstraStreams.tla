--------------------------- MODULE AstraStreams ---------------------------
(***************************************************************************)
(* The camera node of the Astra driver: OBCameraNode with the UVC driver   *)
(* of its colour camera (ob_camera_node.cpp, ros_service.cpp,              *)
(* uvc_camera_driver.cpp).  A stream runs while its topic has subscribers. *)
(*                                                                         *)
(* Threads: the ROS thread, in which every callback and service runs, one  *)
(* after the other; the thread that builds the node; the one that destroys *)
(* it when the device is unplugged; the polling thread and the tf thread.  *)
(* What a callback does under device_lock_ is one step, taken while the    *)
(* building or the destroying thread does not hold the lock.  What runs    *)
(* without the lock (the services of a stream's settings, the UVC driver)  *)
(* takes a step to look and one to act.                                    *)
(***************************************************************************)
EXTENDS Integers, Sequences

CONSTANTS Streams, Infra, Color,
          MaxEvents,   \* bound: subscriptions, service calls and the like
          MaxSubs      \* bound: subscribers of a topic at a time

ASSUME StreamsAssumption ==
  /\ {Infra, Color} \subseteq Streams /\ Infra # Color
  /\ MaxEvents \in Nat /\ MaxSubs \in Nat

VARIABLES
  life,       \* node: "new", "advertised", "up", "joining", "cleaned", "gone"
  useUVC,     \* use_uvc_camera_: colour does not come from a stream
  supported,  \* streams whose configured video mode the sensor supports
  enabled,    \* enable_
  modes,      \* streams with an entry in stream_video_mode_
  created,    \* streams_ that exist
  started,    \* stream_started_
  failed,     \* history: streams whose last start() returned an error
  uvc,        \* is_camera_opened_, device_handle_ and is_streaming_started
  advertised, \* topics with an image publisher
  subs,       \* their subscribers
  queue,      \* callbacks that wait for the ROS thread
  spin,       \* ROS thread: <<>>, or what it is doing without device_lock_
  poll,       \* polling thread: "none", "test", "wait", "read" or "ended"
  list,       \*   streams that it reads from
  tf,         \* tf thread: "none", "running" or "ended"
  crash,      \* what ended the process, or "none"
  events      \* events so far

config  == <<useUVC, supported, advertised>>
streams == <<enabled, modes, created, started, failed>>
outside == <<subs, events>>
vars    == <<life, config, streams, uvc, outside, queue, spin, poll, list, tf, crash>>

Idle      == <<>>
NoCamera  == [opened |-> FALSE, handle |-> FALSE, streaming |-> FALSE]
Kinds     == {"sub", "unsub", "on", "off", "setting", "reconf"}

Init ==
  /\ life = "new" /\ useUVC \in BOOLEAN
  /\ enabled \in SUBSET Streams /\ supported \in SUBSET enabled
  /\ modes = {} /\ created = {} /\ started = {} /\ failed = {} /\ uvc = NoCamera
  /\ advertised = {} /\ subs = [s \in Streams |-> 0]
  /\ queue = <<>> /\ spin = Idle /\ poll = "none" /\ list = {} /\ tf = "none"
  /\ crash = "none" /\ events = 0

Crashed(why) ==
  /\ crash' = why
  /\ UNCHANGED <<life, config, streams, uvc, outside, spin, poll, list, tf>>

----------------------------------------------------------------------------
\* Streams, under device_lock_.

\* setupVideoMode disables one of infrared and colour, and what has no mode.
Kept(en)   == IF ~useUVC /\ {Infra, Color} \subseteq en THEN en \ {Infra} ELSE en
Chosen(en) == Kept(en) \cap supported

\* startStream for the streams of S: start() may fail for some; then streams_,
\* stream_started_ and the rest stay as they are.
StartStreams(S, running) ==
  LET want == {s \in S : life \in {"new", "advertised", "up"} /\ subs[s] > 0}
  IN  \/ /\ want \subseteq modes'
         /\ \E bad \in SUBSET want :
              /\ started' = running \cup (want \ bad)
              /\ failed' = (failed \ S) \cup bad
         /\ UNCHANGED crash
      \/ /\ ~ want \subseteq modes'          \* CHECK(stream_video_mode_.count(..))
         /\ crash' = "no_mode" /\ started' = running /\ UNCHANGED failed

\* stopStreams leaves a stream running that is no longer enabled.
StopStreams(en) == started \ en

----------------------------------------------------------------------------
\* Construction.

\* setupTopics up to setupPublishers: without a sensor or a parameter that
\* enables it a stream is not created, and its topic not advertised.  The UVC
\* camera has no colour sensor.
Advertise ==
  /\ life = "new" /\ life' = "advertised"
  /\ LET en == IF useUVC THEN enabled \ {Color} ELSE enabled
     IN  enabled' = en /\ created' = en /\ advertised' = en
  /\ UNCHANGED <<useUVC, supported, modes, started, failed, uvc, outside, queue, spin,
                 poll, list, tf, crash>>

\* The rest of init: video modes, the UVC camera, the first call of
\* reconfigureCallback, the threads.
InitDone ==
  /\ life = "advertised" /\ life' = "up"
  /\ enabled' = Chosen(enabled) /\ modes' = Chosen(enabled)
  /\ StartStreams(enabled' \ started, started)
  /\ uvc' = IF useUVC THEN [NoCamera EXCEPT !.opened = TRUE, !.handle = TRUE] ELSE NoCamera
  /\ advertised' = IF useUVC THEN advertised \cup {Color} ELSE advertised
  /\ poll' = "test" /\ tf' = "running"
  /\ UNCHANGED <<useUVC, supported, created, outside, queue, spin, list>>

\* The UVC camera cannot be opened: setupUVCCamera cleans up and throws.
InitFails ==
  /\ life = "advertised" /\ useUVC /\ life' = "cleaned"
  /\ enabled' = Chosen(enabled) /\ modes' = Chosen(enabled) /\ created' = {}
  /\ UNCHANGED <<config, started, failed, uvc, outside, queue, spin, poll, list, tf, crash>>

----------------------------------------------------------------------------
\* Callbacks in the ROS thread.

Take(k, s) ==
  /\ crash = "none" /\ spin = Idle /\ queue # <<>>
  /\ Head(queue) = [kind |-> k, stream |-> s] /\ queue' = Tail(queue)

DeviceLockFree == life \in {"up", "cleaned"}
OwnStream(s)   == ~(useUVC /\ s = Color)

imageSubscribedCallback(s) ==
  /\ Take("sub", s) /\ OwnStream(s) /\ DeviceLockFree
  /\ IF life = "up" /\ s \in enabled \ started
     THEN UNCHANGED modes /\ StartStreams({s}, started)
     ELSE UNCHANGED <<modes, started, failed, crash>>
  /\ UNCHANGED <<life, config, enabled, created, uvc, outside, spin, poll, list, tf>>

imageUnsubscribedCallback_Uncounted(s) ==   \* mutant: other subscribers are forgotten
  /\ Take("unsub", s) /\ OwnStream(s) /\ DeviceLockFree
  /\ started' = started \ {s}
  /\ UNCHANGED <<life, config, enabled, modes, created, failed, uvc, outside, spin, poll,
                 list, tf, crash>>
imageUnsubscribedCallback(s) ==
  /\ Take("unsub", s) /\ OwnStream(s) /\ DeviceLockFree
  /\ started' = IF subs[s] = 0 /\ s \in enabled THEN started \ {s} ELSE started
  /\ UNCHANGED <<life, config, enabled, modes, created, failed, uvc, outside, spin, poll,
                 list, tf, crash>>

\* toggleSensor: all streams stop, those that are now enabled start again.
toggleSensor(s, on) ==
  LET en == IF on THEN enabled \cup {s} ELSE enabled \ {s}
  IN  /\ Take(IF on THEN "on" ELSE "off", s) /\ DeviceLockFree
      /\ IF started \cap en \subseteq created
         THEN /\ enabled' = en /\ UNCHANGED modes
              /\ StartStreams(en, StopStreams(en))
              /\ UNCHANGED <<life, config, created, uvc, outside, spin, poll, list, tf>>
         ELSE Crashed("null_stream")

\* From stopStreams on; what precedes it takes no lock and only stores sizes.
reconfigureCallback(s) ==
  /\ Take("reconf", s) /\ DeviceLockFree
  /\ IF Kept(enabled) \subseteq created
     THEN /\ enabled' = Chosen(enabled) /\ modes' = modes \cup Chosen(enabled)
          /\ StartStreams(enabled', StopStreams(enabled))
          /\ UNCHANGED <<life, config, created, uvc, outside, spin, poll, list, tf>>
     ELSE Crashed("null_stream")

\* The services of a stream's exposure, gain, mirroring ...: stream_started_ is
\* looked at, then the stream is used, both without device_lock_.
SettingChecks(s) ==
  /\ Take("setting", s) /\ life # "gone"
  /\ spin' = IF s \in started THEN <<"setting", s>> ELSE Idle
  /\ UNCHANGED <<life, config, streams, uvc, outside, poll, list, tf, crash>>
SettingActs(s) ==
  /\ crash = "none" /\ spin = <<"setting", s>>
  /\ IF s \in created
     THEN spin' = Idle /\ UNCHANGED <<life, config, streams, uvc, outside, poll, list, tf, crash>>
     ELSE Crashed("null_stream")
  /\ UNCHANGED queue

\* UVCCameraDriver.  startStreaming gives up when streaming or not opened; a
\* failed one closes the handle but leaves is_camera_opened_ as it is.
UVCSubscribed(s) ==
  /\ Take("sub", s) /\ ~OwnStream(s) /\ life # "gone"
  /\ IF uvc.streaming \/ ~uvc.opened
     THEN UNCHANGED <<life, config, streams, uvc, outside, spin, poll, list, tf, crash>>
     ELSE IF uvc.handle                          \* CHECK_NOTNULL(device_handle_)
          THEN /\ spin' = <<"uvc", s>>
               /\ UNCHANGED <<life, config, streams, uvc, outside, poll, list, tf, crash>>
          ELSE Crashed("no_handle")
UVCStarts(s) ==
  /\ crash = "none" /\ spin = <<"uvc", s>>
  /\ \/ /\ uvc.handle /\ spin' = Idle
        /\ \E ok \in BOOLEAN : uvc' = [uvc EXCEPT !.streaming = ok, !.handle = ok]
        /\ UNCHANGED <<life, config, streams, outside, poll, list, tf, crash>>
     \/ Crashed("no_handle")     \* setVideoMode failed, or the driver is gone
  /\ UNCHANGED queue
UVCUnsubscribed(s) ==
  /\ Take("unsub", s) /\ ~OwnStream(s) /\ life # "gone"
  /\ uvc' = IF subs[s] = 0 THEN [uvc EXCEPT !.streaming = FALSE] ELSE uvc
  /\ UNCHANGED <<life, config, streams, outside, spin, poll, list, tf, crash>>

----------------------------------------------------------------------------
\* pollFrame: waits for a started stream, reads from all enabled ones; the
\* device lock is not taken.

PollTests_Locked ==   \* mutant: the loop condition is read with device_lock_
  /\ crash = "none" /\ poll = "test" /\ life \in {"up", "cleaned"}
  /\ poll' = IF life = "up" THEN "wait" ELSE "ended"
  /\ UNCHANGED <<life, config, streams, uvc, outside, queue, spin, list, tf, crash>>
PollTests ==
  /\ crash = "none" /\ poll = "test" /\ poll' = IF life = "up" THEN "wait" ELSE "ended"
  /\ UNCHANGED <<life, config, streams, uvc, outside, queue, spin, list, tf, crash>>
PollWaits ==
  /\ crash = "none" /\ poll = "wait"
  /\ IF started # {} THEN poll' = "read" /\ list' = enabled \cap created
                     ELSE poll' = "test" /\ list' = {}
  /\ UNCHANGED <<life, config, streams, uvc, outside, queue, spin, tf, crash>>
PollReads ==
  /\ crash = "none" /\ poll = "read" /\ poll' = "test" /\ list' = {}
  /\ UNCHANGED <<life, config, streams, uvc, outside, queue, spin, tf, crash>>

\* publishDynamicTransforms
TfEnds ==
  /\ crash = "none" /\ tf = "running" /\ life = "joining" /\ tf' = "ended"
  /\ UNCHANGED <<life, config, streams, uvc, outside, queue, spin, poll, list, crash>>

----------------------------------------------------------------------------
\* Destruction: ~OBCameraNode with device_lock_, clean, then the members, whose
\* publishers and services wait for a callback in progress.

Unplugged ==
  /\ crash = "none" /\ life = "up" /\ life' = "joining"
  /\ UNCHANGED <<config, streams, uvc, outside, queue, spin, poll, list, tf, crash>>

Joined_Tf == tf = "ended"   \* mutant: the polling thread is not joined
Joined == poll = "ended" /\ tf = "ended"
CleanStreams ==
  /\ crash = "none" /\ life = "joining" /\ Joined /\ life' = "cleaned"
  /\ started' = StopStreams(enabled) /\ created' = {} /\ uvc' = NoCamera
  /\ UNCHANGED <<config, enabled, modes, failed, outside, queue, spin, poll, list, tf, crash>>

MembersDestroyed ==
  /\ crash = "none" /\ life = "cleaned" /\ spin = Idle /\ life' = "gone" /\ queue' = <<>>
  /\ UNCHANGED <<config, streams, uvc, outside, spin, poll, list, tf, crash>>

----------------------------------------------------------------------------
\* Subscribers of the image topics and callers of the services.  A
\* reconfiguration is of the whole node: Infra stands for the stream.

Calls_Anyone(k, s) ==   \* mutant: someone unsubscribes who was not subscribed
  /\ crash = "none" /\ life \notin {"new", "gone"}
  /\ IF k = "reconf" THEN s = Infra ELSE s \in advertised
  /\ events < MaxEvents /\ events' = events + 1
  /\ queue' = Append(queue, [kind |-> k, stream |-> s])
  /\ subs' = [subs EXCEPT ![s] = @ + IF k = "unsub" THEN -1 ELSE 0]
  /\ UNCHANGED <<life, config, streams, uvc, spin, poll, list, tf, crash>>
Calls(k, s) ==
  /\ crash = "none" /\ life \notin {"new", "gone"}
  /\ IF k = "reconf" THEN s = Infra ELSE s \in advertised
  /\ events < MaxEvents /\ events' = events + 1
  /\ queue' = Append(queue, [kind |-> k, stream |-> s])
  /\ CASE k = "sub"    -> subs[s] < MaxSubs /\ subs' = [subs EXCEPT ![s] = @ + 1]
       [] k = "unsub"  -> subs[s] > 0 /\ subs' = [subs EXCEPT ![s] = @ - 1]
       [] k = "reconf" -> poll # "none" /\ UNCHANGED subs
       [] OTHER        -> OwnStream(s) /\ UNCHANGED subs
  /\ UNCHANGED <<life, config, streams, uvc, spin, poll, list, tf, crash>>

RosThread ==
  \E s \in Streams :
     \/ imageSubscribedCallback(s) \/ imageUnsubscribedCallback(s)
     \/ toggleSensor(s, TRUE) \/ toggleSensor(s, FALSE) \/ reconfigureCallback(s)
     \/ SettingChecks(s) \/ SettingActs(s)
     \/ UVCSubscribed(s) \/ UVCStarts(s) \/ UVCUnsubscribed(s)
Polling  == PollTests \/ PollWaits \/ PollReads
Building == Advertise \/ InitDone \/ InitFails
Cleaning == CleanStreams \/ MembersDestroyed

Next ==
  \/ Building \/ RosThread \/ Polling \/ TfEnds \/ Unplugged \/ Cleaning
  \/ \E k \in Kinds, s \in Streams : Calls(k, s)

Spec == Init /\ [][Next]_vars

\* Threads are scheduled, and waitForAnyStream returns after two seconds.
FairSpec == /\ Spec /\ WF_vars(Building) /\ WF_vars(RosThread) /\ WF_vars(Polling)
            /\ WF_vars(TfEnds) /\ WF_vars(Cleaning)

----------------------------------------------------------------------------
TypeOK ==
  /\ life \in {"new", "advertised", "up", "joining", "cleaned", "gone"}
  /\ useUVC \in BOOLEAN
  /\ supported \subseteq Streams /\ advertised \subseteq Streams
  /\ enabled \subseteq Streams /\ modes \subseteq Streams /\ created \subseteq Streams
  /\ started \subseteq Streams /\ failed \subseteq Streams
  /\ uvc \in [opened : BOOLEAN, handle : BOOLEAN, streaming : BOOLEAN]
  /\ subs \in [Streams -> 0..MaxSubs]
  /\ queue \in Seq([kind : Kinds, stream : Streams])
  /\ spin \in {Idle} \cup ({"setting", "uvc"} \X Streams)
  /\ poll \in {"none", "test", "wait", "read", "ended"} /\ list \subseteq Streams
  /\ tf \in {"none", "running", "ended"}
  /\ crash \in {"none", "no_mode", "null_stream", "no_handle"}
  /\ events \in 0..MaxEvents

\* Once every callback has run, an enabled stream that can be started is
\* running if and only if its topic has subscribers, and so is the UVC camera,
\* whatever the order in which subscriptions, toggles and reconfigurations came.
StreamFollowsSubscribers ==
  life = "up" /\ crash = "none" /\ queue = <<>> /\ spin = Idle =>
     /\ \A s \in enabled \ failed : s \in started <=> subs[s] > 0
     /\ uvc.handle => (uvc.streaming <=> subs[Color] > 0)

\* The polling thread, which does not take device_lock_, never reads from a
\* stream that the destroying thread has destroyed.
PollReadsLiveStreams == poll = "read" => list \subseteq created

\* A node whose device was unplugged is gone in the end: the join in its
\* destructor, made with device_lock_ held, does not wait for ever.
NodeEnds == life = "joining" ~> (life = "gone" \/ crash # "none")
=============================================================================
