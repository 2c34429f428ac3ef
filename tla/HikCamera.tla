------------------------------ MODULE HikCamera ------------------------------
(***************************************************************************)
(* The Hikrobot camera node: class Camera (hikrobot_camera.hpp) and its    *)
(* main program (hikrobot_camera.cpp).  A worker thread gets frames from   *)
(* the device and leaves the newest one in camera::frame; the main thread  *)
(* fetches it ten times a second and publishes it.  The two share frame    *)
(* and frame_empty under a mutex.  Frames are numbered in the order of     *)
(* their capture, 0 is the empty image.                                    *)
(***************************************************************************)
EXTENDS Naturals, Sequences

CONSTANT MaxFrames    \* bound: frames the device delivers

VARIABLES
  ok,          \* ros::ok()
  grabbed,     \* frames got from the device; the last one is in the buffer
  frame,       \* camera::frame
  frame_empty, \* camera::frame_empty
  mutex,       \* holder of the mutex, "none", or "destroyed"
  worker,      \* where HKWorkThread is
  main,        \* where the main thread is
  src,         \* main's copy of the image
  device,      \* the camera is delivering frames
  published    \* history: frames published

vars == <<ok, grabbed, frame, frame_empty, mutex, worker, main, src, device,
          published>>
buffer == <<frame, frame_empty, mutex>>

NoImage == 0

WorkerPoints == {"unborn", "loop", "grab", "store", "stored", "ended"}
MainPoints   == {"constructor", "loop", "read", "cloned", "publish", "join", "exited"}

Init ==
  /\ ok = TRUE /\ device = FALSE
  /\ grabbed = 0 /\ published = <<>>
  /\ frame = NoImage /\ src = NoImage /\ frame_empty = FALSE
  /\ mutex = "none" /\ worker = "unborn" /\ main = "constructor"

-----------------------------------------------------------------------------
\* The constructor, the destructor, and the end of ROS.

\* The device is opened and configured, the mutex and the thread are created.
Construct ==
  /\ main = "constructor"
  /\ main' = "loop" /\ worker' = "loop" /\ device' = TRUE
  /\ UNCHANGED <<ok, grabbed, buffer, src, published>>

\* exit(-1): no device, or one of the calls fails, before or after the device
\* was started, and always before the thread.
ConstructFails ==
  /\ main = "constructor"
  /\ main' = "exited"
  /\ device' \in BOOLEAN
  /\ UNCHANGED <<ok, grabbed, buffer, worker, src, published>>

\* A signal ends ROS; both threads notice at the head of their loops.
Shutdown ==
  /\ ok /\ main # "exited"
  /\ ok' = FALSE
  /\ UNCHANGED <<grabbed, buffer, worker, main, src, device, published>>

\* Mutant: the destructor does not wait for the thread.
Destruct_NoJoin ==
  /\ main = "join"
  /\ main' = "exited"
  /\ \/ device' = FALSE /\ mutex' = "destroyed"
     \/ device' \in BOOLEAN /\ UNCHANGED mutex
  /\ UNCHANGED <<ok, grabbed, frame, frame_empty, worker, src, published>>

\* pthread_join, then the device is stopped and closed and the mutex destroyed;
\* each call on the device that fails ends the process at once.
Destruct ==
  /\ main = "join" /\ worker = "ended"
  /\ main' = "exited"
  /\ \/ device' = FALSE /\ mutex' = "destroyed"
     \/ device' \in BOOLEAN /\ UNCHANGED mutex
  /\ UNCHANGED <<ok, grabbed, frame, frame_empty, worker, src, published>>

-----------------------------------------------------------------------------
\* HKWorkThread.

WorkerGoes(from, to) == worker = from /\ worker' = to

WorkerLoop ==
  /\ WorkerGoes("loop", IF ok THEN "grab" ELSE "ended")
  /\ UNCHANGED <<ok, grabbed, buffer, main, src, device, published>>

GrabFrame ==
  /\ WorkerGoes("grab", "store")
  /\ device /\ grabbed < MaxFrames
  /\ grabbed' = grabbed + 1
  /\ UNCHANGED <<ok, buffer, main, src, device, published>>

\* Mutant: the worker tries again without a look at ros::ok().
GrabFails_Retries ==
  /\ WorkerGoes("grab", "grab")
  /\ UNCHANGED <<ok, grabbed, buffer, main, src, device, published>>

\* No frame within three seconds, or another error: the next round.
GrabFails ==
  /\ WorkerGoes("grab", "loop")
  /\ UNCHANGED <<ok, grabbed, buffer, main, src, device, published>>

\* Mutant: the worker writes the frame without the mutex.
Store_Unlocked ==
  /\ WorkerGoes("store", "stored")
  /\ frame' = grabbed
  /\ UNCHANGED <<ok, grabbed, frame_empty, mutex, main, src, device, published>>

Store ==
  /\ WorkerGoes("store", "stored")
  /\ mutex = "none" /\ mutex' = "worker"
  /\ frame' = grabbed
  /\ UNCHANGED <<ok, grabbed, frame_empty, main, src, device, published>>

StoreDone ==
  /\ WorkerGoes("stored", "loop")
  /\ frame_empty' = FALSE
  /\ mutex' = "none"
  /\ UNCHANGED <<ok, grabbed, frame, main, src, device, published>>

-----------------------------------------------------------------------------
\* The main loop and ReadImg.

MainGoes(from, to) == main = from /\ main' = to

MainLoop ==
  /\ MainGoes("loop", IF ok THEN "read" ELSE "join")
  /\ UNCHANGED <<ok, grabbed, buffer, worker, src, device, published>>

\* The lock is taken and the flag tested: there is nothing new ...
ReadNothing ==
  /\ MainGoes("read", "loop")
  /\ mutex = "none" /\ frame_empty
  /\ src' = NoImage
  /\ UNCHANGED <<ok, grabbed, buffer, worker, device, published>>

\* Mutant: main copies the frame without the mutex.
ReadImg_Unlocked ==
  /\ MainGoes("read", "cloned")
  /\ ~frame_empty
  /\ src' = frame
  /\ UNCHANGED <<ok, grabbed, buffer, worker, device, published>>

\* ... or there is, and it is copied, which may be the image nobody has set.
ReadImg ==
  /\ MainGoes("read", "cloned")
  /\ mutex = "none" /\ ~frame_empty
  /\ mutex' = "main"
  /\ src' = frame
  /\ UNCHANGED <<ok, grabbed, frame, frame_empty, worker, device, published>>

\* Mutant: the frame is not marked as read.
ReadDone_KeepsFlag ==
  /\ MainGoes("cloned", "publish")
  /\ mutex' = "none"
  /\ UNCHANGED <<ok, grabbed, frame, frame_empty, worker, src, device, published>>

ReadDone ==
  /\ MainGoes("cloned", "publish")
  /\ frame_empty' = TRUE
  /\ mutex' = "none"
  /\ UNCHANGED <<ok, grabbed, frame, worker, src, device, published>>

\* Mutant: an empty image is published like any other.
Publish_Empty ==
  /\ MainGoes("publish", "loop")
  /\ published' = Append(published, src)
  /\ UNCHANGED <<ok, grabbed, buffer, worker, src, device>>

Publish ==
  /\ MainGoes("publish", "loop")
  /\ published' = IF src = NoImage THEN published ELSE Append(published, src)
  /\ UNCHANGED <<ok, grabbed, buffer, worker, src, device>>

Worker == WorkerLoop \/ GrabFrame \/ GrabFails \/ Store \/ StoreDone
Main   == Construct \/ ConstructFails \/ MainLoop \/ ReadNothing \/ ReadImg
          \/ ReadDone \/ Publish \/ Destruct

Ended == main = "exited" /\ UNCHANGED vars

Next == Worker \/ Main \/ Shutdown \/ Ended

Spec == Init /\ [][Next]_vars

\* Both threads are scheduled, and no call blocks for more than three seconds.
\* Neither the device nor the end of ROS is forced to happen.
FairSpec == Spec /\ WF_vars(Worker) /\ WF_vars(Main)

-----------------------------------------------------------------------------
\* Properties.

\* Type invariant.
TypeOK ==
  /\ ok \in BOOLEAN /\ device \in BOOLEAN /\ frame_empty \in BOOLEAN
  /\ grabbed \in 0..MaxFrames /\ frame \in 0..grabbed /\ src \in 0..grabbed
  /\ mutex \in {"none", "worker", "main", "destroyed"}
  /\ worker \in WorkerPoints /\ main \in MainPoints
  /\ published \in Seq(1..grabbed)

\* Frames of which the worker has told main, and those main has fetched.
Latest ==
  IF worker = "store" \/ (worker = "stored" /\ frame_empty)
    THEN grabbed - 1 ELSE grabbed
Fetched ==
  IF main = "publish" /\ src # NoImage THEN Append(published, src) ELSE published

\* The two threads implement a mailbox for one frame with their flag and their
\* mutex: what is published is a frame that was current when it was fetched,
\* and none is published twice, whichever way they overtake each other.
Mailbox == INSTANCE FrameMailbox WITH
  latest  <- Latest,
  content <- IF frame_empty THEN NoImage ELSE frame,
  taken   <- Fetched
ImplementsMailbox == Mailbox!MSpec

\* The images leave the node in the order of their capture, none twice.
PublishedInOrder ==
  \A k \in 1..Len(published) : \A m \in (k+1)..Len(published) :
    published[k] < published[m]

\* Nothing the worker uses is taken from it: the device is stopped and the mutex
\* destroyed only when HKWorkThread has returned.
WorkerIsSafe == worker \notin {"unborn", "ended"} => device /\ mutex # "destroyed"

\* A frame may be skipped for a newer one, but the newest is not lost: when the
\* device stops delivering, the last frame it gave still comes out.
NewestComesOut ==
  grabbed = MaxFrames ~> \/ ~ok
                         \/ \E k \in 1..Len(published) : published[k] = MaxFrames

\* Once ROS is shut down the destructor gets to the end of its join and the node
\* terminates.
NodeEnds == ~ok ~> main = "exited"
=============================================================================
