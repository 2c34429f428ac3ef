----------------------------- MODULE MCVisionGrab -----------------------------
(***************************************************************************)
(* The camera node, and the nodes that take its images, for TLC.  The      *)
(* latter see of the camera node what FrameMailbox says, so that it is     *)
(* enough to look at one side at a time, the other at rest.                *)
(***************************************************************************)
EXTENDS VisionGrab

CONSTANT CameraFrames    \* bound: frames the device delivers, on the camera's side

ASSUME CameraAssumption == CameraFrames \in Nat

VARIABLES side,   \* the side that is looked at: "camera" or "grab"
          ok, grabbed, frame, frame_empty, mutex, worker, main, src, device, published

cameraVars == <<ok, grabbed, frame, frame_empty, mutex, worker, main, src, device, published>>
mcVars     == <<vars, side, cameraVars>>

Hik == INSTANCE HikCamera WITH MaxFrames <- CameraFrames

MCInit ==
  /\ Init /\ Hik!Init /\ side \in {"camera", "grab"}
  /\ side = "camera" => force = "full" /\ grip = <<"open", "full">>

OfCamera(A) == side = "camera" /\ A /\ UNCHANGED <<side, vars>>
OfGrab(A)   == side = "grab" /\ A /\ UNCHANGED <<side, cameraVars>>

MCNext == OfCamera(Hik!Next) \/ OfGrab(Next)

MCSpec ==
  /\ MCInit /\ [][MCNext]_mcVars
  /\ WF_mcVars(OfCamera(Hik!Worker)) /\ WF_mcVars(OfCamera(Hik!Main))
  /\ WF_mcVars(OfGrab(GrabStep))

\* What HikCamera says of its two threads: their types, the order of the images,
\* that nothing the worker uses is taken from it, that the two are a mailbox,
\* that the newest frame comes out, and that the node ends.
CameraTypeOK      == Hik!TypeOK
PublishedInOrder  == Hik!PublishedInOrder
WorkerIsSafe      == Hik!WorkerIsSafe
ImplementsMailbox == Hik!ImplementsMailbox
NewestComesOut    == Hik!NewestComesOut
NodeEnds          == Hik!NodeEnds

\* Each task comes to an end, on the side where the grab node runs.
TasksEnd == side = "grab" => TaskEnds
=============================================================================
