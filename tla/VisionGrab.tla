----------------------------- MODULE VisionGrab -----------------------------
(***************************************************************************)
(* From the camera to the arm: the object detector (vi_catch_yolov8.py)    *)
(* and the grab node (vision_grab_moveit.py), between the camera node, of  *)
(* which they see a mailbox for one frame, and the driver node, of which   *)
(* they see the delivery of trajectories.                                  *)
(*                                                                         *)
(* A topic whose subscriber has queue_size=1 keeps the newest message that *)
(* was not received.  The grab node is the only publisher of its topics    *)
(* and has one thread that runs its callback, so that messages that arrive *)
(* during a task wait; so does the driver node for this publisher.         *)
(***************************************************************************)
EXTENDS Naturals, Sequences

CONSTANTS MaxFrames,   \* bound: frames captured
          MaxMoves,    \* bound: trajectories published
          MaxErrors    \* bound: failed writes to the gripper and exceptions

ASSUME GrabAssumption ==
  MaxFrames \in Nat /\ MaxMoves \in Nat /\ MaxErrors \in Nat

VARIABLES
  latest, content, taken,    \* the camera node
  image,      \* detector: the frame in latest_image
  looking,    \* detector: the frame in color_image, while it is looked at
  detection,  \* frame of the newest detection that was not received
  phase,      \* grab node: "starting", "opened", "up" or "exited"
  step,       \* grab node: the step of Task it is at, 0 between tasks
  target,     \* grab node: frame in which the object of the newest task was seen
  force,      \* gripper: FORCE register
  grip,       \* gripper: position and force of the last motion
  errors,     \* errors so far
  moves,      \* history: end points of the trajectories published
  state, sent, lost          \* the driver node

camera   == <<latest, content, taken>>
detector == <<image, looking, detection>>
gripper  == <<force, grip>>
grabber  == <<phase, step, target, gripper, errors, moves>>
driver   == <<state, sent, lost>>
vars     == <<camera, detector, grabber, driver>>

NoFrame == 0
Moves   == 1..MaxMoves

Camera == INSTANCE FrameMailbox
Driver == INSTANCE TrajectoryDelivery WITH Jobs <- Moves, Size <- [m \in Moves |-> 1]

\* pick_and_place_task with gripper_open and gripper_grasp_gentle: writes to the
\* FORCE register, motions of the gripper, motions of the arm.
Task == << <<"force", "full">>, <<"grip", "open">>,
           <<"move", "above">>, <<"move", "down">>,
           <<"force", "gentle">>, <<"grip", "closed">>,
           <<"move", "ready">>,
           <<"force", "full">>, <<"grip", "open">> >>
Opening == 2        \* the steps of gripper_open, with which a task begins

Init ==
  /\ Camera!MInit /\ Driver!DInit
  /\ image = NoFrame /\ looking = NoFrame /\ detection = NoFrame
  /\ phase = "starting" /\ step = 1
  /\ target = NoFrame
  /\ force \in {"full", "gentle"}
  /\ grip \in {"open", "closed"} \X {force}
  /\ errors = 0 /\ moves = <<>>

-----------------------------------------------------------------------------
\* The camera node, and the detector.

CameraStep ==
  /\ \/ latest < MaxFrames /\ Camera!Put
     \/ Camera!Take
  /\ UNCHANGED <<detector, grabber, driver>>

\* Mutant: of the images that arrived, any one is kept.
ImageArrives_Any ==
  /\ \E k \in 1..Len(taken) : image' = taken[k]
  /\ UNCHANGED <<camera, looking, detection, grabber, driver>>

\* image_callback: a thread of its own replaces latest_image.
ImageArrives ==
  /\ taken # <<>>
  /\ image' = taken[Len(taken)]
  /\ UNCHANGED <<camera, looking, detection, grabber, driver>>

\* process_image, ten times a second, whether or not the image is a new one.
Look ==
  /\ looking = NoFrame /\ image # NoFrame
  /\ looking' = image
  /\ UNCHANGED <<camera, image, detection, grabber, driver>>

\* The model finds a bottle, and its position is published, or finds none.  What
\* is published before the grab node subscribes gets lost.
Detect ==
  /\ looking # NoFrame
  /\ looking' = NoFrame
  /\ detection' \in {detection} \cup (IF phase = "up" THEN {looking} ELSE {})
  /\ UNCHANGED <<camera, image, grabber, driver>>

-----------------------------------------------------------------------------
\* The grab node: one step after the other.

Doing(kind) == step > 0 /\ Task[step][1] = kind
Arg == Task[step][2]

Last == IF phase = "starting" THEN Opening ELSE Len(Task)

\* Mutant: one step too many.
Advance_OffByOne ==
  \/ step <= Last /\ step' = step + 1 /\ UNCHANGED phase
  \/ step > Last /\ step' = 0 /\ phase' = IF phase = "starting" THEN "opened" ELSE phase

Advance ==
  \/ step < Last /\ step' = step + 1 /\ UNCHANGED phase
  \/ step = Last /\ step' = 0 /\ phase' = IF phase = "starting" THEN "opened" ELSE phase

\* An exception, or a return with False, ends the task and the node goes on
\* listening; at the start it ends the process.
Abort == step' = 0 /\ phase' = IF phase = "starting" THEN "exited" ELSE phase

\* MoveIt is initialised, an object is chosen and the node subscribes to the
\* detections, or it exits.
Subscribe ==
  /\ phase = "opened" /\ phase' \in {"up", "exited"}
  /\ UNCHANGED <<camera, detector, step, target, gripper, errors, moves, driver>>

\* object_pose_callback: a class that was not chosen or a height out of range is
\* passed over.
Receive ==
  /\ phase = "up" /\ step = 0 /\ detection # NoFrame
  /\ detection' = NoFrame
  /\ \/ UNCHANGED <<step, target>>
     \/ step' = 1 /\ target' = detection
  /\ UNCHANGED <<camera, image, looking, phase, gripper, errors, moves, driver>>

\* gripper_set_force; the speed is written the same way.
SetForce ==
  /\ Doing("force")
  /\ force' = Arg
  /\ Advance
  /\ UNCHANGED <<camera, detector, target, grip, errors, moves, driver>>

\* gripper_move_to: position and trigger under one lock.
MoveGripper ==
  /\ Doing("grip")
  /\ grip' = <<Arg, force>>
  /\ Advance
  /\ UNCHANGED <<camera, detector, target, force, errors, moves, driver>>

\* Mutant: the answer of the gripper is not looked at.
GripperError_Ignored ==
  /\ errors < MaxErrors /\ errors' = errors + 1
  /\ \/ Doing("force") /\ force' \in {force, Arg} /\ UNCHANGED grip
     \/ Doing("grip") /\ grip' \in {grip, <<Arg, force>>} /\ UNCHANGED force
  /\ Advance
  /\ UNCHANGED <<camera, detector, target, moves, driver>>

\* minimalmodbus raises: the write got lost, or only its answer did.
GripperError ==
  /\ errors < MaxErrors /\ errors' = errors + 1
  /\ \/ Doing("force") /\ force' \in {force, Arg} /\ UNCHANGED grip
     \/ Doing("grip") /\ grip' \in {grip, <<Arg, force>>} /\ UNCHANGED force
  /\ Abort
  /\ UNCHANGED <<camera, detector, target, moves, driver>>

\* move_to_pose_joint_space, move_to_joint_values and publish_to_hk_driver: the
\* end point of the plan is published, and the node waits for as long as the
\* plan takes, whatever the driver makes of it.
MoveArm ==
  /\ Doing("move") /\ Len(moves) < MaxMoves
  /\ moves' = Append(moves, Arg)
  /\ Advance
  /\ UNCHANGED <<camera, detector, target, gripper, errors, driver>>

\* Mutant: a task whose return to READY cannot be planned is given up as well.
PlanFails_AlwaysAborts ==
  /\ Doing("move")
  /\ Abort
  /\ UNCHANGED <<camera, detector, target, gripper, errors, moves, driver>>

\* Mutant: after a failed plan the task is begun again.
PlanFails_Retries ==
  /\ Doing("move")
  /\ \/ Arg # "ready" /\ step' = 1 /\ UNCHANGED phase
     \/ Arg = "ready" /\ Advance
  /\ UNCHANGED <<camera, detector, target, gripper, errors, moves, driver>>

\* Planning fails: the task is given up, but the result of the last move, to
\* READY, is ignored.
PlanFails ==
  /\ Doing("move")
  /\ \/ Arg # "ready" /\ Abort
     \/ Arg = "ready" /\ Advance
  /\ UNCHANGED <<camera, detector, target, gripper, errors, moves, driver>>

MoveRaises ==
  /\ Doing("move")
  /\ errors < MaxErrors /\ errors' = errors + 1
  /\ Abort
  /\ UNCHANGED <<camera, detector, target, gripper, moves, driver>>

GrabStep == SetForce \/ MoveGripper \/ GripperError \/ MoveArm \/ PlanFails
            \/ MoveRaises

-----------------------------------------------------------------------------
\* The driver node, as TrajectoryDelivery describes it.

\* The trajectories that are newer than all that the driver took.
Waiting == {m \in 1..Len(moves) : \A n \in m..MaxMoves : state[n] = "none"}

Take(m) ==
  /\ \E to \in {"running", "rejected"} : Driver!Becomes(m, "none", to)
  /\ UNCHANGED <<camera, detector, grabber>>

\* Mutant: the driver takes a trajectory while another one is running.
TakeMove_Concurrent == \E m \in Waiting : Take(m)

\* The driver's thread for this publisher takes a trajectory when it has done with
\* the one before; those that were replaced in the meantime get lost.
TakeMove == /\ \A m \in Moves : state[m] # "running"
            /\ \E m \in Waiting : Take(m)

\* How a trajectory fails makes no difference to this publisher, which is not told.
Execute ==
  /\ \E m \in Moves :
       \/ Driver!Deliver(m, 1) \/ Driver!GiveUp(m, 1) \/ Driver!Succeed(m)
       \/ Driver!Becomes(m, "running", "failed")
  /\ UNCHANGED <<camera, detector, grabber>>

Next == CameraStep \/ ImageArrives \/ Look \/ Detect \/ Subscribe
        \/ Receive \/ GrabStep \/ TakeMove \/ Execute

Spec == Init /\ [][Next]_vars

\* The callback's thread runs, and its waits, serial writes and calls of MoveIt
\* have an end.
FairSpec == Spec /\ WF_vars(GrabStep)

-----------------------------------------------------------------------------
\* Properties.

\* Type invariant.
TypeOK ==
  /\ latest \in 0..MaxFrames /\ content \in 0..latest /\ taken \in Seq(1..latest)
  /\ {image, looking, detection, target} \subseteq 0..latest
  /\ phase \in {"starting", "opened", "up", "exited"}
  /\ step \in 0..Len(Task) /\ errors \in 0..MaxErrors
  /\ force \in {"full", "gentle"}
  /\ grip \in {"open", "closed"} \X {"full", "gentle"}
  /\ moves \in Seq({"above", "down", "ready"})
  /\ Len(moves) <= MaxMoves
  /\ state \in [Moves -> {"none", "running", "rejected", "succeeded", "failed"}]
  /\ sent \in [Moves -> SUBSET {1}] /\ lost \in [Moves -> SUBSET {1}]

\* "力度受限闭合" (vision_grab_moveit.py:120): whatever goes wrong on the serial
\* line, the gripper closes with the limited force only, although force and
\* motion are written separately and the registers outlive a failed task.
ClosesGently == phase = "up" => grip # <<"closed", "full">>

\* A task leaves the gripper open, also when a motion could not be planned,
\* unless an exception ended it.
OpenBetweenTasks == phase = "up" /\ step = 0 /\ errors = 0 => grip[1] = "open"

\* Over camera, detector and two topics that drop messages: no task acts on an
\* image older than that of a task before it.
TargetsNeverGoBack == [][target' >= target]_target

\* Whatever the driver drops, delays or gives up, the arm is never sent the end
\* point of an earlier motion after that of a later one.
ArmNeverGoesBack ==
  [][\A m \in Moves : sent'[m] # sent[m] => \A n \in (m+1)..MaxMoves : sent[n] = {}]_sent

\* Each task comes to an end, and the node listens again.
TaskEnds == step > 0 ~> step = 0

\* "Step 7: 已到达零位" (vision_grab_moveit.py:355): before the gripper lets go, the
\* arm has at least been told to move to READY.
ReleasedAtReady ==
  step = Len(Task) - 1 => moves # <<>> /\ moves[Len(moves)] = "ready"
=============================================================================
