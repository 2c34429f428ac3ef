------------------------- MODULE VisionGrab_proofs -------------------------
(***************************************************************************)
(* Theorems about VisionGrab: whatever the number of frames, motions and   *)
(* failures, the gripper closes gently and is left open, and neither the   *)
(* detections nor the motions of the arm go back in time.                  *)
(***************************************************************************)
EXTENDS VisionGrab, TLAPS

-----------------------------------------------------------------------------
\* What the steps of the task are.

LEMMA TaskSteps ==
  /\ Len(Task) = 9
  /\ \A s \in {1, 8} : Task[s] = <<"force", "full">>
  /\ Task[5] = <<"force", "gentle">>
  /\ \A s \in {2, 9} : Task[s] = <<"grip", "open">>
  /\ Task[6] = <<"grip", "closed">>
  /\ Task[3] = <<"move", "above">> /\ Task[4] = <<"move", "down">>
  /\ Task[7] = <<"move", "ready">>
  BY DEF Task

LEMMA StepKinds ==
  ASSUME step \in 0..9
  PROVE  /\ Doing("force") <=> step \in {1, 5, 8}
         /\ Doing("grip") <=> step \in {2, 6, 9}
         /\ Doing("move") <=> step \in {3, 4, 7}
         /\ step \in {1, 8} => Arg = "full"
         /\ step = 5 => Arg = "gentle"
         /\ step \in {2, 9} => Arg = "open"
         /\ step = 6 => Arg = "closed"
         /\ step \in {3, 4, 7} => Arg \in {"above", "down", "ready"}
         /\ step \in {3, 4} => Arg # "ready"
         /\ step = 7 => Arg = "ready"
  <1>1. step \in {0, 1, 2, 3, 4, 5, 6, 7, 8, 9}
    OBVIOUS
  <1>2. CASE step = 0
    BY <1>2 DEF Doing
  <1>3. CASE step \in {1, 5, 8}
    BY <1>3, TaskSteps DEF Doing, Arg
  <1>4. CASE step \in {2, 6, 9}
    BY <1>4, TaskSteps DEF Doing, Arg
  <1>5. CASE step \in {3, 4, 7}
    BY <1>5, TaskSteps DEF Doing, Arg
  <1>6. QED
    BY <1>1, <1>2, <1>3, <1>4, <1>5

-----------------------------------------------------------------------------
\* Types.

FrameTypes ==
  /\ latest \in 0..MaxFrames /\ content \in 0..latest /\ taken \in Seq(1..latest)
  /\ image \in 0..latest /\ looking \in 0..latest /\ detection \in 0..latest
  /\ target \in 0..latest

GrabberTypes ==
  /\ phase \in {"starting", "opened", "up", "exited"}
  /\ step \in 0..9 /\ errors \in 0..MaxErrors
  /\ force \in {"full", "gentle"}
  /\ grip \in {"open", "closed"} \X {"full", "gentle"}

MoveTypes ==
  /\ moves \in Seq({"above", "down", "ready"}) /\ Len(moves) <= MaxMoves
  /\ state \in [Moves -> {"none", "running", "rejected", "succeeded", "failed"}]
  /\ sent \in [Moves -> SUBSET {1}] /\ lost \in [Moves -> SUBSET {1}]

Types == FrameTypes /\ GrabberTypes /\ MoveTypes

LEMMA TypesMeanTypeOK == Types <=> TypeOK
  BY TaskSteps DEF Types, FrameTypes, GrabberTypes, MoveTypes, TypeOK

LEMMA TypesInit == Init => Types
  <1> SUFFICES ASSUME Init PROVE Types
    OBVIOUS
  <1> USE GrabAssumption DEF Init
  <1>1. FrameTypes
    BY DEF FrameTypes, Camera!MInit, NoFrame, Camera!NoFrame
  <1>2. GrabberTypes
    BY DEF GrabberTypes
  <1>3. MoveTypes
    BY DEF MoveTypes, Driver!DInit
  <1>4. QED
    BY <1>1, <1>2, <1>3 DEF Types

LEMMA FrameTypesStep == Types /\ [Next]_vars => FrameTypes'
  <1> SUFFICES ASSUME Types, [Next]_vars PROVE FrameTypes'
    OBVIOUS
  <1> USE GrabAssumption DEF Types, FrameTypes, NoFrame, Camera!NoFrame, camera, detector,
                             grabber
  <1>1. CASE latest < MaxFrames /\ Camera!Put /\ UNCHANGED <<detector, grabber, driver>>
    <2>1. latest' = latest + 1 /\ content' = latest' /\ taken' = taken
      BY <1>1 DEF Camera!Put
    <2>2. \A k \in 1..Len(taken) : taken[k] \in 1..latest'
      BY <2>1
    <2>3. taken' \in Seq(1..latest')
      BY <2>1, <2>2
    <2>4. QED
      BY <1>1, <2>1, <2>3
  <1>2. CASE Camera!Take /\ UNCHANGED <<detector, grabber, driver>>
    BY <1>2 DEF Camera!Take
  <1>3. CASE ImageArrives
    BY <1>3 DEF ImageArrives
  <1>4. CASE Look \/ Detect
    BY <1>4 DEF Look, Detect
  <1>5. CASE Subscribe \/ Receive
    BY <1>5 DEF Subscribe, Receive
  <1>6. CASE GrabStep
    BY <1>6 DEF GrabStep, SetForce, MoveGripper, GripperError, MoveArm, PlanFails, MoveRaises
  <1>7. CASE TakeMove \/ Execute
    BY <1>7 DEF TakeMove, Take, Execute
  <1>8. CASE UNCHANGED vars
    BY <1>8 DEF vars
  <1>9. QED
    BY <1>1, <1>2, <1>3, <1>4, <1>5, <1>6, <1>7, <1>8 DEF Next, CameraStep

LEMMA GrabberTypesStep == Types /\ [Next]_vars => GrabberTypes'
  <1> SUFFICES ASSUME Types, [Next]_vars PROVE GrabberTypes'
    OBVIOUS
  <1> USE GrabAssumption DEF Types, GrabberTypes, grabber, gripper
  <1>1. Last \in {2, 9}
    BY TaskSteps DEF Last, Opening
  <1>2. Advance \/ Abort => /\ phase' \in {"starting", "opened", "up", "exited"}
                            /\ step' \in 0..9
    BY <1>1 DEF Advance, Abort
  <1>3. Doing("force") => Arg \in {"full", "gentle"}
    BY StepKinds
  <1>4. Doing("grip") => Arg \in {"open", "closed"}
    BY StepKinds
  <1>5. CASE CameraStep \/ ImageArrives \/ Look \/ Detect \/ TakeMove \/ Execute
    BY <1>5 DEF CameraStep, ImageArrives, Look, Detect, TakeMove, Take, Execute
  <1>6. CASE Subscribe \/ Receive
    BY <1>6 DEF Subscribe, Receive
  <1>7. CASE SetForce
    BY <1>2, <1>3, <1>7 DEF SetForce
  <1>8. CASE MoveGripper
    BY <1>2, <1>4, <1>8 DEF MoveGripper
  <1>9. CASE GripperError
    BY <1>2, <1>3, <1>4, <1>9 DEF GripperError
  <1>10. CASE MoveArm \/ PlanFails \/ MoveRaises
    BY <1>2, <1>10 DEF MoveArm, PlanFails, MoveRaises
  <1>11. CASE UNCHANGED vars
    BY <1>11 DEF vars
  <1>12. QED
    BY <1>5, <1>6, <1>7, <1>8, <1>9, <1>10, <1>11 DEF Next, GrabStep

LEMMA MoveTypesStep == Types /\ [Next]_vars => MoveTypes'
  <1> SUFFICES ASSUME Types, [Next]_vars PROVE MoveTypes'
    OBVIOUS
  <1> USE GrabAssumption DEF Types, MoveTypes, Moves
  <1>1. CASE CameraStep \/ ImageArrives \/ Look \/ Detect \/ Subscribe \/ Receive
    BY <1>1 DEF CameraStep, ImageArrives, Look, Detect, Subscribe, Receive, grabber, driver
  <1>2. CASE SetForce \/ MoveGripper \/ GripperError \/ PlanFails \/ MoveRaises
    BY <1>2 DEF SetForce, MoveGripper, GripperError, PlanFails, MoveRaises, driver
  <1>3. CASE MoveArm
    <2>1. Arg \in {"above", "down", "ready"}
      BY <1>3, StepKinds DEF MoveArm, GrabberTypes
    <2>2. QED
      BY <1>3, <2>1 DEF MoveArm, driver
  <1>4. CASE TakeMove
    BY <1>4 DEF TakeMove, Take, Waiting, Driver!Becomes, grabber
  <1>5. CASE Execute
    <2>1. PICK m \in Moves : Driver!Deliver(m, 1) \/ Driver!GiveUp(m, 1)
             \/ Driver!Succeed(m) \/ Driver!Becomes(m, "running", "failed")
      BY <1>5 DEF Execute
    <2>2. moves' = moves
      BY <1>5 DEF Execute, grabber
    <2>3. QED
      BY <2>1, <2>2 DEF Driver!Deliver, Driver!GiveUp, Driver!Succeed, Driver!Becomes
  <1>6. CASE UNCHANGED vars
    BY <1>6 DEF vars, grabber, driver
  <1>7. QED
    BY <1>1, <1>2, <1>3, <1>4, <1>5, <1>6 DEF Next, GrabStep

LEMMA TypesAlways == Spec => []Types
  <1>1. Types /\ [Next]_vars => Types'
    BY FrameTypesStep, GrabberTypesStep, MoveTypesStep DEF Types
  <1>2. QED
    BY TypesInit, <1>1, PTL DEF Spec

\* Every variable of the pipeline stays well typed.
THEOREM GrabTyped == Spec => []TypeOK
  BY TypesAlways, TypesMeanTypeOK, PTL

-----------------------------------------------------------------------------
\* The gripper.

\* How far the node can be before it listens; what the FORCE register holds when
\* the gripper is about to close; where in the task the gripper can be closed.
GripInv ==
  /\ phase = "starting" => step \in {1, 2}
  /\ phase \in {"opened", "exited"} => step = 0
  /\ phase = "starting" /\ step = 2 => force = "full"
  /\ step = 6 => force = "gentle"
  /\ phase \in {"opened", "up"} => grip # <<"closed", "full">>
  /\ phase \in {"opened", "up"} /\ errors = 0 /\ step \notin {7, 8, 9} => grip[1] = "open"

LEMMA GripInit == Init => GripInv
  BY DEF Init, GripInv

LEMMA GripStep == Types /\ GripInv /\ [Next]_vars => GripInv'
  <1> SUFFICES ASSUME Types, GripInv, [Next]_vars PROVE GripInv'
    OBVIOUS
  <1> USE DEF Types, GripInv, GrabberTypes, grabber, gripper
  <1>1. Last = IF phase = "starting" THEN 2 ELSE 9
    BY TaskSteps DEF Last, Opening
  <1>2. CASE CameraStep \/ ImageArrives \/ Look \/ Detect \/ TakeMove \/ Execute
    BY <1>2 DEF CameraStep, ImageArrives, Look, Detect, TakeMove, Take, Execute
  <1>3. CASE Subscribe \/ Receive
    BY <1>3 DEF Subscribe, Receive
  <1>4. CASE SetForce
    BY <1>1, <1>4, StepKinds DEF SetForce, Advance
  <1>5. CASE MoveGripper
    BY <1>1, <1>5, StepKinds DEF MoveGripper, Advance
  <1>6. CASE GripperError
    <2>1. errors' = errors + 1 /\ errors \in 0..MaxErrors /\ MaxErrors \in Nat
      BY <1>6, GrabAssumption DEF GripperError
    <2>2. step' = 0 /\ phase' = IF phase = "starting" THEN "exited" ELSE phase
      BY <1>6 DEF GripperError, Abort
    <2>3. phase = "up" => grip' # <<"closed", "full">>
      BY <1>6, StepKinds DEF GripperError
    <2>4. phase \in {"starting", "up"}
      BY <1>6, StepKinds DEF GripperError
    <2>5. errors' # 0
      BY <2>1
    <2>6. QED
      BY <2>2, <2>3, <2>4, <2>5
  <1>7. CASE MoveArm
    BY <1>1, <1>7, StepKinds DEF MoveArm, Advance
  <1>8. CASE PlanFails
    BY <1>1, <1>8, StepKinds DEF PlanFails, Advance, Abort
  <1>9. CASE MoveRaises
    <2>1. errors' = errors + 1 /\ errors \in 0..MaxErrors /\ MaxErrors \in Nat
      BY <1>9, GrabAssumption DEF MoveRaises
    <2>2. step' = 0 /\ phase' = IF phase = "starting" THEN "exited" ELSE phase
      BY <1>9 DEF MoveRaises, Abort
    <2>3. force' = force /\ grip' = grip
      BY <1>9 DEF MoveRaises
    <2>4. phase # "starting"
      BY <1>9, StepKinds DEF MoveRaises
    <2>5. QED
      BY <2>1, <2>2, <2>3, <2>4
  <1>10. CASE UNCHANGED vars
    BY <1>10 DEF vars
  <1>11. QED
    BY <1>2, <1>3, <1>4, <1>5, <1>6, <1>7, <1>8, <1>9, <1>10 DEF Next, GrabStep

LEMMA GripAlways == Spec => []GripInv
  BY TypesAlways, GripInit, GripStep, PTL DEF Spec

\* The gripper closes with the limited force only, also after failed writes.
THEOREM GrabClosesGently == Spec => []ClosesGently
  <1>1. GripInv => ClosesGently
    BY DEF GripInv, ClosesGently
  <1>2. QED
    BY <1>1, GripAlways, PTL

\* Without exceptions a task leaves the gripper open, however it ends.
THEOREM GrabOpenBetweenTasks == Spec => []OpenBetweenTasks
  <1>1. GripInv => OpenBetweenTasks
    BY DEF GripInv, OpenBetweenTasks
  <1>2. QED
    BY <1>1, GripAlways, PTL

-----------------------------------------------------------------------------
\* The detections.

\* From the task back to the camera each stage holds a frame that is not older,
\* unless it holds none.
LastTaken == IF taken = <<>> THEN 0 ELSE taken[Len(taken)]
Chain ==
  /\ content # 0 => LastTaken <= content
  /\ image <= LastTaken
  /\ looking <= image /\ detection <= image /\ target <= image
  /\ looking # 0 => detection <= looking /\ target <= looking
  /\ detection # 0 => target <= detection

LEMMA ChainInit == Init => Chain
  BY DEF Init, Chain, LastTaken, Camera!MInit, NoFrame, Camera!NoFrame

LEMMA ChainStep == Types /\ Chain /\ [Next]_vars => Chain' /\ (target' = target \/ target <= target')
  <1> SUFFICES ASSUME Types, Chain, [Next]_vars
               PROVE  Chain' /\ (target' = target \/ target <= target')
    OBVIOUS
  <1> USE DEF Chain, NoFrame, Camera!NoFrame, camera, detector, grabber
  <1>1. /\ latest \in Nat /\ content \in 0..latest /\ taken \in Seq(1..latest)
        /\ image \in Nat /\ looking \in Nat /\ detection \in Nat /\ target \in Nat
    BY GrabAssumption DEF Types, FrameTypes
  <1>2. LastTaken \in 0..latest
    BY <1>1 DEF LastTaken
  <1>3. CASE Camera!Put /\ UNCHANGED <<detector, grabber, driver>>
    <2>1. content' = latest + 1 /\ LastTaken' = LastTaken
      BY <1>3 DEF Camera!Put, LastTaken
    <2>2. QED
      BY <1>1, <1>2, <1>3, <2>1
  <1>4. CASE Camera!Take /\ UNCHANGED <<detector, grabber, driver>>
    <2>1. content \in 1..latest /\ taken' = Append(taken, content) /\ content' = 0
      BY <1>1, <1>4 DEF Camera!Take
    <2>2. taken' # <<>> /\ taken'[Len(taken')] = content
      BY <1>1, <2>1
    <2>3. LastTaken' = content
      BY <2>2 DEF LastTaken
    <2>4. QED
      BY <1>1, <1>2, <1>4, <2>1, <2>3
  <1>5. CASE ImageArrives
    <2>1. image' = LastTaken /\ LastTaken' = LastTaken
      BY <1>5 DEF ImageArrives, LastTaken
    <2>2. QED
      BY <1>1, <1>2, <1>5, <2>1 DEF ImageArrives
  <1>6. ASSUME UNCHANGED camera PROVE LastTaken' = LastTaken
    BY <1>6 DEF LastTaken
  <1>7. CASE Look
    BY <1>1, <1>2, <1>6, <1>7 DEF Look
  <1>8. CASE Detect
    BY <1>1, <1>2, <1>6, <1>8 DEF Detect
  <1>9. CASE Subscribe \/ GrabStep \/ TakeMove \/ Execute \/ UNCHANGED vars
    <2>1. UNCHANGED <<camera, detector, target>>
      BY <1>9 DEF Subscribe, GrabStep, SetForce, MoveGripper, GripperError, MoveArm,
                  PlanFails, MoveRaises, TakeMove, Take, Execute, vars
    <2>2. QED
      BY <1>6, <2>1
  <1>10. CASE Receive
    BY <1>1, <1>2, <1>6, <1>10 DEF Receive
  <1>11. QED
    BY <1>3, <1>4, <1>5, <1>7, <1>8, <1>9, <1>10 DEF Next, CameraStep

\* No task acts on a frame older than that of a task before it.
THEOREM GrabTargetsNeverGoBack == Spec => TargetsNeverGoBack
  <1>1. Types /\ Chain /\ [Next]_vars => [target' >= target]_target
    <2> SUFFICES ASSUME Types, Chain, [Next]_vars, target' # target PROVE target' >= target
      OBVIOUS
    <2>1. target <= target'
      BY ChainStep
    <2>2. target \in Nat /\ target' \in Nat
      BY FrameTypesStep, GrabAssumption DEF Types, FrameTypes
    <2>3. QED
      BY <2>1, <2>2
  <1>2. Spec => []Chain
    BY TypesAlways, ChainInit, ChainStep, PTL DEF Spec
  <1>3. QED
    BY <1>1, <1>2, TypesAlways, PTL DEF Spec, TargetsNeverGoBack

-----------------------------------------------------------------------------
\* The arm.

\* Nothing newer than the running trajectory was touched, and what was sent was taken.
ArmInv ==
  /\ \A m \in Moves : state[m] = "none" => sent[m] = {}
  /\ \A m, n \in Moves : state[m] = "running" /\ n > m => state[n] = "none"

ArmGuarantee ==
  \A m \in Moves : sent'[m] # sent[m] => \A n \in (m+1)..MaxMoves : sent[n] = {}

LEMMA ArmInit == Init => ArmInv
  BY DEF Init, ArmInv, Driver!DInit

LEMMA ArmStep == Types /\ ArmInv /\ [Next]_vars => ArmInv' /\ ArmGuarantee
  <1> SUFFICES ASSUME Types, ArmInv, [Next]_vars PROVE ArmInv' /\ ArmGuarantee
    OBVIOUS
  <1> USE GrabAssumption DEF ArmInv, ArmGuarantee, Types, MoveTypes, Moves
  <1>1. CASE TakeMove
    <2>1. PICK m \in Waiting, to \in {"running", "rejected"} : Driver!Becomes(m, "none", to)
      BY <1>1 DEF TakeMove, Take
    <2>2. m \in Moves /\ \A n \in m..MaxMoves : state[n] = "none"
      BY <2>1 DEF Waiting
    <2>3. \A n \in Moves : state[n] # "running"
      BY <1>1 DEF TakeMove
    <2>4. sent' = sent /\ state' = [state EXCEPT ![m] = to]
      BY <2>1 DEF Driver!Becomes
    <2>5. QED
      BY <2>1, <2>2, <2>3, <2>4
  <1>2. CASE Execute
    <2>1. PICK m \in Moves : Driver!Deliver(m, 1) \/ Driver!GiveUp(m, 1)
             \/ Driver!Succeed(m) \/ Driver!Becomes(m, "running", "failed")
      BY <1>2 DEF Execute
    <2>2. CASE Driver!Deliver(m, 1)
      <3>1. state[m] = "running" /\ state' = state /\ sent' = [sent EXCEPT ![m] = @ \cup {1}]
        BY <2>2 DEF Driver!Deliver, Driver!Due
      <3>2. QED
        BY <3>1
    <2>3. CASE Driver!GiveUp(m, 1)
      BY <2>3 DEF Driver!GiveUp
    <2>4. CASE Driver!Succeed(m) \/ Driver!Becomes(m, "running", "failed")
      BY <2>4 DEF Driver!Succeed, Driver!Becomes
    <2>5. QED
      BY <2>1, <2>2, <2>3, <2>4
  <1>3. CASE CameraStep \/ ImageArrives \/ Look \/ Detect \/ Subscribe \/ Receive
             \/ GrabStep \/ UNCHANGED vars
    <2>1. UNCHANGED <<state, sent>>
      BY <1>3 DEF CameraStep, ImageArrives, Look, Detect, Subscribe, Receive, GrabStep,
                  SetForce, MoveGripper, GripperError, MoveArm, PlanFails, MoveRaises,
                  driver, vars
    <2>2. QED
      BY <2>1
  <1>4. QED
    BY <1>1, <1>2, <1>3 DEF Next

\* The arm is never sent the end point of an earlier motion after that of a later one.
THEOREM GrabArmNeverGoesBack == Spec => ArmNeverGoesBack
  <1>1. Types /\ ArmInv /\ [Next]_vars => [ArmGuarantee]_sent
    BY ArmStep
  <1>2. Spec => []ArmInv
    BY TypesAlways, ArmInit, ArmStep, PTL DEF Spec
  <1>3. QED
    BY <1>1, <1>2, TypesAlways, PTL DEF Spec, ArmNeverGoesBack, ArmGuarantee

-----------------------------------------------------------------------------
\* The components inside the composition.

\* Detector and grab node change neither what is the camera node's nor what is the
\* driver's: images are copied, and motions are added to a list of the grab node.
LEMMA NeighboursUntouched ==
  /\ GrabStep \/ Subscribe \/ Receive => UNCHANGED <<camera, driver>>
  /\ ImageArrives \/ Look \/ Detect => UNCHANGED <<camera, driver>>
  <1>1. GrabStep => UNCHANGED <<camera, driver>>
    BY DEF GrabStep, SetForce, MoveGripper, GripperError, MoveArm, PlanFails, MoveRaises
  <1>2. Subscribe \/ Receive => UNCHANGED <<camera, driver>>
    BY DEF Subscribe, Receive
  <1>3. QED
    BY <1>1, <1>2 DEF ImageArrives, Look, Detect

\* The steps of the composition, as its two neighbours see them.
LEMMA StepsOfNeighbours ==
  ASSUME [Next]_vars
  PROVE  CameraStep \/ TakeMove \/ Execute \/ UNCHANGED <<camera, driver>>
  BY NeighboursUntouched DEF Next, vars

\* What the detector sees of the camera node is a mailbox for one frame, with which
\* no step of another node interferes: the promise that HikCamera keeps.
THEOREM GrabUsesCamera == Spec => Camera!MSpec
  <1>1. Init => Camera!MInit
    BY DEF Init
  <1>2. ASSUME [Next]_vars PROVE [Camera!MNext]_(Camera!mvars)
    <2>1. CameraStep => Camera!MNext
      BY DEF CameraStep, Camera!MNext
    <2>2. TakeMove \/ Execute => UNCHANGED camera
      BY DEF TakeMove, Take, Execute
    <2>3. QED
      BY <1>2, <2>1, <2>2, StepsOfNeighbours DEF camera, Camera!mvars
  <1>3. QED
    BY <1>1, <1>2, PTL DEF Spec, Camera!MSpec

\* What happens to the motions that are published is what TrajectoryDelivery allows,
\* and what TrajectoryDriver implements: that messages are dropped and wait for each
\* other on their way adds nothing to it.
THEOREM GrabUsesDriver == Spec => Driver!DSpec
  <1>1. Init => Driver!DInit
    BY DEF Init
  <1>2. ASSUME Types, TakeMove PROVE Driver!DNext
    <2>1. PICK m \in Waiting : Take(m)
      BY <1>2 DEF TakeMove
    <2>2. m \in Moves
      BY <1>2, GrabAssumption DEF Waiting, Moves, Types, GrabberTypes, MoveTypes
    <2>3. QED
      BY <2>1, <2>2 DEF Take, Driver!DNext
  <1>3. ASSUME Execute PROVE Driver!DNext
    <2>1. PICK m \in Moves : Driver!Deliver(m, 1) \/ Driver!GiveUp(m, 1)
             \/ Driver!Succeed(m) \/ Driver!Becomes(m, "running", "failed")
      BY <1>3 DEF Execute
    <2>2. 1 \in 1..([k \in Moves |-> 1])[m]
      OBVIOUS
    <2>3. QED
      BY <2>1, <2>2 DEF Driver!DNext, Driver!Failures
  <1>4. ASSUME Types, [Next]_vars PROVE [Driver!DNext]_(Driver!dvars)
    <2>1. CameraStep => UNCHANGED driver
      BY DEF CameraStep
    <2>2. QED
      BY <1>2, <1>3, <1>4, <2>1, StepsOfNeighbours DEF driver, Driver!dvars
  <1>5. QED
    BY <1>1, <1>4, TypesAlways, PTL DEF Spec, Driver!DSpec
=============================================================================
