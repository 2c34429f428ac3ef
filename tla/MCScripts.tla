----------------------------- MODULE MCScripts -----------------------------
(***************************************************************************)
(* The nodes of easy_handeye and the gripper bridge, for TLC.  They share  *)
(* nothing, so that it is enough to look at the one that starts: with the  *)
(* others at rest, each has the behaviours of its own specification.       *)
(***************************************************************************)
EXTENDS HandeyeCalibration

CONSTANTS Publishers, Positions, MaxMessages, MaxFailures

ASSUME GripperAssumption ==
  Positions \subseteq Nat /\ MaxMessages \in Nat /\ MaxFailures \in Nat

VARIABLES l1, l2, at, pos, register, target, messages, failures, lost

gripper == <<l1, l2, at, pos, register, target, messages, failures, lost>>
Grip == INSTANCE GripperBridge WITH pc <- at, p <- pos

MCInit == Init /\ Grip!Init

MCNext == \/ messages = 0 /\ Next /\ UNCHANGED gripper
          \/ calls = 0 /\ Grip!Next /\ UNCHANGED vars

MCSpec == MCInit /\ [][MCNext]_<<vars, gripper>>

\* What GripperBridge says of the gripper's lists and of the position it was told.
GripperInv == Grip!GripperInv
=============================================================================
