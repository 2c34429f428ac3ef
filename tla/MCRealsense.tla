---------------------------- MODULE MCRealsense ----------------------------
(***************************************************************************)
(* The two parts of the RealSense driver, for TLC: the factory, and how    *)
(* the node it builds publishes IMU messages.  They share nothing, so that *)
(* it is enough to look at one of them at a time, the other at rest.       *)
(***************************************************************************)
EXTENDS RealsenseFactory

CONSTANTS Videos, WaitingList, GyroTimes, AccelTimes, MaxReadings, MaxFrames
ASSUME ImuAssumption ==
  /\ WaitingList \in Nat /\ MaxReadings \in Nat /\ MaxFrames \in Nat
  /\ GyroTimes \subseteq Nat /\ AccelTimes \subseteq Nat

VARIABLES part,   \* the part that is looked at: "factory" or "imu"
          method, enabled, readings, times, history, imu, batch, united, paused, pending,
          busy, sent, overlap, out, frames

imuVars == <<method, enabled, readings, times, history, imu, batch, united, paused, pending,
             busy, sent, overlap, out, frames>>
mcVars  == <<vars, part, imuVars>>

Node == INSTANCE RealsenseImu

MCInit ==
  /\ Init /\ Node!Init /\ part \in {"factory", "imu"}
  /\ part = "factory" => method = "copy" /\ ~enabled
  /\ part = "imu" => ~initReset

Factory(A) == part = "factory" /\ A /\ UNCHANGED <<part, imuVars>>
Imu(A)     == part = "imu" /\ A /\ UNCHANGED <<part, vars>>

MCNext == Factory(Next) \/ Imu(Node!Next)

MCSpec ==
  /\ MCInit /\ [][MCNext]_mcVars
  /\ WF_mcVars(Factory(RosThread)) /\ WF_mcVars(Factory(Callback))
  /\ WF_mcVars(Factory(QueryThread))
  /\ \A v \in Videos : WF_mcVars(Imu(Node!Video(v)))

\* What RealsenseImu says of the messages that are united and held back.
ImuInv == Node!ImuInv
\* What is held back is published in the end.
HeldIsPublished == Node!HeldIsPublished
=============================================================================
