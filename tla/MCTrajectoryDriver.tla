------------------------- MODULE MCTrajectoryDriver -------------------------
(***************************************************************************)
(* Instances of TrajectoryDriver for TLC.  In the name of a trajectory the *)
(* digits are the numbers of joint values of its points; those whose name  *)
(* begins with j go to the first worker, the others to the second.         *)
(***************************************************************************)
EXTENDS TrajectoryDriver

CONSTANTS main, pub1, pub2, act, topic, action, j66, j56, j6, k66, k6

MCJoints ==
  [j \in Jobs |-> CASE j \in {j66, k66} -> <<6, 6>>
                    [] j = j56          -> <<5, 6>>
                    [] j \in {j6, k6}   -> <<6>>]
MCLines == Jobs \X (1..2)
MCProcs == Workers \cup {Main}

\* A worker's handler: the publishers' threads share one, the action server
\* has its own.
MCHandlerOf == [w \in Workers |-> IF w = act THEN action ELSE topic]

MCJobsOf ==
  [w \in Workers |-> IF w = pub1 THEN Jobs \ {k66, k6} ELSE Jobs \cap {k66, k6}]
=============================================================================
