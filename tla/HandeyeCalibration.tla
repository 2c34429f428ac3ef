------------------------ MODULE HandeyeCalibration ------------------------
(***************************************************************************)
(* The two nodes of easy_handeye: the server, which takes samples and      *)
(* computes and saves the calibration (handeye_server.py,                  *)
(* handeye_sampler.py, handeye_calibration_backend_opencv.py), and the     *)
(* robot server, which moves the robot between samples                     *)
(* (handeye_server_robot.py, handeye_robot.py).                            *)
(*                                                                         *)
(* rospy calls a service in a thread for each connection, and the topics   *)
(* of the server have their own; nothing is locked.  Threads interleave    *)
(* where a call waits or reads an attribute again.  The nodes share no     *)
(* state, so a behaviour of the module is one of either node.              *)
(***************************************************************************)
EXTENDS Naturals, Sequences, SequencesExt

CONSTANTS Threads,
          MinSamples,   \* MIN_SAMPLES
          MaxSamples,   \* bound: samples taken
          MaxHomes,     \* bound: starting positions checked
          MaxCalls      \* bound: calls of services
ASSUME HandeyeAssumption ==
  /\ MinSamples \in Nat \ {0} /\ MaxSamples \in Nat /\ MaxHomes \in Nat /\ MaxCalls \in Nat

VARIABLES
  node,      \* the node that is looked at: "server" or "robot"
  calls,     \* calls so far
  pc,        \* threads: "idle", or where in a call
  \* server
  samples,   \* sampler.samples; samples are numbered
  taken,     \* samples taken so far
  seen,      \* threads that iterate over samples: what they have seen
  next,      \*   the index they look at next
  removed,   \*   history: a sample was removed meanwhile
  last,      \* last_calibration: the samples that it was computed from
  saved,     \* the same for the file
  \* robot server
  homes,     \* starting positions so far
  targets,   \* target_poses: the starting position they are around
  index,     \* current_pose_index
  checked,   \* threads in _check_target_poses: the pose checked last
  goal,      \* the pose target of the move group: none, or one
  plan,      \* self.plan: none, or one
  executed   \* history: the plans executed

server == <<samples, taken, seen, next, removed, last, saved>>
robot  == <<homes, targets, index, checked, goal, plan, executed>>
vars   == <<node, calls, pc, server, robot>>

Poses == 1..2      \* target poses, of the 17 there are; index 0 stands for -1,
                   \* which Python takes for the last one
Goals == [home : 1..MaxHomes, pose : Poses \cup {0}]
Plans == [goal : Goals, crazy : BOOLEAN]
AtMostOne(S) == {{}} \cup {{x} : x \in S}

Init ==
  /\ node \in {"server", "robot"} /\ calls = 0 /\ pc = [t \in Threads |-> "idle"]
  /\ samples = <<>> /\ taken = 0 /\ last = <<>> /\ saved = <<>>
  /\ seen = [t \in Threads |-> <<>>] /\ next = [t \in Threads |-> 1]
  /\ removed = [t \in Threads |-> FALSE]
  /\ homes = 0 /\ targets = 0 /\ index = 0 /\ checked = [t \in Threads |-> [home |-> 0, pose |-> 0]]
  /\ goal = {} /\ plan = {} /\ executed = {}

Goes(t, to) == pc' = [pc EXCEPT ![t] = to]
Moves(t, from, to) == pc[t] = from /\ Goes(t, to) /\ UNCHANGED <<node, calls>>
Call(t, of, to) ==
  /\ pc[t] = "idle" /\ node = of /\ calls < MaxCalls /\ calls' = calls + 1
  /\ Goes(t, to) /\ UNCHANGED node

----------------------------------------------------------------------------
\* The server.  take_sample waits up to ten seconds for each transform; when it
\* does not come the call ends with an exception.

take_sample(t) == Call(t, "server", "lookup") /\ UNCHANGED <<server, robot>>
SampleTaken(t) ==
  /\ Moves(t, "lookup", "list") /\ taken < MaxSamples
  /\ taken' = taken + 1 /\ samples' = Append(samples, taken')
  /\ seen' = [seen EXCEPT ![t] = <<>>] /\ next' = [next EXCEPT ![t] = 1]
  /\ removed' = [removed EXCEPT ![t] = FALSE]
  /\ UNCHANGED <<last, saved, robot>>
NoTransform(t) == Moves(t, "lookup", "idle") /\ UNCHANGED <<server, robot>>

\* remove_sample answers with the list; an iteration of another thread goes on
\* with its index, into the list as it is now.  remove_last_sample does nothing:
\* the subscriber passes it a message, for which it has no parameter.
Removes(t, rest) ==
  /\ Call(t, "server", "list")
  /\ samples' = rest
  /\ seen' = [seen EXCEPT ![t] = <<>>] /\ next' = [next EXCEPT ![t] = 1]
  /\ removed' = [u \in Threads |-> u # t]
  /\ UNCHANGED <<taken, last, saved, robot>>
remove_sample_Swapping(t, i) ==   \* mutant: the last sample takes the place of it
  /\ i \in 1..Len(samples)
  /\ Removes(t, SubSeq([samples EXCEPT ![i] = Last(samples)], 1, Len(samples) - 1))
remove_sample(t, i) ==
  /\ i \in 1..Len(samples)
  /\ Removes(t, RemoveAt(samples, i))

\* get_sample_lists and compute_calibration iterate over the list itself.  The
\* number of samples is checked before.
Iterates(t, how) ==
  /\ Call(t, "server", how)
  /\ seen' = [seen EXCEPT ![t] = <<>>] /\ next' = [next EXCEPT ![t] = 1]
  /\ removed' = [removed EXCEPT ![t] = FALSE]
  /\ UNCHANGED <<samples, taken, saved, robot>>
get_sample_lists(t) == Iterates(t, "list") /\ UNCHANGED last
compute_calibration(t) ==
  IF Len(samples) < MinSamples
  THEN Call(t, "server", "idle") /\ last' = <<>>
       /\ UNCHANGED <<samples, taken, seen, next, removed, saved, robot>>
  ELSE Iterates(t, "compute") /\ UNCHANGED last
LooksAt(t) ==
  /\ pc[t] \in {"list", "compute"} /\ next[t] <= Len(samples)
  /\ seen' = [seen EXCEPT ![t] = Append(@, samples[next[t]])]
  /\ next' = [next EXCEPT ![t] = @ + 1]
  /\ UNCHANGED <<node, calls, pc, samples, taken, removed, last, saved, robot>>
Listed(t) ==
  /\ Moves(t, "list", "idle") /\ next[t] > Len(samples)
  /\ UNCHANGED <<server, robot>>
Computed(t) ==
  /\ Moves(t, "compute", "idle") /\ next[t] > Len(samples)
  /\ last' = seen[t]
  /\ UNCHANGED <<samples, taken, seen, next, removed, saved, robot>>
ComputeFails(t) ==   \* an exception of OpenCV
  /\ Moves(t, "compute", "idle") /\ next[t] > Len(samples)
  /\ UNCHANGED <<server, robot>>

\* Reads last_calibration twice: when it is None by then, to_file fails.
save_calibration(t) ==
  /\ Call(t, "server", IF last = <<>> THEN "idle" ELSE "save")
  /\ UNCHANGED <<server, robot>>
Saved(t) ==
  /\ Moves(t, "save", "idle")
  /\ saved' = IF last = <<>> THEN saved ELSE last
  /\ UNCHANGED <<samples, taken, seen, next, removed, last, robot>>

ServerCall(t) ==
  \/ take_sample(t) \/ get_sample_lists(t) \/ compute_calibration(t) \/ save_calibration(t)
  \/ \E i \in 1..MaxSamples : remove_sample(t, i)
Server(t) == \/ SampleTaken(t) \/ NoTransform(t) \/ LooksAt(t) \/ Listed(t)
             \/ Computed(t) \/ ComputeFails(t) \/ Saved(t)

----------------------------------------------------------------------------
\* The robot server.  The threads share the move group: a pose target that one
\* sets is the target of all.

SetsTarget(pose) == goal' = {pose}

\* set_and_check_starting_position sets the target poses, then plans to each of
\* them; when one cannot be reached, or only by a crazy plan, it takes them back,
\* whatever another call made of them meanwhile.
set_and_check_starting_position(t) ==
  /\ Call(t, "robot", "check") /\ homes < MaxHomes
  /\ homes' = homes + 1 /\ targets' = homes' /\ index' = 0
  /\ checked' = [checked EXCEPT ![t] = [home |-> homes', pose |-> 0]]
  /\ UNCHANGED <<goal, plan, executed, server>>
ChecksPose(t) ==
  /\ pc[t] = "check" /\ checked[t].pose + 1 \in Poses
  /\ checked' = [checked EXCEPT ![t].pose = @ + 1]
  /\ SetsTarget(checked'[t])
  /\ UNCHANGED <<node, calls, pc, homes, targets, index, plan, executed, server>>
Unreachable(t) ==
  /\ Moves(t, "check", "idle") /\ checked[t].pose > 0
  /\ targets' = 0
  /\ UNCHANGED <<homes, index, checked, goal, plan, executed, server>>
Reachable(t) ==
  /\ Moves(t, "check", "idle") /\ checked[t].pose + 1 \notin Poses
  /\ UNCHANGED <<robot, server>>

\* Without target poses, because none were set yet or the last check failed, this
\* call and the next have no effect.
select_target_pose(t, i) ==
  /\ Call(t, "robot", "idle") /\ targets # 0
  /\ index' = i
  /\ UNCHANGED <<homes, targets, checked, goal, plan, executed, server>>

\* The plan is made for the pose target as it is when the planner is called.  An
\* empty plan ends the call with an exception, before self.plan is assigned.
plan_to_current_target_pose(t) ==
  /\ Call(t, "robot", "plan") /\ targets # 0
  /\ SetsTarget([home |-> targets, pose |-> index])
  /\ UNCHANGED <<homes, targets, index, checked, plan, executed, server>>
PlanFails(t) == Moves(t, "plan", "idle") /\ UNCHANGED <<robot, server>>
Planned_Unchecked(t, p) ==   \* mutant: the check is left to execute_plan
  /\ Moves(t, "plan", "idle")
  /\ p.goal \in goal /\ plan' = {p}
  /\ UNCHANGED <<homes, targets, index, checked, goal, executed, server>>
Planned(t, p) ==
  /\ Moves(t, "plan", "idle")
  /\ p.goal \in goal /\ plan' = IF p.crazy THEN {} ELSE {p}
  /\ UNCHANGED <<homes, targets, index, checked, goal, executed, server>>

\* execute_plan checks self.plan, then hands over what it is by then; None fails.
execute_plan(t) ==
  /\ Call(t, "robot", IF \E p \in plan : ~p.crazy THEN "execute" ELSE "idle")
  /\ UNCHANGED <<robot, server>>
Executed(t) ==
  /\ Moves(t, "execute", "idle")
  /\ executed' = executed \cup plan
  /\ UNCHANGED <<homes, targets, index, checked, goal, plan, server>>

RobotCall(t) ==
  \/ set_and_check_starting_position(t) \/ plan_to_current_target_pose(t) \/ execute_plan(t)
  \/ \E i \in Poses : select_target_pose(t, i)
Robot(t) ==
  \/ ChecksPose(t) \/ Unreachable(t) \/ Reachable(t) \/ PlanFails(t)
  \/ \E p \in Plans : Planned(t, p)
  \/ Executed(t)

Next == \E t \in Threads : ServerCall(t) \/ Server(t) \/ RobotCall(t) \/ Robot(t)

Spec == Init /\ [][Next]_vars

----------------------------------------------------------------------------
TypeOK ==
  /\ node \in {"server", "robot"} /\ calls \in 0..MaxCalls
  /\ pc \in [Threads -> {"idle", "lookup", "list", "compute", "save",
                         "check", "plan", "execute"}]
  /\ samples \in Seq(1..MaxSamples) /\ taken \in 0..MaxSamples
  /\ seen \in [Threads -> Seq(1..MaxSamples)] /\ next \in [Threads -> Nat \ {0}]
  /\ removed \in [Threads -> BOOLEAN]
  /\ last \in Seq(1..MaxSamples) /\ saved \in Seq(1..MaxSamples)
  /\ homes \in 0..MaxHomes /\ targets \in 0..MaxHomes /\ index \in Poses \cup {0}
  /\ checked \in [Threads -> [home : 0..MaxHomes, pose : Poses \cup {0}]]
  /\ goal \in AtMostOne(Goals)
  /\ plan \in AtMostOne(Plans) /\ executed \subseteq Plans

\* Whatever is added or removed while the list is read, no calibration counts a
\* sample twice.
Rising(s) == \A i, j \in 1..Len(s) : i < j => s[i] < s[j]
NoSampleTwice == \A t \in Threads : Rising(seen[t]) /\ Rising(last) /\ Rising(saved)

\* A list or a calibration made while no sample was removed has all samples.
SeesAll ==
  \A t \in Threads : pc[t] \in {"list", "compute"} /\ ~removed[t] =>
     /\ seen[t] = SubSeq(samples, 1, next[t] - 1)
     /\ pc[t] = "compute" => Len(samples) >= MinSamples

\* The robot never executes a plan that turns a joint too far, although the plan
\* that was checked may have been replaced when it is executed.
NothingCrazy == \A p \in executed : ~p.crazy

HandeyeInv == TypeOK /\ NoSampleTwice /\ SeesAll /\ NothingCrazy
=============================================================================
