-------------------------- MODULE MCScripts_proofs --------------------------
(***************************************************************************)
(* Theorems about the two parts of MCScripts, one after the other: no      *)
(* calibration of easy_handeye counts a sample twice and no plan that      *)
(* turns a joint too far is executed, however the calls of the services    *)
(* interleave (HandeyeCalibration); the lists of the gripper bridge keep   *)
(* their lengths and the gripper is told what they end with                *)
(* (GripperBridge).                                                        *)
(***************************************************************************)
EXTENDS MCScripts, Integers, FiniteSetTheorems, TLAPS


-----------------------------------------------------------------------------
\* The type invariant in parts, which are proved apart.

Calling ==
  /\ node \in {"server", "robot"} /\ calls \in 0..MaxCalls
  /\ pc \in [Threads -> {"idle", "lookup", "list", "compute", "save",
                         "check", "plan", "execute"}]
Sampling == samples \in Seq(1..MaxSamples) /\ taken \in 0..MaxSamples
Reading ==
  /\ seen \in [Threads -> Seq(1..MaxSamples)] /\ next \in [Threads -> Nat \ {0}]
  /\ removed \in [Threads -> BOOLEAN]
Results == last \in Seq(1..MaxSamples) /\ saved \in Seq(1..MaxSamples)
HomePositions ==
  /\ homes \in 0..MaxHomes /\ targets \in 0..MaxHomes /\ index \in Poses \cup {0}
  /\ checked \in [Threads -> [home : 0..MaxHomes, pose : Poses \cup {0}]]
Planning ==
  /\ goal \in AtMostOne(Goals)
  /\ plan \in AtMostOne(Plans) /\ executed \subseteq Plans

LEMMA TypeParts ==
  TypeOK <=> Calling /\ Sampling /\ Reading /\ Results /\ HomePositions /\ Planning
  BY DEF TypeOK, Calling, Sampling, Reading, Results, HomePositions, Planning

-----------------------------------------------------------------------------
\* The inductive invariant.

\* Samples are listed in the order in which they were taken.
Ordered == Rising(samples) /\ \A i \in 1..Len(samples) : samples[i] <= taken

\* What a thread will still see was taken after all that it has seen.
Ahead(t) ==
  /\ Rising(seen[t])
  /\ \A i \in 1..Len(seen[t]) :
       /\ seen[t][i] <= taken
       /\ \A j \in next[t]..Len(samples) : seen[t][i] < samples[j]

\* A thread that no removal has interrupted has seen the beginning of the list.
Reads(t) ==
  pc[t] \in {"list", "compute"} /\ ~removed[t] =>
    /\ next[t] <= Len(samples) + 1 /\ Len(seen[t]) = next[t] - 1
    /\ \A i \in 1..Len(seen[t]) : seen[t][i] = samples[i]
    /\ pc[t] = "compute" => Len(samples) >= MinSamples

\* A thread that checks poses does so around a starting position.
Checking == \A t \in Threads : pc[t] = "check" => checked[t].home \in 1..MaxHomes

\* No plan is kept that turns a joint too far.
Sane == \A p \in plan \cup executed : ~p.crazy

HandeyeIInv ==
  /\ Ordered /\ \A t \in Threads : Ahead(t) /\ Reads(t)
  /\ Rising(last) /\ Rising(saved) /\ Checking /\ Sane

-----------------------------------------------------------------------------
\* Sequences of samples.

LEMMA Removal ==
  ASSUME NEW S, NEW s \in Seq(S), NEW i \in 1..Len(s)
  PROVE  /\ RemoveAt(s, i) \in Seq(S) /\ Len(RemoveAt(s, i)) = Len(s) - 1
         /\ \A j \in 1..(Len(s) - 1) : RemoveAt(s, i)[j] = IF j < i THEN s[j] ELSE s[j + 1]
  <1> DEFINE a == SubSeq(s, 1, i - 1)
             b == SubSeq(s, i + 1, Len(s))
  <1>1. a \in Seq(S) /\ Len(a) = i - 1 /\ \A j \in 1..(i - 1) : a[j] = s[j]
    OBVIOUS
  <1>2. b \in Seq(S) /\ Len(b) = Len(s) - i /\ \A j \in 1..(Len(s) - i) : b[j] = s[i + j]
    OBVIOUS
  <1>3. RemoveAt(s, i) = a \o b
    BY DEF RemoveAt
  <1> HIDE DEF a, b
  <1>4. /\ a \o b \in Seq(S) /\ Len(a \o b) = Len(a) + Len(b)
        /\ \A j \in 1..Len(a) : (a \o b)[j] = a[j]
        /\ \A j \in (Len(a) + 1)..(Len(a) + Len(b)) : (a \o b)[j] = b[j - Len(a)]
    <2> SUFFICES ASSUME NEW x \in Seq(S), NEW y \in Seq(S)
                 PROVE  /\ x \o y \in Seq(S) /\ Len(x \o y) = Len(x) + Len(y)
                        /\ \A j \in 1..Len(x) : (x \o y)[j] = x[j]
                        /\ \A j \in (Len(x) + 1)..(Len(x) + Len(y)) :
                               (x \o y)[j] = y[j - Len(x)]
      BY <1>1, <1>2
    <2>1. x \o y \in Seq(S)
      OBVIOUS
    <2>2. Len(x \o y) = Len(x) + Len(y)
      OBVIOUS
    <2>3. \A j \in 1..Len(x) : (x \o y)[j] = x[j]
      OBVIOUS
    <2>4. \A j \in (Len(x) + 1)..(Len(x) + Len(y)) : (x \o y)[j] = y[j - Len(x)]
      OBVIOUS
    <2>5. QED
      BY <2>1, <2>2, <2>3, <2>4
  <1>5. ASSUME NEW j \in 1..(Len(s) - 1)
        PROVE  (a \o b)[j] = IF j < i THEN s[j] ELSE s[j + 1]
    <2>1. CASE j < i
      BY <1>1, <1>4, <2>1
    <2>2. CASE ~(j < i)
      <3>1. (a \o b)[j] = b[j - Len(a)] /\ j - Len(a) \in 1..(Len(s) - i)
        BY <1>1, <1>2, <1>4, <2>2
      <3>2. b[j - Len(a)] = s[i + (j - Len(a))]
        BY <1>2, <3>1
      <3>3. QED
        BY <1>1, <2>2, <3>1, <3>2
    <2>3. QED
      BY <2>1, <2>2
  <1>6. RemoveAt(s, i) \in Seq(S) /\ Len(RemoveAt(s, i)) = Len(s) - 1
    BY <1>1, <1>2, <1>3, <1>4
  <1>7. QED
    BY <1>3, <1>5, <1>6

LEMMA Member ==
  ASSUME NEW S, NEW s \in Seq(S), NEW i \in 1..Len(s)
  PROVE  s[i] \in S
  OBVIOUS

LEMMA Prefix ==
  ASSUME NEW S, NEW s \in Seq(S), NEW r \in Seq(S), Len(r) <= Len(s),
         \A i \in 1..Len(r) : r[i] = s[i]
  PROVE  r = SubSeq(s, 1, Len(r))
  <1>1. /\ SubSeq(s, 1, Len(r)) \in Seq(S) /\ Len(SubSeq(s, 1, Len(r))) = Len(r)
        /\ \A i \in 1..Len(r) : SubSeq(s, 1, Len(r))[i] = s[i]
    OBVIOUS
  <1>2. QED
    BY <1>1

-----------------------------------------------------------------------------
\* The steps: what they do to the samples and to the threads that read them.

LEMMA Steps ==
  ASSUME [Next]_vars
  PROVE  \/ \E t \in Threads :
              \/ take_sample(t) \/ get_sample_lists(t) \/ compute_calibration(t)
              \/ save_calibration(t)
              \/ \E i \in 1..MaxSamples : remove_sample(t, i)
              \/ SampleTaken(t) \/ NoTransform(t) \/ LooksAt(t) \/ Listed(t)
              \/ Computed(t) \/ ComputeFails(t) \/ Saved(t)
              \/ set_and_check_starting_position(t) \/ plan_to_current_target_pose(t)
              \/ execute_plan(t)
              \/ \E i \in Poses : select_target_pose(t, i)
              \/ ChecksPose(t) \/ Unreachable(t) \/ Reachable(t) \/ PlanFails(t)
              \/ \E p \in Plans : Planned(t, p)
              \/ Executed(t)
         \/ UNCHANGED vars
  BY DEF Next, ServerCall, Server, RobotCall, Robot

\* The steps that neither change the samples nor read them.
Elsewhere ==
  /\ UNCHANGED <<samples, taken, seen, next, removed>>
  /\ \A u \in Threads : pc'[u] \in {"list", "compute"} => pc'[u] = pc[u]

LEMMA SampleSteps ==
  ASSUME Calling, Sampling, [Next]_vars
  PROVE  \/ \E t \in Threads :
              \/ SampleTaken(t)
              \/ \E i \in 1..MaxSamples : remove_sample(t, i)
              \/ Iterates(t, "list")
              \/ Iterates(t, "compute") /\ Len(samples) >= MinSamples
              \/ LooksAt(t)
         \/ Elsewhere
  <1> USE HandeyeAssumption DEF server, Elsewhere, Calling, Goes, Moves, Call
  <1>1. ASSUME NEW t \in Threads, take_sample(t) PROVE Elsewhere
    BY <1>1 DEF take_sample
  <1>2. ASSUME NEW t \in Threads, get_sample_lists(t) PROVE Iterates(t, "list")
    BY <1>2 DEF get_sample_lists
  <1>3. ASSUME NEW t \in Threads, compute_calibration(t), Len(samples) < MinSamples
        PROVE  Elsewhere
    BY <1>3 DEF compute_calibration
  <1>4. ASSUME NEW t \in Threads, compute_calibration(t), ~(Len(samples) < MinSamples)
        PROVE  Iterates(t, "compute")
    BY <1>4 DEF compute_calibration
  <1>5. ASSUME NEW t \in Threads, save_calibration(t) PROVE Elsewhere
    BY <1>5 DEF save_calibration
  <1>6. ASSUME NEW t \in Threads, NoTransform(t) PROVE Elsewhere
    BY <1>6 DEF NoTransform
  <1>7. ASSUME NEW t \in Threads, Listed(t) PROVE Elsewhere
    BY <1>7 DEF Listed
  <1>8. ASSUME NEW t \in Threads, Computed(t) PROVE Elsewhere
    BY <1>8 DEF Computed
  <1>9. ASSUME NEW t \in Threads, ComputeFails(t) PROVE Elsewhere
    BY <1>9 DEF ComputeFails
  <1>10. ASSUME NEW t \in Threads, Saved(t) PROVE Elsewhere
    BY <1>10 DEF Saved
  <1>11. ASSUME NEW t \in Threads, set_and_check_starting_position(t) PROVE Elsewhere
    BY <1>11 DEF set_and_check_starting_position
  <1>12. ASSUME NEW t \in Threads, plan_to_current_target_pose(t) PROVE Elsewhere
    BY <1>12 DEF plan_to_current_target_pose
  <1>13. ASSUME NEW t \in Threads, execute_plan(t) PROVE Elsewhere
    BY <1>13 DEF execute_plan
  <1>14. ASSUME NEW t \in Threads, NEW i \in Poses, select_target_pose(t, i) PROVE Elsewhere
    BY <1>14 DEF select_target_pose
  <1>15. ASSUME NEW t \in Threads, ChecksPose(t) PROVE Elsewhere
    BY <1>15 DEF ChecksPose
  <1>16. ASSUME NEW t \in Threads, Unreachable(t) PROVE Elsewhere
    BY <1>16 DEF Unreachable
  <1>17. ASSUME NEW t \in Threads, Reachable(t) PROVE Elsewhere
    BY <1>17 DEF Reachable
  <1>18. ASSUME NEW t \in Threads, PlanFails(t) PROVE Elsewhere
    BY <1>18 DEF PlanFails
  <1>19. ASSUME NEW t \in Threads, NEW p \in Plans, Planned(t, p) PROVE Elsewhere
    BY <1>19 DEF Planned
  <1>20. ASSUME NEW t \in Threads, Executed(t) PROVE Elsewhere
    BY <1>20 DEF Executed
  <1>21. CASE UNCHANGED vars
    BY <1>21 DEF vars
  <1>22. ASSUME ~(Len(samples) < MinSamples) PROVE Len(samples) >= MinSamples
    BY <1>22 DEF Sampling
  <1>23. QED
    BY <1>1, <1>2, <1>3, <1>4, <1>5, <1>6, <1>7, <1>8, <1>9, <1>10, <1>11, <1>12, <1>13,
       <1>14, <1>15, <1>16, <1>17, <1>18, <1>19, <1>20, <1>21, <1>22, Steps, Zenon

-----------------------------------------------------------------------------
\* The parts of the type invariant.

LEMMA CallingStep ==
  ASSUME Calling, [Next]_vars
  PROVE  Calling'
  <1> USE HandeyeAssumption DEF Calling, Goes, Moves, Call, Iterates, Removes
  <1>1. ASSUME NEW t \in Threads, take_sample(t) PROVE Calling'
    BY <1>1 DEF take_sample
  <1>2. ASSUME NEW t \in Threads, get_sample_lists(t) PROVE Calling'
    BY <1>2 DEF get_sample_lists
  <1>3. ASSUME NEW t \in Threads, compute_calibration(t) PROVE Calling'
    BY <1>3 DEF compute_calibration
  <1>4. ASSUME NEW t \in Threads, save_calibration(t) PROVE Calling'
    BY <1>4 DEF save_calibration
  <1>5. ASSUME NEW t \in Threads, NEW i \in 1..MaxSamples, remove_sample(t, i)
       PROVE Calling'
    BY <1>5 DEF remove_sample
  <1>6. ASSUME NEW t \in Threads, SampleTaken(t) PROVE Calling'
    BY <1>6 DEF SampleTaken
  <1>7. ASSUME NEW t \in Threads, NoTransform(t) PROVE Calling'
    BY <1>7 DEF NoTransform
  <1>8. ASSUME NEW t \in Threads, LooksAt(t) PROVE Calling'
    BY <1>8 DEF LooksAt
  <1>9. ASSUME NEW t \in Threads, Listed(t) PROVE Calling'
    BY <1>9 DEF Listed
  <1>10. ASSUME NEW t \in Threads, Computed(t) PROVE Calling'
    BY <1>10 DEF Computed
  <1>11. ASSUME NEW t \in Threads, ComputeFails(t) PROVE Calling'
    BY <1>11 DEF ComputeFails
  <1>12. ASSUME NEW t \in Threads, Saved(t) PROVE Calling'
    BY <1>12 DEF Saved
  <1>13. ASSUME NEW t \in Threads, set_and_check_starting_position(t) PROVE Calling'
    BY <1>13 DEF set_and_check_starting_position
  <1>14. ASSUME NEW t \in Threads, plan_to_current_target_pose(t) PROVE Calling'
    BY <1>14 DEF plan_to_current_target_pose
  <1>15. ASSUME NEW t \in Threads, execute_plan(t) PROVE Calling'
    BY <1>15 DEF execute_plan
  <1>16. ASSUME NEW t \in Threads, NEW i \in Poses, select_target_pose(t, i) PROVE Calling'
    BY <1>16 DEF select_target_pose
  <1>17. ASSUME NEW t \in Threads, ChecksPose(t) PROVE Calling'
    BY <1>17 DEF ChecksPose
  <1>18. ASSUME NEW t \in Threads, Unreachable(t) PROVE Calling'
    BY <1>18 DEF Unreachable
  <1>19. ASSUME NEW t \in Threads, Reachable(t) PROVE Calling'
    BY <1>19 DEF Reachable
  <1>20. ASSUME NEW t \in Threads, PlanFails(t) PROVE Calling'
    BY <1>20 DEF PlanFails
  <1>21. ASSUME NEW t \in Threads, NEW p \in Plans, Planned(t, p) PROVE Calling'
    BY <1>21 DEF Planned
  <1>22. ASSUME NEW t \in Threads, Executed(t) PROVE Calling'
    BY <1>22 DEF Executed
  <1>23. CASE UNCHANGED vars
    BY <1>23 DEF vars
  <1>24. QED
    BY <1>1, <1>2, <1>3, <1>4, <1>5, <1>6, <1>7, <1>8, <1>9, <1>10, <1>11, <1>12, <1>13,
       <1>14, <1>15, <1>16, <1>17, <1>18, <1>19, <1>20, <1>21, <1>22, <1>23, Steps, Zenon

LEMMA SamplingStep ==
  ASSUME Calling, Sampling, [Next]_vars
  PROVE  Sampling'
  <1> USE HandeyeAssumption
  <1>1. ASSUME NEW t \in Threads, SampleTaken(t) PROVE Sampling'
    <2>1. taken' \in 1..MaxSamples /\ samples' = Append(samples, taken')
      BY <1>1 DEF SampleTaken, Sampling
    <2>2. QED
      BY <2>1 DEF Sampling
  <1>2. ASSUME NEW t \in Threads, NEW i \in 1..MaxSamples, remove_sample(t, i)
       PROVE Sampling'
    <2>1. i \in 1..Len(samples) /\ samples' = RemoveAt(samples, i) /\ taken' = taken
      BY <1>2 DEF remove_sample, Removes
    <2>2. samples' \in Seq(1..MaxSamples)
      BY <2>1, Removal DEF Sampling
    <2>3. QED
      BY <2>1, <2>2 DEF Sampling
  <1>3. ASSUME samples' = samples, taken' = taken PROVE Sampling'
    BY <1>3 DEF Sampling
  <1>4. QED
    BY <1>1, <1>2, <1>3, SampleSteps DEF Iterates, LooksAt, Elsewhere

LEMMA ReadingStep ==
  ASSUME Calling, Sampling, Reading, [Next]_vars
  PROVE  Reading'
  <1>1. ASSUME NEW t \in Threads, SampleTaken(t) PROVE Reading'
    BY <1>1 DEF SampleTaken, Reading
  <1>2. ASSUME NEW t \in Threads, NEW i \in 1..MaxSamples, remove_sample(t, i)
       PROVE Reading'
    BY <1>2 DEF remove_sample, Removes, Reading
  <1>3. ASSUME NEW t \in Threads, NEW how, Iterates(t, how) PROVE Reading'
    BY <1>3 DEF Iterates, Reading
  <1>4. ASSUME NEW t \in Threads, LooksAt(t) PROVE Reading'
    <2>1. next[t] \in 1..Len(samples)
      BY <1>4 DEF LooksAt, Reading, Sampling
    <2>2. samples[next[t]] \in 1..MaxSamples
      BY <2>1, Member DEF Sampling
    <2>3. Append(seen[t], samples[next[t]]) \in Seq(1..MaxSamples)
      BY <2>2 DEF Reading
    <2>4. QED
      BY <1>4, <2>3 DEF LooksAt, Reading
  <1>5. CASE Elsewhere
    BY <1>5 DEF Elsewhere, Reading
  <1>6. QED
    BY <1>1, <1>2, <1>3, <1>4, <1>5, SampleSteps

\* A result is what a thread has seen.
LEMMA ResultSteps ==
  ASSUME [Next]_vars
  PROVE  /\ last' \in {last, <<>>} \cup {seen[t] : t \in Threads}
         /\ saved' \in {last, saved}
  <1> USE DEF server, robot
  <1>1. ASSUME NEW t \in Threads,
               \/ take_sample(t) \/ get_sample_lists(t) \/ compute_calibration(t)
               \/ save_calibration(t) \/ SampleTaken(t) \/ NoTransform(t)
               \/ \E i \in 1..MaxSamples : remove_sample(t, i)
        PROVE  last' \in {last, <<>>} /\ saved' = saved
    BY <1>1 DEF take_sample, get_sample_lists, compute_calibration, save_calibration,
                SampleTaken, NoTransform, remove_sample, Removes, Iterates
  <1>2. ASSUME NEW t \in Threads,
               \/ LooksAt(t) \/ Listed(t) \/ Computed(t) \/ ComputeFails(t) \/ Saved(t)
        PROVE  last' \in {last, seen[t]} /\ saved' \in {last, saved}
    BY <1>2 DEF LooksAt, Listed, Computed, ComputeFails, Saved
  <1>3. ASSUME NEW t \in Threads,
               \/ set_and_check_starting_position(t) \/ plan_to_current_target_pose(t)
               \/ execute_plan(t)
               \/ \E i \in Poses : select_target_pose(t, i)
               \/ ChecksPose(t) \/ Unreachable(t) \/ Reachable(t) \/ PlanFails(t)
               \/ \E p \in Plans : Planned(t, p)
               \/ Executed(t)
        PROVE  last' = last /\ saved' = saved
    BY <1>3 DEF set_and_check_starting_position, plan_to_current_target_pose, execute_plan,
                select_target_pose, ChecksPose, Unreachable, Reachable, PlanFails, Planned,
                Executed
  <1>4. CASE UNCHANGED vars
    BY <1>4 DEF vars
  <1>5. QED
    BY <1>1, <1>2, <1>3, <1>4, Steps

LEMMA ResultsStep ==
  ASSUME Reading, Results, [Next]_vars
  PROVE  Results'
  <1>1. <<>> \in Seq(1..MaxSamples) /\ \A t \in Threads : seen[t] \in Seq(1..MaxSamples)
    BY DEF Reading
  <1>2. QED
    BY <1>1, ResultSteps DEF Results

\* The steps that do not move the robot server, in whose threads no check begins.
Unmoved ==
  UNCHANGED robot /\ \A u \in Threads : pc'[u] = "check" => pc[u] = "check"

LEMMA RobotSteps ==
  ASSUME Calling, [Next]_vars
  PROVE  \/ \E t \in Threads :
              \/ set_and_check_starting_position(t) \/ plan_to_current_target_pose(t)
              \/ \E i \in Poses : select_target_pose(t, i)
              \/ ChecksPose(t) \/ Unreachable(t)
              \/ \E p \in Plans : Planned(t, p)
              \/ Executed(t)
         \/ Unmoved
  <1> USE DEF server, robot, Unmoved, Calling, Goes, Moves, Call
  <1>1. ASSUME NEW t \in Threads, take_sample(t) PROVE Unmoved
    BY <1>1 DEF take_sample
  <1>2. ASSUME NEW t \in Threads, get_sample_lists(t) PROVE Unmoved
    BY <1>2 DEF get_sample_lists, Iterates
  <1>3. ASSUME NEW t \in Threads, compute_calibration(t) PROVE Unmoved
    BY <1>3 DEF compute_calibration, Iterates
  <1>4. ASSUME NEW t \in Threads, save_calibration(t) PROVE Unmoved
    BY <1>4 DEF save_calibration
  <1>5. ASSUME NEW t \in Threads, NEW i \in 1..MaxSamples, remove_sample(t, i) PROVE Unmoved
    BY <1>5 DEF remove_sample, Removes
  <1>6. ASSUME NEW t \in Threads, SampleTaken(t) PROVE Unmoved
    BY <1>6 DEF SampleTaken
  <1>7. ASSUME NEW t \in Threads, NoTransform(t) PROVE Unmoved
    BY <1>7 DEF NoTransform
  <1>8. ASSUME NEW t \in Threads, LooksAt(t) PROVE Unmoved
    BY <1>8 DEF LooksAt
  <1>9. ASSUME NEW t \in Threads, Listed(t) PROVE Unmoved
    BY <1>9 DEF Listed
  <1>10. ASSUME NEW t \in Threads, Computed(t) PROVE Unmoved
    BY <1>10 DEF Computed
  <1>11. ASSUME NEW t \in Threads, ComputeFails(t) PROVE Unmoved
    BY <1>11 DEF ComputeFails
  <1>12. ASSUME NEW t \in Threads, Saved(t) PROVE Unmoved
    BY <1>12 DEF Saved
  <1>13. ASSUME NEW t \in Threads, Reachable(t) PROVE Unmoved
    BY <1>13 DEF Reachable
  <1>14. ASSUME NEW t \in Threads, PlanFails(t) PROVE Unmoved
    BY <1>14 DEF PlanFails
  <1>15. ASSUME NEW t \in Threads, execute_plan(t) PROVE Unmoved
    BY <1>15 DEF execute_plan
  <1>16. CASE UNCHANGED vars
    BY <1>16 DEF vars
  <1>17. QED
    BY <1>1, <1>2, <1>3, <1>4, <1>5, <1>6, <1>7, <1>8, <1>9, <1>10, <1>11, <1>12, <1>13,
       <1>14, <1>15, <1>16, Steps, Zenon

LEMMA PositionsStep ==
  ASSUME Calling, HomePositions, Checking, [Next]_vars
  PROVE  HomePositions' /\ Checking'
  <1> USE HandeyeAssumption DEF HomePositions, Checking, Calling, Goes, Moves, Call
  <1>1. ASSUME NEW t \in Threads, set_and_check_starting_position(t)
        PROVE  HomePositions' /\ Checking'
    <2>1. homes' \in 1..MaxHomes /\ targets' = homes' /\ index' = 0
      BY <1>1 DEF set_and_check_starting_position
    <2>2. checked' = [checked EXCEPT ![t] = [home |-> homes', pose |-> 0]]
      BY <1>1 DEF set_and_check_starting_position
    <2>3. HomePositions'
      BY <2>1, <2>2
    <2>4. \A u \in Threads : u # t => pc'[u] = pc[u] /\ checked'[u] = checked[u]
      BY <1>1, <2>2 DEF set_and_check_starting_position
    <2>5. checked'[t].home = homes'
      BY <2>2
    <2>6. QED
      BY <2>1, <2>3, <2>4, <2>5
  <1>2. ASSUME NEW t \in Threads, plan_to_current_target_pose(t)
        PROVE  HomePositions' /\ Checking'
    BY <1>2 DEF plan_to_current_target_pose
  <1>3. ASSUME NEW t \in Threads, NEW i \in Poses, select_target_pose(t, i)
        PROVE  HomePositions' /\ Checking'
    BY <1>3 DEF select_target_pose
  <1>4. ASSUME NEW t \in Threads, ChecksPose(t) PROVE HomePositions' /\ Checking'
    <2>1. /\ checked' = [checked EXCEPT ![t] = [checked[t] EXCEPT !.pose = checked[t].pose + 1]]
          /\ checked[t].pose + 1 \in Poses
          /\ UNCHANGED <<homes, targets, index, pc>>
      BY <1>4 DEF ChecksPose
    <2>2. HomePositions'
      BY <2>1
    <2>3. \A u \in Threads : checked'[u].home = checked[u].home
      BY <2>1
    <2>4. QED
      BY <2>1, <2>2, <2>3
  <1>5. ASSUME NEW t \in Threads, Unreachable(t) PROVE HomePositions' /\ Checking'
    BY <1>5 DEF Unreachable
  <1>6. ASSUME NEW t \in Threads, NEW p \in Plans, Planned(t, p)
       PROVE HomePositions' /\ Checking'
    BY <1>6 DEF Planned
  <1>7. ASSUME NEW t \in Threads, Executed(t) PROVE HomePositions' /\ Checking'
    BY <1>7 DEF Executed
  <1>8. CASE Unmoved
    BY <1>8 DEF Unmoved, robot
  <1>9. QED
    BY <1>1, <1>2, <1>3, <1>4, <1>5, <1>6, <1>7, <1>8, RobotSteps, Zenon

LEMMA PlanningStep ==
  ASSUME Calling, HomePositions, Checking, Planning, Sane, [Next]_vars
  PROVE  Planning' /\ Sane'
  <1> USE DEF Planning, Sane
  <1>1. ASSUME NEW t \in Threads, set_and_check_starting_position(t)
        PROVE  Planning' /\ Sane'
    BY <1>1 DEF set_and_check_starting_position
  <1>2. ASSUME NEW t \in Threads, plan_to_current_target_pose(t)
        PROVE  Planning' /\ Sane'
    <2>1. [home |-> targets, pose |-> index] \in Goals
      BY <1>2, HandeyeAssumption DEF plan_to_current_target_pose, HomePositions, Goals
    <2>2. QED
      BY <1>2, <2>1 DEF plan_to_current_target_pose, SetsTarget, AtMostOne
  <1>3. ASSUME NEW t \in Threads, NEW i \in Poses, select_target_pose(t, i)
        PROVE  Planning' /\ Sane'
    BY <1>3 DEF select_target_pose
  <1>4. ASSUME NEW t \in Threads, ChecksPose(t) PROVE Planning' /\ Sane'
    <2>1. /\ checked' = [checked EXCEPT ![t] = [checked[t] EXCEPT !.pose = checked[t].pose + 1]]
          /\ checked[t].pose + 1 \in Poses /\ checked[t].home \in 1..MaxHomes
      BY <1>4 DEF ChecksPose, Checking
    <2>2. checked'[t] = [home |-> checked[t].home, pose |-> checked[t].pose + 1]
      BY <2>1 DEF HomePositions
    <2>3. checked'[t] \in Goals
      BY <2>1, <2>2 DEF Goals
    <2>4. QED
      BY <1>4, <2>3 DEF ChecksPose, SetsTarget, AtMostOne
  <1>5. ASSUME NEW t \in Threads, Unreachable(t) PROVE Planning' /\ Sane'
    BY <1>5 DEF Unreachable
  <1>6. ASSUME NEW t \in Threads, NEW p \in Plans, Planned(t, p) PROVE Planning' /\ Sane'
    <2>1. plan' = {} \/ (plan' = {p} /\ ~p.crazy)
      BY <1>6 DEF Planned
    <2>2. goal' = goal /\ executed' = executed
      BY <1>6 DEF Planned
    <2>3. plan' \in AtMostOne(Plans)
      BY <2>1 DEF AtMostOne
    <2>4. Sane'
      BY <2>1, <2>2
    <2>5. QED
      BY <2>2, <2>3, <2>4
  <1>7. ASSUME NEW t \in Threads, Executed(t) PROVE Planning' /\ Sane'
    BY <1>7 DEF Executed, AtMostOne
  <1>8. CASE Unmoved
    BY <1>8 DEF Unmoved, robot
  <1>9. QED
    BY <1>1, <1>2, <1>3, <1>4, <1>5, <1>6, <1>7, <1>8, RobotSteps, Zenon

-----------------------------------------------------------------------------
\* The samples and the threads that read them.

\* A removal moves samples to the front, none to the back.
LEMMA RemovalMoves ==
  ASSUME Sampling, NEW t \in Threads, NEW i \in 1..MaxSamples, remove_sample(t, i)
  PROVE  /\ taken' = taken /\ Len(samples) \in Nat /\ Len(samples') = Len(samples) - 1
         /\ \A j \in 1..Len(samples') : samples'[j] = IF j < i
              THEN samples[j] ELSE samples[j + 1]
  <1>1. i \in 1..Len(samples) /\ samples' = RemoveAt(samples, i) /\ taken' = taken
    BY DEF remove_sample, Removes
  <1>2. samples \in Seq(1..MaxSamples) /\ Len(samples) \in Nat
    BY DEF Sampling
  <1>3. /\ Len(RemoveAt(samples, i)) = Len(samples) - 1
        /\ \A j \in 1..(Len(samples) - 1) :
             RemoveAt(samples, i)[j] = IF j < i THEN samples[j] ELSE samples[j + 1]
    BY <1>1, <1>2, Removal
  <1>4. QED
    BY <1>1, <1>2, <1>3

LEMMA TakingAppends ==
  ASSUME Sampling, NEW t \in Threads, SampleTaken(t)
  PROVE  /\ taken \in Nat /\ taken' = taken + 1
         /\ Len(samples) \in Nat /\ Len(samples') = Len(samples) + 1
         /\ samples'[Len(samples) + 1] = taken'
         /\ \A j \in 1..Len(samples) : samples'[j] = samples[j]
  <1>1. taken' \in 1..MaxSamples /\ taken' = taken + 1 /\ samples' = Append(samples, taken')
    BY HandeyeAssumption DEF SampleTaken, Sampling
  <1>2. taken \in Nat /\ Len(samples) \in Nat
    BY DEF Sampling
  <1>3. QED
    BY <1>1, <1>2 DEF Sampling

LEMMA OrderedStep ==
  ASSUME Calling, Sampling, Ordered, [Next]_vars
  PROVE  Ordered'
  <1> USE DEF Ordered, Rising
  <1>0. \A j \in 1..Len(samples) : samples[j] \in Nat
    BY Member, HandeyeAssumption DEF Sampling
  <1>1. ASSUME NEW t \in Threads, SampleTaken(t) PROVE Ordered'
    <2>1. \A j \in 1..Len(samples') : j \in 1..Len(samples) \/ j = Len(samples) + 1
      BY <1>1, TakingAppends
    <2>2. /\ taken \in Nat /\ taken' = taken + 1 /\ Len(samples) \in Nat
          /\ samples'[Len(samples) + 1] = taken'
          /\ \A j \in 1..Len(samples) : samples'[j] = samples[j] /\ samples[j] < taken'
      BY <1>0, <1>1, TakingAppends
    <2>3. ASSUME NEW j \in 1..Len(samples') PROVE samples'[j] <= taken'
      <3>1. CASE j \in 1..Len(samples)
        BY <1>0, <2>2, <3>1
      <3>2. CASE j = Len(samples) + 1
        BY <2>2, <3>2
      <3>3. QED
        BY <2>1, <3>1, <3>2
    <2>4. ASSUME NEW j \in 1..Len(samples'), NEW k \in 1..Len(samples'), j < k
          PROVE  samples'[j] < samples'[k]
      <3>1. j \in 1..Len(samples)
        BY <2>1, <2>2, <2>4
      <3>2. CASE k \in 1..Len(samples)
        BY <2>2, <2>4, <3>1, <3>2
      <3>3. CASE k = Len(samples) + 1
        BY <2>2, <3>1, <3>3
      <3>4. QED
        BY <2>1, <3>2, <3>3
    <2>5. QED
      BY <2>3, <2>4
  <1>2. ASSUME NEW t \in Threads, NEW i \in 1..MaxSamples, remove_sample(t, i)
       PROVE Ordered'
    <2>1. \A j \in 1..Len(samples') : j \in 1..Len(samples) /\ j + 1 \in 1..Len(samples)
      BY <1>2, RemovalMoves
    <2>2. ASSUME NEW j \in 1..Len(samples'), NEW k \in 1..Len(samples'), j < k
          PROVE  samples'[j] < samples'[k]
      BY <1>2, <2>1, <2>2, RemovalMoves
    <2>3. ASSUME NEW j \in 1..Len(samples') PROVE samples'[j] <= taken'
      <3>1. samples'[j] = samples[j] \/ samples'[j] = samples[j + 1]
        BY <1>2, RemovalMoves
      <3>2. samples[j] <= taken /\ samples[j + 1] <= taken /\ taken' = taken
        BY <1>2, <2>1, RemovalMoves
      <3>3. QED
        BY <3>1, <3>2
    <2>4. QED
      BY <2>2, <2>3
  <1>3. ASSUME samples' = samples, taken' = taken PROVE Ordered'
    BY <1>3
  <1>4. QED
    BY <1>1, <1>2, <1>3, SampleSteps DEF Iterates, LooksAt, Elsewhere

\* What a thread has seen, before and after.
Starts(t)    == seen'[t] = <<>> /\ next'[t] = 1
Continues(t) == seen'[t] = seen[t] /\ next'[t] = next[t]

LEMMA AheadStep ==
  ASSUME Calling, Sampling, Reading, Ordered, NEW u \in Threads, Ahead(u), [Next]_vars
  PROVE  Ahead(u)'
  <1> USE DEF Ahead
  <1>0. /\ next[u] \in Nat \ {0} /\ Len(seen[u]) \in Nat /\ Len(samples) \in Nat
        /\ seen[u] \in Seq(Nat) /\ \A i \in 1..Len(seen[u]) : seen[u][i] \in Nat
        /\ taken \in Nat /\ \A i \in 1..Len(samples) : samples[i] \in Nat
    <2>1. seen[u] \in Seq(1..MaxSamples) /\ next[u] \in Nat \ {0}
      BY DEF Reading
    <2>2. \A i \in 1..Len(seen[u]) : seen[u][i] \in Nat
      BY <2>1, Member, HandeyeAssumption
    <2>3. \A i \in 1..Len(samples) : samples[i] \in Nat
      BY Member, HandeyeAssumption DEF Sampling
    <2>4. Len(seen[u]) \in Nat /\ Len(samples) \in Nat /\ taken \in Nat
      BY <2>1 DEF Sampling
    <2>5. seen[u] \in Seq(Nat)
      BY <2>1, <2>2
    <2>6. QED
      BY <2>1, <2>2, <2>3, <2>4, <2>5
  <1>1. ASSUME Starts(u) PROVE Ahead(u)'
    <2>1. Len(seen'[u]) = 0
      BY <1>1 DEF Starts
    <2>2. QED
      BY <2>1 DEF Rising
  <1>2. ASSUME Continues(u), taken' \in Nat, taken' >= taken,
               \A j \in next[u]..Len(samples') :
                  \/ \E k \in next[u]..Len(samples) : samples'[j] = samples[k]
                  \/ samples'[j] \in Nat /\ samples'[j] > taken
        PROVE  Ahead(u)'
    <2>1. Rising(seen'[u])
      BY <1>2 DEF Continues
    <2>2. ASSUME NEW i \in 1..Len(seen[u])
          PROVE  /\ seen[u][i] <= taken'
                 /\ \A j \in next[u]..Len(samples') : seen[u][i] < samples'[j]
      <3>1. seen[u][i] \in Nat /\ seen[u][i] <= taken
        BY <1>0
      <3>2. ASSUME NEW j \in next[u]..Len(samples') PROVE seen[u][i] < samples'[j]
        <4>1. CASE \E k \in next[u]..Len(samples) : samples'[j] = samples[k]
          BY <4>1
        <4>2. CASE samples'[j] \in Nat /\ samples'[j] > taken
          BY <1>0, <3>1, <4>2
        <4>3. QED
          BY <1>2, <4>1, <4>2
      <3>3. seen[u][i] <= taken'
        BY <1>0, <1>2, <3>1
      <3>4. QED
        BY <3>2, <3>3
    <2>3. QED
      BY <1>2, <2>1, <2>2 DEF Continues
  <1>3. ASSUME NEW t \in Threads, SampleTaken(t) PROVE Ahead(u)'
    <2>1. CASE u = t
      BY <1>1, <1>3, <2>1 DEF SampleTaken, Starts, Reading
    <2>2. CASE u # t
      <3>1. Continues(u)
        BY <1>3, <2>2 DEF SampleTaken, Continues, Reading
      <3>2. \A j \in next[u]..Len(samples') : j \in next[u]..Len(samples)
              \/ j = Len(samples) + 1
        BY <1>0, <1>3, TakingAppends
      <3>3. \A j \in next[u]..Len(samples) : samples'[j] = samples[j]
        BY <1>0, <1>3, TakingAppends
      <3>4. QED
        BY <1>2, <1>3, <3>1, <3>2, <3>3, TakingAppends
    <2>3. QED
      BY <2>1, <2>2
  <1>4. ASSUME NEW t \in Threads, NEW i \in 1..MaxSamples, remove_sample(t, i)
       PROVE Ahead(u)'
    <2>1. CASE u = t
      BY <1>1, <1>4, <2>1 DEF remove_sample, Removes, Starts, Reading
    <2>2. CASE u # t
      <3>1. Continues(u)
        BY <1>4, <2>2 DEF remove_sample, Removes, Continues, Reading
      <3>2. \A j \in next[u]..Len(samples') :
              /\ j \in next[u]..Len(samples) /\ j + 1 \in next[u]..Len(samples)
              /\ samples'[j] = samples[j] \/ samples'[j] = samples[j + 1]
        <4>1. /\ Len(samples') = Len(samples) - 1
              /\ \A j \in 1..Len(samples') :
                   samples'[j] = IF j < i THEN samples[j] ELSE samples[j + 1]
          BY <1>4, RemovalMoves
        <4>2. \A j \in next[u]..Len(samples') :
                /\ j \in 1..Len(samples')
                /\ j \in next[u]..Len(samples) /\ j + 1 \in next[u]..Len(samples)
          BY <1>0, <4>1
        <4>3. QED
          BY <4>1, <4>2
      <3>3. taken' = taken
        BY <1>4, RemovalMoves
      <3>4. QED
        BY <1>0, <1>2, <3>1, <3>2, <3>3
    <2>3. QED
      BY <2>1, <2>2
  <1>5. ASSUME NEW t \in Threads, NEW how, Iterates(t, how) PROVE Ahead(u)'
    <2>1. CASE u = t
      BY <1>1, <1>5, <2>1 DEF Iterates, Starts, Reading
    <2>2. CASE u # t
      <3>1. Continues(u) /\ samples' = samples /\ taken' = taken
        BY <1>5, <2>2 DEF Iterates, Continues, Reading
      <3>2. QED
        BY <1>0, <1>2, <3>1
    <2>3. QED
      BY <2>1, <2>2
  <1>6. ASSUME NEW t \in Threads, LooksAt(t) PROVE Ahead(u)'
    <2>0. samples' = samples /\ taken' = taken
      BY <1>6 DEF LooksAt
    <2>1. CASE u = t
      <3>1. /\ next[u] <= Len(samples)
            /\ seen'[u] = Append(seen[u], samples[next[u]]) /\ next'[u] = next[u] + 1
        BY <1>6, <2>1 DEF LooksAt, Reading
      <3> DEFINE x == samples[next[u]]
      <3>2. next[u] \in 1..Len(samples) /\ x \in Nat /\ x <= taken
        BY <1>0, <3>1 DEF Ordered
      <3>3. \A j \in (next[u] + 1)..Len(samples) : x < samples[j]
        BY <1>0, <3>2 DEF Ordered, Rising
      <3>4. \A i \in 1..Len(seen[u]) : seen[u][i] < x
        BY <1>0, <3>2
      <3>5. /\ Len(seen'[u]) = Len(seen[u]) + 1 /\ seen'[u][Len(seen[u]) + 1] = x
            /\ \A i \in 1..Len(seen[u]) : seen'[u][i] = seen[u][i]
        BY <1>0, <3>1, <3>2
      <3>6. \A i \in 1..Len(seen'[u]) : i \in 1..Len(seen[u]) \/ i = Len(seen[u]) + 1
        BY <1>0, <3>5
      <3> HIDE DEF x
      <3>7. Rising(seen'[u])
        <4> SUFFICES ASSUME NEW i \in 1..Len(seen'[u]), NEW j \in 1..Len(seen'[u]), i < j
                     PROVE  seen'[u][i] < seen'[u][j]
          BY DEF Rising
        <4>1. i \in 1..Len(seen[u])
          BY <1>0, <3>5
        <4>2. CASE j = Len(seen[u]) + 1
          BY <3>4, <3>5, <4>1, <4>2
        <4>3. CASE j \in 1..Len(seen[u])
          <5>1. seen[u][i] < seen[u][j]
            BY <4>1, <4>3 DEF Rising
          <5>2. QED
            BY <3>5, <4>1, <4>3, <5>1
        <4>4. QED
          BY <3>6, <4>2, <4>3
      <3>8. ASSUME NEW i \in 1..Len(seen'[u])
            PROVE  /\ seen'[u][i] <= taken
                   /\ \A j \in (next[u] + 1)..Len(samples) : seen'[u][i] < samples[j]
        <4>1. CASE i = Len(seen[u]) + 1
          BY <3>2, <3>3, <3>5, <4>1
        <4>2. CASE i \in 1..Len(seen[u])
          <5>1. seen'[u][i] = seen[u][i] /\ seen[u][i] <= taken
            BY <3>5, <4>2
          <5>2. ASSUME NEW j \in (next[u] + 1)..Len(samples) PROVE seen[u][i] < samples[j]
            <6>1. j \in next[u]..Len(samples)
              BY <1>0
            <6>2. QED
              BY <4>2, <6>1
          <5>3. QED
            BY <5>1, <5>2
        <4>3. QED
          BY <3>6, <4>1, <4>2
      <3>9. QED
        BY <2>0, <3>1, <3>7, <3>8
    <2>2. CASE u # t
      <3>1. Continues(u)
        BY <1>6, <2>2 DEF LooksAt, Continues, Reading
      <3>2. QED
        BY <1>0, <1>2, <2>0, <3>1
    <2>3. QED
      BY <2>1, <2>2
  <1>7. CASE Elsewhere
    <2>1. Continues(u) /\ samples' = samples /\ taken' = taken
      BY <1>7 DEF Elsewhere, Continues
    <2>2. QED
      BY <1>0, <1>2, <2>1
  <1>8. QED
    BY <1>3, <1>4, <1>5, <1>6, <1>7, SampleSteps

LEMMA ReadsStep ==
  ASSUME Calling, Sampling, Reading, NEW u \in Threads, Reads(u), [Next]_vars
  PROVE  Reads(u)'
  <1> USE DEF Reads
  <1>0. /\ next[u] \in Nat \ {0} /\ Len(seen[u]) \in Nat /\ Len(samples) \in Nat
        /\ seen[u] \in Seq(1..MaxSamples) /\ MinSamples \in Nat
    BY HandeyeAssumption DEF Reading, Sampling
  <1>1. ASSUME Starts(u), Len(samples') \in Nat,
               pc'[u] = "compute" => Len(samples') >= MinSamples
        PROVE  Reads(u)'
    <2>1. Len(seen'[u]) = 0
      BY <1>1 DEF Starts
    <2>2. QED
      BY <1>1, <2>1 DEF Starts
  <1>2. ASSUME Continues(u), pc'[u] = pc[u], removed'[u] = removed[u],
               Len(samples') \in Nat, Len(samples') >= Len(samples),
               \A j \in 1..Len(samples) : samples'[j] = samples[j]
        PROVE  Reads(u)'
    <2> SUFFICES ASSUME pc[u] \in {"list", "compute"}, ~removed[u] PROVE Reads(u)'
      BY <1>2
    <2>1. /\ next[u] <= Len(samples') + 1 /\ Len(seen[u]) = next[u] - 1
          /\ pc[u] = "compute" => Len(samples') >= MinSamples
      BY <1>0, <1>2
    <2>2. \A i \in 1..Len(seen[u]) : seen[u][i] = samples'[i]
      <3>1. \A i \in 1..Len(seen[u]) : seen[u][i] = samples[i] /\ i \in 1..Len(samples)
        BY <1>0
      <3>2. QED
        BY <1>2, <3>1
    <2>3. QED
      BY <1>2, <2>1, <2>2 DEF Continues
  <1>3. ASSUME NEW t \in Threads, SampleTaken(t) PROVE Reads(u)'
    <2>1. CASE u = t
      <3>1. Starts(u) /\ pc'[u] = "list"
        BY <1>3, <2>1 DEF SampleTaken, Starts, Reading, Moves, Goes, Calling
      <3>2. QED
        BY <1>1, <1>3, <3>1, TakingAppends
    <2>2. CASE u # t
      <3>1. Continues(u) /\ pc'[u] = pc[u] /\ removed'[u] = removed[u]
        BY <1>3, <2>2 DEF SampleTaken, Continues, Reading, Moves, Goes, Calling
      <3>2. QED
        BY <1>2, <1>3, <3>1, TakingAppends
    <2>3. QED
      BY <2>1, <2>2
  <1>4. ASSUME NEW t \in Threads, NEW i \in 1..MaxSamples, remove_sample(t, i)
       PROVE Reads(u)'
    <2>1. CASE u = t
      <3>1. Starts(u) /\ pc'[u] = "list"
        BY <1>4, <2>1 DEF remove_sample, Removes, Starts, Reading, Call, Goes, Calling
      <3>2. Len(samples') \in Nat
        <4>1. samples' = RemoveAt(samples, i) /\ i \in 1..Len(samples)
          BY <1>4 DEF remove_sample, Removes
        <4>2. RemoveAt(samples, i) \in Seq(1..MaxSamples)
          BY <4>1, Removal DEF Sampling
        <4>3. QED
          BY <4>1, <4>2
      <3>3. QED
        BY <1>1, <3>1, <3>2
    <2>2. CASE u # t
      BY <1>4, <2>2 DEF remove_sample, Removes
    <2>3. QED
      BY <2>1, <2>2
  <1>5. ASSUME NEW t \in Threads, NEW how, Iterates(t, how),
               how = "compute" => Len(samples) >= MinSamples
        PROVE  Reads(u)'
    <2>0. samples' = samples
      BY <1>5 DEF Iterates
    <2>1. CASE u = t
      <3>1. Starts(u) /\ pc'[u] = how
        BY <1>5, <2>1 DEF Iterates, Starts, Reading, Call, Goes, Calling
      <3>2. QED
        BY <1>0, <1>1, <1>5, <2>0, <3>1
    <2>2. CASE u # t
      <3>1. Continues(u) /\ pc'[u] = pc[u] /\ removed'[u] = removed[u]
        BY <1>5, <2>2 DEF Iterates, Continues, Reading, Call, Goes, Calling
      <3>2. QED
        BY <1>0, <1>2, <2>0, <3>1
    <2>3. QED
      BY <2>1, <2>2
  <1>6. ASSUME NEW t \in Threads, LooksAt(t) PROVE Reads(u)'
    <2>0. samples' = samples /\ removed' = removed /\ pc' = pc
      BY <1>6 DEF LooksAt
    <2>1. CASE u = t
      <3> SUFFICES ASSUME pc[u] \in {"list", "compute"}, ~removed[u] PROVE Reads(u)'
        BY <2>0
      <3>1. /\ next[u] <= Len(samples)
            /\ seen'[u] = Append(seen[u], samples[next[u]]) /\ next'[u] = next[u] + 1
        BY <1>6, <2>1 DEF LooksAt, Reading
      <3>2. samples[next[u]] \in 1..MaxSamples
        <4>1. next[u] \in 1..Len(samples)
          BY <1>0, <3>1
        <4>2. QED
          BY <4>1, Member DEF Sampling
      <3>3. /\ Len(seen[u]) = next[u] - 1
            /\ \A i \in 1..Len(seen[u]) : seen[u][i] = samples[i]
            /\ pc[u] = "compute" => Len(samples) >= MinSamples
        OBVIOUS
      <3>4. /\ Len(seen'[u]) = Len(seen[u]) + 1
            /\ seen'[u][Len(seen[u]) + 1] = samples[next[u]]
            /\ \A i \in 1..Len(seen[u]) : seen'[u][i] = seen[u][i]
        BY <1>0, <3>1, <3>2
      <3>5. \A i \in 1..Len(seen'[u]) : i \in 1..Len(seen[u]) \/ i = Len(seen[u]) + 1
        BY <1>0, <3>4
      <3>6. \A i \in 1..Len(seen'[u]) : seen'[u][i] = samples[i]
        BY <1>0, <3>3, <3>4, <3>5
      <3>7. next'[u] <= Len(samples) + 1 /\ Len(seen'[u]) = next'[u] - 1
        BY <1>0, <3>1, <3>3, <3>4
      <3>8. QED
        BY <2>0, <3>3, <3>6, <3>7
    <2>2. CASE u # t
      <3>1. Continues(u)
        BY <1>6, <2>2 DEF LooksAt, Continues, Reading
      <3>2. QED
        BY <1>0, <1>2, <2>0, <3>1
    <2>3. QED
      BY <2>1, <2>2
  <1>7. CASE Elsewhere
    BY <1>7 DEF Elsewhere
  <1>8. ASSUME NEW t \in Threads, Iterates(t, "list") PROVE Reads(u)'
    BY <1>5, <1>8
  <1>9. ASSUME NEW t \in Threads, Iterates(t, "compute"), Len(samples) >= MinSamples
        PROVE  Reads(u)'
    BY <1>5, <1>9
  <1>10. QED
    BY <1>3, <1>4, <1>6, <1>7, <1>8, <1>9, SampleSteps

LEMMA RisingResults ==
  ASSUME Rising(last), Rising(saved), \A t \in Threads : Rising(seen[t]), [Next]_vars
  PROVE  Rising(last') /\ Rising(saved')
  <1>1. Rising(<<>>)
    BY DEF Rising
  <1>2. QED
    BY <1>1, ResultSteps

-----------------------------------------------------------------------------
\* The theorem.

LEMMA HandeyeInit ==
  ASSUME Init
  PROVE  TypeOK /\ HandeyeIInv
  <1> USE HandeyeAssumption DEF Init
  <1>1. Calling /\ Sampling /\ Results
    BY DEF Calling, Sampling, Results
  <1>2. Reading
    BY DEF Reading
  <1>3. HomePositions /\ Planning
    BY DEF HomePositions, Planning, AtMostOne
  <1>4. Len(samples) = 0 /\ Len(last) = 0 /\ Len(saved) = 0
    OBVIOUS
  <1>5. Ordered /\ Rising(last) /\ Rising(saved)
    BY <1>4 DEF Ordered, Rising
  <1>6. ASSUME NEW t \in Threads PROVE Ahead(t) /\ Reads(t)
    <2>1. Len(seen[t]) = 0 /\ pc[t] = "idle"
      OBVIOUS
    <2>2. QED
      BY <2>1 DEF Ahead, Reads, Rising
  <1>7. Checking /\ Sane
    BY DEF Checking, Sane
  <1>8. QED
    BY <1>1, <1>2, <1>3, <1>5, <1>6, <1>7, TypeParts DEF HandeyeIInv

LEMMA HandeyeStep ==
  ASSUME TypeOK, HandeyeIInv, [Next]_vars
  PROVE  TypeOK' /\ HandeyeIInv'
  <1>1. Calling /\ Sampling /\ Reading /\ Results /\ HomePositions /\ Planning
    BY TypeParts
  <1>2. /\ Ordered /\ \A t \in Threads : Ahead(t) /\ Reads(t)
        /\ Rising(last) /\ Rising(saved) /\ Checking /\ Sane
    BY DEF HandeyeIInv
  <1>3. Calling' /\ Sampling' /\ Reading' /\ Results'
    BY <1>1, CallingStep, SamplingStep, ReadingStep, ResultsStep
  <1>4. HomePositions' /\ Checking' /\ Planning' /\ Sane'
    BY <1>1, <1>2, PositionsStep, PlanningStep
  <1>5. TypeOK'
    BY <1>3, <1>4 DEF TypeOK, Calling, Sampling, Reading, Results, HomePositions, Planning
  <1>6. Ordered' /\ \A t \in Threads : Ahead(t)' /\ Reads(t)'
    BY <1>1, <1>2, OrderedStep, AheadStep, ReadsStep
  <1>7. \A t \in Threads : Rising(seen[t])
    BY <1>2 DEF Ahead
  <1>8. Rising(last') /\ Rising(saved')
    BY <1>2, <1>7, RisingResults
  <1>9. QED
    BY <1>4, <1>5, <1>6, <1>8 DEF HandeyeIInv

\* What compute_calibration and get_sample_lists read, while other threads take and
\* remove samples of the same list, has no sample twice, and all of them when none
\* was removed; and execute_plan, which reads the plan again after checking it,
\* hands over no plan that turns a joint too far.
THEOREM HandeyeHolds == Spec => []HandeyeInv
  <1>1. Init => TypeOK /\ HandeyeIInv
    BY HandeyeInit
  <1>2. TypeOK /\ HandeyeIInv /\ [Next]_vars => TypeOK' /\ HandeyeIInv'
    BY HandeyeStep
  <1>3. ASSUME TypeOK, HandeyeIInv PROVE HandeyeInv
    <2>1. NoSampleTwice
      BY <1>3 DEF HandeyeIInv, Ahead, NoSampleTwice
    <2>2. ASSUME NEW t \in Threads, pc[t] \in {"list", "compute"}, ~removed[t]
          PROVE  /\ seen[t] = SubSeq(samples, 1, next[t] - 1)
                 /\ pc[t] = "compute" => Len(samples) >= MinSamples
      <3>1. /\ next[t] <= Len(samples) + 1 /\ Len(seen[t]) = next[t] - 1
            /\ \A i \in 1..Len(seen[t]) : seen[t][i] = samples[i]
            /\ pc[t] = "compute" => Len(samples) >= MinSamples
        BY <1>3, <2>2 DEF HandeyeIInv, Reads
      <3>2. /\ seen[t] \in Seq(1..MaxSamples) /\ samples \in Seq(1..MaxSamples)
            /\ next[t] \in Nat /\ Len(samples) \in Nat
        BY <1>3 DEF TypeOK
      <3>3. seen[t] = SubSeq(samples, 1, Len(seen[t]))
        BY <3>1, <3>2, Prefix
      <3>4. QED
        BY <3>1, <3>3
    <2>3. SeesAll
      BY <2>2 DEF SeesAll
    <2>4. NothingCrazy
      BY <1>3 DEF HandeyeIInv, Sane, NothingCrazy
    <2>5. QED
      BY <1>3, <2>1, <2>3, <2>4 DEF HandeyeInv
  <1>4. TypeOK /\ HandeyeIInv => HandeyeInv
    BY <1>3
  <1>5. QED
    BY <1>1, <1>2, <1>4, PTL DEF Spec

-----------------------------------------------------------------------------
(***************************************************************************)
(* GripperBridge.                                                          *)
(***************************************************************************)

\* The inductive invariant.

In(f, S) == {t \in Publishers : f[t] \in S}

\* A callback that is under way has a position.
GripperTyped == Grip!TypeOK /\ \A t \in Publishers : at[t] # "idle" => pos[t] \in Positions

\* Each list is longer by the callbacks that have added to it and not removed yet,
\* and l2 by the exceptions.
Counted ==
  /\ IsFiniteSet(In(at, {"slide"})) /\ IsFiniteSet(In(at, Grip!Listed))
  /\ Len(l1) = Grip!Window + Cardinality(In(at, {"slide"}))
  /\ Len(l2) = 1 + failures + Cardinality(In(at, Grip!Listed))

\* The one callback that has its position at the end of l2 tells it to the gripper,
\* unless the gripper was told already.
Tells(t) ==
  /\ pos[t] = Grip!Last(l2)
  /\ at[t] = "compare" /\ Grip!Last(l2) = l2[Len(l2) - 1] => target = Grip!Last(l2)
  /\ at[t] = "trigger" => register = Grip!Last(l2)
  /\ at[t] = "pop" => target = Grip!Last(l2)
Told == ~lost =>
  /\ \A t, u \in In(at, Grip!Listed) : t = u
  /\ In(at, Grip!Listed) = {} => target = Grip!Last(l2)
  /\ \A t \in In(at, Grip!Listed) : Tells(t)

GripperIInv == GripperTyped /\ Counted /\ Told

-----------------------------------------------------------------------------
\* Callbacks that move on, and lists that get longer and shorter.

One(b) == IF b THEN 1 ELSE 0

\* The step of one callback, in the sets of callbacks at certain points.
LEMMA CallbackMoves ==
  ASSUME NEW f, NEW S, NEW t \in Publishers, NEW to,
         DOMAIN f = Publishers, IsFiniteSet(In(f, S))
  PROVE  LET F == In(f, S)
             G == In([f EXCEPT ![t] = to], S)
         IN  /\ IsFiniteSet(G) /\ Cardinality(F) \in Nat /\ Cardinality(G) \in Nat
             /\ Cardinality(G) = Cardinality(F) + One(to \in S) - One(f[t] \in S)
  <1> DEFINE g == [f EXCEPT ![t] = to]
             F == In(f, S)
             G == In(g, S)
  <1>1. \A u \in Publishers : g[u] = IF u = t THEN to ELSE f[u]
    OBVIOUS
  <1>2. (t \in F <=> f[t] \in S) /\ G = IF to \in S THEN F \cup {t} ELSE F \ {t}
    <2> HIDE DEF g
    <2>1. QED
      BY <1>1 DEF In
  <1> HIDE DEF F, G
  <1>3. IsFiniteSet(F)
    BY DEF F
  <1>4. /\ Cardinality(F) \in Nat
        /\ IsFiniteSet(F \ {t}) /\ IsFiniteSet(F \cup {t})
        /\ Cardinality(F \ {t}) = IF t \in F THEN Cardinality(F) - 1 ELSE Cardinality(F)
        /\ Cardinality(F \cup {t}) = IF t \in F THEN Cardinality(F) ELSE Cardinality(F) + 1
    BY <1>3, FS_CardinalityType, FS_AddElement, FS_RemoveElement
  <1>5. IsFiniteSet(G) /\ Cardinality(G) \in Nat
    BY <1>2, <1>4, FS_CardinalityType
  <1>6. Cardinality(G) = Cardinality(F) + One(to \in S) - One(f[t] \in S)
    BY <1>2, <1>4 DEF One
  <1>7. QED
    BY <1>4, <1>5, <1>6 DEF F, G

\* A list that something was appended to.
LEMMA Longer ==
  ASSUME NEW X, NEW s \in Seq(X), NEW x \in X
  PROVE  /\ Append(s, x) \in Seq(X) /\ Len(Append(s, x)) = Len(s) + 1
         /\ Grip!Last(Append(s, x)) = x
         /\ s # <<>> => Append(s, x)[Len(Append(s, x)) - 1] = Grip!Last(s)
  BY DEF Grip!Last

\* A list that lost its first element.
LEMMA Shorter ==
  ASSUME NEW X, NEW s \in Seq(X), Len(s) > 0
  PROVE  /\ Tail(s) \in Seq(X) /\ Len(Tail(s)) = Len(s) - 1
         /\ Len(s) > 1 => Grip!Last(Tail(s)) = Grip!Last(s)
  BY DEF Grip!Last

-----------------------------------------------------------------------------
\* The invariant holds at first, and every step keeps it.

LEMMA GripperInitially == Grip!Init => GripperIInv
  <1> SUFFICES ASSUME Grip!Init PROVE GripperIInv
    OBVIOUS
  <1>1. GripperTyped
    <2>1. l1 \in Seq(Positions \cup {0}) /\ l2 \in Seq(Positions \cup {Grip!First})
      BY DEF Grip!Init, Grip!Window
    <2>2. QED
      BY <2>1, GripperAssumption DEF Grip!Init, GripperTyped, Grip!TypeOK
  <1>2. In(at, {"slide"}) = {} /\ In(at, Grip!Listed) = {}
    BY DEF Grip!Init, In, Grip!Listed
  <1>3. Len(l1) = Grip!Window /\ Len(l2) = 1 /\ failures = 0 /\ lost
    BY DEF Grip!Init, Grip!Window
  <1>4. Counted /\ Told
    BY <1>2, <1>3, FS_EmptySet DEF Counted, Told, Grip!Window
  <1>5. QED
    BY <1>1, <1>4 DEF GripperIInv

\* What the lists, which are never empty when a callback uses their ends, look
\* like.
LEMMA Lengths ==
  ASSUME GripperIInv
  PROVE  /\ l1 \in Seq(Positions \cup {0}) /\ l2 \in Seq(Positions \cup {Grip!First})
         /\ Len(l1) >= Grip!Window /\ Len(l2) >= 1 /\ failures \in Nat
         /\ DOMAIN at = Publishers
         /\ \A t \in Publishers : at[t] = "slide" => Len(l1) > Grip!Window
         /\ \A t \in Publishers : at[t] \in Grip!Listed => Len(l2) >= 2
         /\ Positions \subseteq Nat
  <1>1. /\ l1 \in Seq(Positions \cup {0}) /\ l2 \in Seq(Positions \cup {Grip!First})
        /\ failures \in Nat /\ DOMAIN at = Publishers /\ Positions \subseteq Nat
    BY GripperAssumption DEF GripperIInv, GripperTyped, Grip!TypeOK
  <1>2. /\ IsFiniteSet(In(at, {"slide"})) /\ IsFiniteSet(In(at, Grip!Listed))
        /\ Len(l1) = Grip!Window + Cardinality(In(at, {"slide"}))
        /\ Len(l2) = 1 + failures + Cardinality(In(at, Grip!Listed))
    BY DEF GripperIInv, Counted
  <1>3. Cardinality(In(at, {"slide"})) \in Nat /\ Cardinality(In(at, Grip!Listed)) \in Nat
    BY <1>2, FS_CardinalityType
  <1>4. /\ In(at, {"slide"}) # {} => Cardinality(In(at, {"slide"})) # 0
        /\ In(at, Grip!Listed) # {} => Cardinality(In(at, Grip!Listed)) # 0
    BY <1>2, FS_EmptySet
  <1>5. /\ \A t \in Publishers : at[t] = "slide" => In(at, {"slide"}) # {}
        /\ \A t \in Publishers : at[t] \in Grip!Listed => In(at, Grip!Listed) # {}
    BY DEF In
  <1>6. Grip!Window = 5
    BY DEF Grip!Window
  <1>7. QED
    BY <1>1, <1>2, <1>3, <1>4, <1>5, <1>6

Points == {"idle", "slide", "count", "list"} \cup Grip!Listed

\* Every variable keeps its type.
LEMMA GripperTypedStep ==
  ASSUME GripperIInv, NEW t \in Publishers, Grip!callback(t)
  PROVE  GripperTyped'
  <1>0. /\ l1 \in Seq(Positions \cup {0}) /\ l2 \in Seq(Positions \cup {Grip!First})
        /\ at \in [Publishers -> Points] /\ pos \in [Publishers -> Positions \cup {0}]
        /\ register \in Positions \cup {0} /\ target \in Positions \cup {0}
        /\ messages \in 0..MaxMessages /\ failures \in 0..MaxFailures /\ lost \in BOOLEAN
        /\ \A u \in Publishers : at[u] # "idle" => pos[u] \in Positions
    BY DEF GripperIInv, GripperTyped, Grip!TypeOK, Points
  <1> USE GripperAssumption
  <1>1. /\ Len(l1) > 0
    BY Lengths DEF Grip!Window
  <1>a. at[t] \in Grip!Listed => Len(l2) > 0
    BY Lengths
  <1>2. /\ l1' \in Seq(Positions \cup {0}) /\ l2' \in Seq(Positions \cup {Grip!First})
    <2>1. ASSUME NEW x \in Positions, Grip!Appends(t, x)
          PROVE  l1' \in Seq(Positions \cup {0}) /\ l2' \in Seq(Positions \cup {Grip!First})
      BY <1>0, <2>1, Longer DEF Grip!Appends
    <2>2. CASE Grip!Slides(t)
      BY <1>0, <1>1, <2>2, Shorter DEF Grip!Slides
    <2>3. CASE Grip!Lists(t)
      <3>1. pos[t] \in Positions \cup {Grip!First} /\ l2' = Append(l2, pos[t])
              /\ UNCHANGED l1
        BY <1>0, <2>3 DEF Grip!Lists, Grip!Goes
      <3>2. QED
        BY <1>0, <3>1, Longer
    <2>4. CASE Grip!Pops(t)
      <3>1. at[t] \in Grip!Listed
        BY <2>4 DEF Grip!Pops, Grip!Goes, Grip!Listed
      <3>2. QED
        BY <1>0, <1>a, <2>4, <3>1, Shorter DEF Grip!Pops
    <2>5. CASE UNCHANGED <<l1, l2>>
      BY <1>0, <2>5
    <2>6. QED
      BY <2>1, <2>2, <2>3, <2>4, <2>5 DEF Grip!callback, Grip!Counts, Grip!Compares,
                                          Grip!write_position, Grip!trigger_motion
  <1>3. /\ at' \in [Publishers -> Points] /\ pos' \in [Publishers -> Positions \cup {0}]
        /\ \A u \in Publishers : at'[u] # "idle" => pos'[u] \in Positions
    <2>1. ASSUME NEW x \in Positions, Grip!Appends(t, x)
          PROVE  /\ at' \in [Publishers -> Points]
                 /\ pos' \in [Publishers -> Positions \cup {0}]
                 /\ \A u \in Publishers : at'[u] # "idle" => pos'[u] \in Positions
      BY <1>0, <2>1 DEF Grip!Appends, Grip!Goes, Points
    <2>2. ASSUME at[t] # "idle", NEW to \in Points, at' = [at EXCEPT ![t] = to],
                 UNCHANGED pos
          PROVE  /\ at' \in [Publishers -> Points]
                 /\ pos' \in [Publishers -> Positions \cup {0}]
                 /\ \A u \in Publishers : at'[u] # "idle" => pos'[u] \in Positions
      BY <1>0, <2>2
    <2>3. CASE Grip!Slides(t) \/ Grip!Counts(t) \/ Grip!Lists(t) \/ Grip!Compares(t)
            \/ Grip!Pops(t)
      <3>1. at[t] # "idle" /\ UNCHANGED pos
              /\ \E to \in Points : at' = [at EXCEPT ![t] = to]
        BY <2>3 DEF Grip!Slides, Grip!Counts, Grip!Lists, Grip!Compares, Grip!Pops,
                    Grip!Goes, Points, Grip!Listed
      <3>2. QED
        BY <2>2, <3>1
    <2>4. CASE Grip!write_position(t) \/ Grip!trigger_motion(t)
      <3>1. at[t] # "idle" /\ UNCHANGED pos
              /\ \E to \in Points : at' = [at EXCEPT ![t] = to]
        BY <2>4 DEF Grip!write_position, Grip!trigger_motion, Grip!Succeeds, Grip!Fails,
                    Points, Grip!Listed
      <3>2. QED
        BY <2>2, <3>1
    <2>5. QED
      BY <2>1, <2>3, <2>4 DEF Grip!callback
  <1>4. /\ register' \in Positions \cup {0} /\ target' \in Positions \cup {0}
        /\ messages' \in 0..MaxMessages /\ failures' \in 0..MaxFailures /\ lost' \in BOOLEAN
    <2>1. CASE Grip!write_position(t) \/ Grip!trigger_motion(t)
      <3>1. /\ messages' = messages /\ register' \in {register, pos[t]}
            /\ target' \in {target, register}
            /\ \/ UNCHANGED <<failures, lost>>
               \/ failures < MaxFailures /\ failures' = failures + 1 /\ lost' = TRUE
        BY <2>1 DEF Grip!write_position, Grip!trigger_motion, Grip!Succeeds, Grip!Fails
      <3>2. pos[t] \in Positions \cup {0}
        BY <1>0
      <3>3. failures' \in 0..MaxFailures /\ lost' \in BOOLEAN
        <4>1. failures' = failures \/ (failures < MaxFailures /\ failures' = failures + 1)
          BY <3>1
        <4>2. failures' \in 0..MaxFailures
          BY <1>0, <4>1
        <4>3. lost' = lost \/ lost' = TRUE
          BY <3>1, Zenon
        <4>4. QED
          BY <1>0, <4>2, <4>3, Zenon
      <3>4. QED
        BY <1>0, <3>1, <3>2, <3>3
    <2>2. ASSUME NEW x \in Positions, Grip!Appends(t, x)
          PROVE  /\ register' \in Positions \cup {0} /\ target' \in Positions \cup {0}
                 /\ messages' \in 0..MaxMessages /\ failures' \in 0..MaxFailures
                 /\ lost' \in BOOLEAN
      BY <1>0, <2>2 DEF Grip!Appends
    <2>3. CASE Grip!Slides(t) \/ Grip!Counts(t) \/ Grip!Compares(t) \/ Grip!Pops(t)
      BY <1>0, <2>3 DEF Grip!Slides, Grip!Counts, Grip!Compares, Grip!Pops
    <2>4. CASE Grip!Lists(t)
      <3>1. lost' \in BOOLEAN
        BY <1>0, <2>4, Zenon DEF Grip!Lists
      <3>2. QED
        BY <1>0, <2>4, <3>1 DEF Grip!Lists
    <2>5. QED
      BY <2>1, <2>2, <2>3, <2>4 DEF Grip!callback
  <1>5. QED
    BY <1>2, <1>3, <1>4 DEF GripperTyped, Grip!TypeOK, Points

\* A callback goes on to "to"; l1 gets longer by x, l2 by y and an exception by z.
Change(t, to, x, y, z) ==
  /\ at' = [at EXCEPT ![t] = to] /\ x \in Int /\ y \in Int /\ z \in Nat
  /\ x = One(to = "slide") - One(at[t] = "slide")
  /\ y = One(to \in Grip!Listed) - One(at[t] \in Grip!Listed)
  /\ Len(l1') = Len(l1) + x /\ Len(l2') = Len(l2) + y + z /\ failures' = failures + z

\* The lengths of the lists count the callbacks that are between their statements.
LEMMA CountedStep ==
  ASSUME GripperIInv, NEW t \in Publishers, Grip!callback(t)
  PROVE  Counted'
  <1> DEFINE S1 == {"slide"}
  <1>0. /\ l1 \in Seq(Positions \cup {0}) /\ l2 \in Seq(Positions \cup {Grip!First})
        /\ failures \in Nat /\ DOMAIN at = Publishers
        /\ at[t] = "slide" => Len(l1) > 0
        /\ at[t] \in Grip!Listed => Len(l2) > 0
        /\ Len(l1) \in Nat /\ Len(l2) \in Nat
        /\ IsFiniteSet(In(at, S1)) /\ IsFiniteSet(In(at, Grip!Listed))
        /\ Len(l1) = Grip!Window + Cardinality(In(at, S1))
        /\ Len(l2) = 1 + failures + Cardinality(In(at, Grip!Listed))
        /\ Grip!Window = 5
    BY Lengths DEF GripperIInv, Counted, Grip!Window
  <1> HIDE DEF S1
  <1>1. ASSUME NEW to, NEW x, NEW y, NEW z, Change(t, to, x, y, z)
        PROVE  Counted'
    <2>0. /\ at' = [at EXCEPT ![t] = to] /\ x \in Int /\ y \in Int /\ z \in Nat
          /\ x = One(to \in S1) - One(at[t] \in S1)
          /\ y = One(to \in Grip!Listed) - One(at[t] \in Grip!Listed)
          /\ Len(l1') = Len(l1) + x /\ Len(l2') = Len(l2) + y + z
          /\ failures' = failures + z
      BY <1>1 DEF Change, S1, One
    <2>1. /\ IsFiniteSet(In(at', S1)) /\ Cardinality(In(at', S1)) \in Nat
          /\ Cardinality(In(at, S1)) \in Nat
          /\ Cardinality(In(at', S1)) = Cardinality(In(at,
                S1)) + One(to \in S1) - One(at[t] \in S1)
      BY <1>0, <2>0, CallbackMoves
    <2>2. /\ IsFiniteSet(In(at', Grip!Listed)) /\ Cardinality(In(at', Grip!Listed)) \in Nat
          /\ Cardinality(In(at, Grip!Listed)) \in Nat
          /\ Cardinality(In(at', Grip!Listed))
               = Cardinality(In(at,
                     Grip!Listed)) + One(to \in Grip!Listed) - One(at[t] \in Grip!Listed)
      BY <1>0, <2>0, CallbackMoves
    <2>3. /\ One(to \in S1) \in Int /\ One(at[t] \in S1) \in Int
          /\ One(to \in Grip!Listed) \in Int /\ One(at[t] \in Grip!Listed) \in Int
      BY DEF One
    <2>4. Cardinality(In(at', S1)) = Cardinality(In(at, S1)) + x
      BY <2>0, <2>1, <2>3
    <2>5. Cardinality(In(at', Grip!Listed)) = Cardinality(In(at, Grip!Listed)) + y
      BY <2>0, <2>2, <2>3
    <2>6. Len(l1') = Grip!Window + Cardinality(In(at', S1))
      BY <1>0, <2>0, <2>1, <2>4
    <2>7. Len(l2') = 1 + failures' + Cardinality(In(at', Grip!Listed))
      <3> DEFINE c == Cardinality(In(at, Grip!Listed))
                 d == Cardinality(In(at', Grip!Listed))
      <3>1. failures \in Nat /\ y \in Int /\ z \in Nat /\ c \in Nat /\ d \in Nat
        BY <1>0, <2>0, <2>2
      <3>2. /\ Len(l2) = 1 + failures + c /\ d = c + y
            /\ Len(l2') = Len(l2) + y + z /\ failures' = failures + z
        BY <1>0, <2>0, <2>5
      <3> HIDE DEF c, d
      <3>3. Len(l2') = 1 + failures' + d
        BY <3>1, <3>2
      <3>4. QED
        BY <3>3 DEF d
    <2>8. QED
      BY <2>1, <2>2, <2>6, <2>7 DEF Counted, S1
  <1>2. ASSUME NEW q \in Positions, Grip!Appends(t, q) PROVE Counted'
    <2>1. /\ at[t] = "idle" /\ at' = [at EXCEPT ![t] = "slide"] /\ Len(l1') = Len(l1) + 1
          /\ l2' = l2 /\ failures' = failures
      BY <1>0, <1>2, Longer DEF Grip!Appends, Grip!Goes
    <2>2. /\ 1 = One("slide" = "slide") - One(at[t] = "slide")
          /\ 0 = One("slide" \in Grip!Listed) - One(at[t] \in Grip!Listed)
      BY <2>1 DEF Grip!Listed, One
    <2>3. Len(l2') = Len(l2) + 0 + 0 /\ failures' = failures + 0
      BY <1>0, <2>1
    <2>4. Change(t, "slide", 1, 0, 0)
      BY <2>1, <2>2, <2>3 DEF Change
    <2>5. QED
      BY <1>1, <2>4
  <1>3. CASE Grip!Slides(t)
    <2>1. /\ at[t] = "slide" /\ at' = [at EXCEPT ![t] = "count"]
          /\ Len(l1') = Len(l1) + (-1)
          /\ l2' = l2 /\ failures' = failures
      BY <1>0, <1>3, Shorter DEF Grip!Slides, Grip!Goes
    <2>2. /\ -1 = One("count" = "slide") - One(at[t] = "slide")
          /\ 0 = One("count" \in Grip!Listed) - One(at[t] \in Grip!Listed)
      BY <2>1 DEF Grip!Listed, One
    <2>3. Len(l2') = Len(l2) + 0 + 0 /\ failures' = failures + 0
      BY <1>0, <2>1
    <2>4. Change(t, "count", -1, 0, 0)
      BY <2>1, <2>2, <2>3 DEF Change
    <2>5. QED
      BY <1>1, <2>4
  <1>4. CASE Grip!Counts(t)
    <2>1. PICK to \in {"list", "idle"} : at' = [at EXCEPT ![t] = to]
      BY <1>4 DEF Grip!Counts, Grip!Goes
    <2>2. at[t] = "count" /\ l1' = l1 /\ l2' = l2 /\ failures' = failures
      BY <1>4 DEF Grip!Counts, Grip!Goes
    <2>3. /\ 0 = One(to = "slide") - One(at[t] = "slide")
          /\ 0 = One(to \in Grip!Listed) - One(at[t] \in Grip!Listed)
      BY <2>1, <2>2 DEF Grip!Listed, One
    <2>4. /\ Len(l1') = Len(l1) + 0 /\ Len(l2') = Len(l2) + 0 + 0
          /\ failures' = failures + 0
      BY <1>0, <2>2
    <2>5. Change(t, to, 0, 0, 0)
      BY <2>1, <2>3, <2>4 DEF Change
    <2>6. QED
      BY <1>1, <2>5
  <1>5. CASE Grip!Lists(t)
    <2>1. /\ at[t] = "list" /\ at' = [at EXCEPT ![t] = "compare"]
          /\ l2' = Append(l2, pos[t])
          /\ l1' = l1 /\ failures' = failures
      BY <1>5 DEF Grip!Lists, Grip!Goes
    <2>2. pos[t] \in Positions \cup {Grip!First}
      BY <2>1 DEF GripperIInv, GripperTyped
    <2>3. /\ 0 = One("compare" = "slide") - One(at[t] = "slide")
          /\ 1 = One("compare" \in Grip!Listed) - One(at[t] \in Grip!Listed)
      BY <2>1 DEF Grip!Listed, One
    <2>4. /\ Len(l1') = Len(l1) + 0 /\ Len(l2') = Len(l2) + 1 + 0
          /\ failures' = failures + 0
      BY <1>0, <2>1, <2>2, Longer
    <2>5. Change(t, "compare", 0, 1, 0)
      BY <2>1, <2>3, <2>4 DEF Change
    <2>6. QED
      BY <1>1, <2>5
  <1>6. CASE Grip!Compares(t)
    <2>1. PICK to \in {"write", "pop"} : at' = [at EXCEPT ![t] = to]
      BY <1>6 DEF Grip!Compares, Grip!Goes
    <2>2. at[t] = "compare" /\ l1' = l1 /\ l2' = l2 /\ failures' = failures
      BY <1>6 DEF Grip!Compares, Grip!Goes
    <2>3. /\ 0 = One(to = "slide") - One(at[t] = "slide")
          /\ 0 = One(to \in Grip!Listed) - One(at[t] \in Grip!Listed)
      BY <2>1, <2>2 DEF Grip!Listed, One
    <2>4. /\ Len(l1') = Len(l1) + 0 /\ Len(l2') = Len(l2) + 0 + 0
          /\ failures' = failures + 0
      BY <1>0, <2>2
    <2>5. Change(t, to, 0, 0, 0)
      BY <2>1, <2>3, <2>4 DEF Change
    <2>6. QED
      BY <1>1, <2>5
  <1>7. CASE Grip!Pops(t)
    <2>1. /\ at[t] = "pop" /\ at' = [at EXCEPT ![t] = "idle"] /\ l2' = Tail(l2)
          /\ l1' = l1 /\ failures' = failures
      BY <1>7 DEF Grip!Pops, Grip!Goes
    <2>2. /\ 0 = One("idle" = "slide") - One(at[t] = "slide")
          /\ -1 = One("idle" \in Grip!Listed) - One(at[t] \in Grip!Listed)
      BY <2>1 DEF Grip!Listed, One
    <2>3. Len(l2) > 0
      BY <1>0, <2>1 DEF Grip!Listed
    <2>4. /\ Len(l1') = Len(l1) + 0 /\ Len(l2') = Len(l2) + (-1) + 0
          /\ failures' = failures + 0
      BY <1>0, <2>1, <2>3, Shorter
    <2>5. Change(t, "idle", 0, -1, 0)
      BY <2>1, <2>2, <2>4 DEF Change
    <2>6. QED
      BY <1>1, <2>5
  <1>8. CASE Grip!write_position(t) \/ Grip!trigger_motion(t)
    <2>1. /\ at[t] \in {"write", "trigger"} /\ l1' = l1 /\ l2' = l2
          /\ \/ \E to \in {"trigger", "pop"} : Grip!Succeeds(t, to)
             \/ Grip!Fails(t)
      BY <1>8 DEF Grip!write_position, Grip!trigger_motion
    <2>2. ASSUME NEW to \in {"trigger", "pop"}, Grip!Succeeds(t, to) PROVE Counted'
      <3>1. at' = [at EXCEPT ![t] = to] /\ failures' = failures
        BY <2>2 DEF Grip!Succeeds
      <3>2. /\ 0 = One(to = "slide") - One(at[t] = "slide")
            /\ 0 = One(to \in Grip!Listed) - One(at[t] \in Grip!Listed)
        BY <2>1 DEF Grip!Listed, One
      <3>3. /\ Len(l1') = Len(l1) + 0 /\ Len(l2') = Len(l2) + 0 + 0
            /\ failures' = failures + 0
        BY <1>0, <2>1, <3>1
      <3>4. Change(t, to, 0, 0, 0)
        BY <3>1, <3>2, <3>3 DEF Change
      <3>5. QED
        BY <1>1, <3>4
    <2>3. CASE Grip!Fails(t)
      <3>1. at' = [at EXCEPT ![t] = "idle"] /\ failures' = failures + 1
        BY <2>3 DEF Grip!Fails
      <3>2. /\ 0 = One("idle" = "slide") - One(at[t] = "slide")
            /\ -1 = One("idle" \in Grip!Listed) - One(at[t] \in Grip!Listed)
        <4>1. at[t] = "write" \/ at[t] = "trigger"
          BY <2>1
        <4>2. at[t] # "slide" /\ at[t] \in Grip!Listed /\ "idle" \notin Grip!Listed
          BY <4>1 DEF Grip!Listed
        <4>3. /\ One("idle" = "slide") = 0 /\ One(at[t] = "slide") = 0
              /\ One("idle" \in Grip!Listed) = 0 /\ One(at[t] \in Grip!Listed) = 1
          BY <4>2, Zenon DEF One
        <4>4. QED
          BY <4>3
      <3>3. /\ Len(l1') = Len(l1) + 0 /\ Len(l2') = Len(l2) + (-1) + 1
        BY <1>0, <2>1
      <3>4. Change(t, "idle", 0, -1, 1)
        BY <3>1, <3>2, <3>3 DEF Change
      <3>5. QED
        BY <1>1, <3>4
    <2>4. QED
      BY <2>1, <2>2, <2>3
  <1>9. QED
    BY <1>2, <1>3, <1>4, <1>5, <1>6, <1>7, <1>8 DEF Grip!callback

\* The gripper was told what the list of its commands ends with.
LEMMA ToldStep ==
  ASSUME GripperIInv, NEW t \in Publishers, Grip!callback(t)
  PROVE  Told'
  <1>0. /\ l2 \in Seq(Positions \cup {Grip!First}) /\ Len(l2) >= 1 /\ l2 # <<>>
        /\ DOMAIN at = Publishers
        /\ at[t] \in Grip!Listed => Len(l2) > 1
        /\ at[t] # "idle" => pos[t] \in Positions \cup {Grip!First}
    BY Lengths DEF GripperIInv, GripperTyped
  <1>1. SUFFICES ASSUME ~lost' PROVE Told'
    BY DEF Told
  <1>2. ~lost => /\ \A u, w \in In(at, Grip!Listed) : u = w
                 /\ In(at, Grip!Listed) = {} => target = Grip!Last(l2)
                 /\ \A u \in In(at, Grip!Listed) : Tells(u)
    BY DEF GripperIInv, Told
  \* Steps that are not those of a callback in Listed, and leave l2 alone.
  <1>3. ASSUME at[t] \notin Grip!Listed, NEW to, to \notin Grip!Listed,
               at' = [at EXCEPT ![t] = to],
               UNCHANGED <<l2, register, target, lost>>,
               \A u \in Publishers \ {t} : pos'[u] = pos[u]
        PROVE  Told'
    <2>1. /\ In(at', Grip!Listed) = In(at, Grip!Listed) /\ t \notin In(at, Grip!Listed)
          /\ \A u \in In(at, Grip!Listed) : at'[u] = at[u] /\ pos'[u] = pos[u]
      BY <1>0, <1>3 DEF In
    <2>2. \A u \in In(at, Grip!Listed) : Tells(u) => Tells(u)'
      BY <1>3, <2>1 DEF Tells
    <2>3. ~lost
      BY <1>1, <1>3
    <2>4. target' = target /\ Grip!Last(l2') = Grip!Last(l2)
      BY <1>3
    <2>5. QED
      BY <1>2, <2>1, <2>2, <2>3, <2>4 DEF Told
  \* Steps after which t alone is in Listed.
  <1>4. ASSUME In(at', Grip!Listed) = {t}, Tells(t)' PROVE Told'
    BY <1>4 DEF Told
  <1>5. ASSUME ~lost, at[t] \in Grip!Listed PROVE In(at, Grip!Listed) = {t} /\ Tells(t)
    <2>1. t \in In(at, Grip!Listed)
      BY <1>5 DEF In
    <2>2. QED
      BY <1>2, <1>5, <2>1
  <1>6. ASSUME ~lost, at[t] \in Grip!Listed, NEW to \in Grip!Listed,
               at' = [at EXCEPT ![t] = to]
        PROVE  In(at', Grip!Listed) = {t} /\ at'[t] = to
    <2>1. \A u \in Publishers : u # t => at'[u] = at[u]
      BY <1>0, <1>6
    <2>2. at'[t] = to
      BY <1>0, <1>6
    <2>3. QED
      BY <1>5, <1>6, <2>1, <2>2 DEF In
  <1>7. ASSUME NEW x \in Positions, Grip!Appends(t, x) PROVE Told'
    <2>1. at[t] \notin Grip!Listed /\ "slide" \notin Grip!Listed
      BY <1>7 DEF Grip!Appends, Grip!Goes, Grip!Listed
    <2>2. \A u \in Publishers \ {t} : pos'[u] = pos[u]
      BY <1>7 DEF Grip!Appends, GripperIInv, GripperTyped, Grip!TypeOK
    <2>3. QED
      BY <1>3, <1>7, <2>1, <2>2 DEF Grip!Appends, Grip!Goes
  <1>8. CASE Grip!Slides(t)
    <2>1. at[t] \notin Grip!Listed /\ "count" \notin Grip!Listed
      BY <1>8 DEF Grip!Slides, Grip!Goes, Grip!Listed
    <2>2. QED
      BY <1>3, <1>8, <2>1 DEF Grip!Slides, Grip!Goes
  <1>9. CASE Grip!Counts(t)
    <2>1. PICK to \in {"list", "idle"} : at' = [at EXCEPT ![t] = to]
      BY <1>9 DEF Grip!Counts, Grip!Goes
    <2>2. at[t] \notin Grip!Listed /\ to \notin Grip!Listed
      BY <1>9, <2>1 DEF Grip!Counts, Grip!Goes, Grip!Listed
    <2>3. QED
      BY <1>3, <1>9, <2>1, <2>2 DEF Grip!Counts
  <1>10. CASE Grip!Lists(t)
    <2>1. /\ at[t] = "list" /\ at' = [at EXCEPT ![t] = "compare"]
          /\ l2' = Append(l2, pos[t])
          /\ UNCHANGED <<pos, target>>
          /\ lost' = (~Grip!Alone(t) \/ (lost /\ pos[t] = Grip!Last(l2)))
      BY <1>10 DEF Grip!Lists, Grip!Goes
    <2>2. Grip!Alone(t) /\ ~(lost /\ pos[t] = Grip!Last(l2))
      BY <1>1, <2>1, Zenon
    <2>3. In(at, Grip!Listed) = {}
      BY <2>1, <2>2 DEF Grip!Alone, In, Grip!Listed
    <2>4. In(at', Grip!Listed) = {t} /\ at'[t] = "compare"
      <3>1. \A u \in Publishers : at'[u] = IF u = t THEN "compare" ELSE at[u]
        BY <1>0, <2>1
      <3>2. "compare" \in Grip!Listed
        BY DEF Grip!Listed
      <3>3. QED
        BY <2>3, <3>1, <3>2 DEF In
    <2>5. pos[t] \in Positions \cup {Grip!First}
      BY <1>0, <2>1
    <2>6. /\ Grip!Last(l2') = pos'[t] /\ l2'[Len(l2') - 1] = Grip!Last(l2)
      BY <1>0, <2>1, <2>5, Longer
    <2>7. Grip!Last(l2') = l2'[Len(l2') - 1] => target' = Grip!Last(l2')
      BY <1>2, <2>1, <2>2, <2>3, <2>6
    <2>8. Tells(t)'
      BY <2>4, <2>6, <2>7 DEF Tells
    <2>9. QED
      BY <1>4, <2>4, <2>8
  <1>11. CASE Grip!Compares(t)
    <2>1. /\ at[t] = "compare" /\ UNCHANGED <<l2, pos, register, target, lost>>
          /\ at' = [at EXCEPT ![t] = IF Grip!Last(l2) # l2[Len(l2) - 1]
               THEN "write" ELSE "pop"]
      BY <1>11 DEF Grip!Compares, Grip!Goes
    <2>2. "compare" \in Grip!Listed /\ "write" \in Grip!Listed /\ "pop" \in Grip!Listed
      BY DEF Grip!Listed
    <2>3. Tells(t)
      BY <1>1, <1>5, <2>1, <2>2
    <2>4. /\ In(at', Grip!Listed) = {t}
          /\ at'[t] = IF Grip!Last(l2) # l2[Len(l2) - 1] THEN "write" ELSE "pop"
      BY <1>1, <1>6, <2>1, <2>2
    <2>5. Tells(t)'
      BY <2>1, <2>3, <2>4 DEF Tells
    <2>6. QED
      BY <1>4, <2>4, <2>5
  <1>12. CASE Grip!Pops(t)
    <2>1. /\ at[t] = "pop" /\ at' = [at EXCEPT ![t] = "idle"] /\ l2' = Tail(l2)
          /\ UNCHANGED <<target, lost>>
      BY <1>12 DEF Grip!Pops, Grip!Goes
    <2>2. at[t] \in Grip!Listed /\ "idle" \notin Grip!Listed
      BY <2>1 DEF Grip!Listed
    <2>3. In(at, Grip!Listed) = {t} /\ Tells(t)
      BY <1>1, <1>5, <2>1, <2>2
    <2>4. In(at', Grip!Listed) = {}
      <3>1. \A u \in Publishers : at'[u] = IF u = t THEN "idle" ELSE at[u]
        BY <1>0, <2>1
      <3>2. QED
        BY <2>2, <2>3, <3>1 DEF In
    <2>5. Grip!Last(l2') = Grip!Last(l2)
      BY <1>0, <2>1, <2>2, Shorter
    <2>6. target' = Grip!Last(l2')
      BY <2>1, <2>3, <2>5 DEF Tells
    <2>7. QED
      BY <2>4, <2>6 DEF Told
  <1>13. CASE Grip!write_position(t)
    <2>1. /\ at[t] = "write" /\ Grip!Succeeds(t, "trigger") /\ register' = pos[t]
          /\ UNCHANGED <<l2, pos, target>>
      BY <1>1, <1>13 DEF Grip!write_position, Grip!Fails
    <2>2. "write" \in Grip!Listed /\ "trigger" \in Grip!Listed
      BY DEF Grip!Listed
    <2>3. ~lost /\ at' = [at EXCEPT ![t] = "trigger"]
      BY <1>1, <2>1 DEF Grip!Succeeds
    <2>4. Tells(t)
      BY <1>5, <2>1, <2>2, <2>3
    <2>5. In(at', Grip!Listed) = {t} /\ at'[t] = "trigger"
      BY <1>6, <2>1, <2>2, <2>3
    <2>6. Tells(t)'
      BY <2>1, <2>4, <2>5 DEF Tells
    <2>7. QED
      BY <1>4, <2>5, <2>6
  <1>14. CASE Grip!trigger_motion(t)
    <2>1. /\ at[t] = "trigger" /\ Grip!Succeeds(t, "pop") /\ target' = register
          /\ UNCHANGED <<l2, pos, register>>
      BY <1>1, <1>14 DEF Grip!trigger_motion, Grip!Fails
    <2>2. "trigger" \in Grip!Listed /\ "pop" \in Grip!Listed
      BY DEF Grip!Listed
    <2>3. ~lost /\ at' = [at EXCEPT ![t] = "pop"]
      BY <1>1, <2>1 DEF Grip!Succeeds
    <2>4. Tells(t)
      BY <1>5, <2>1, <2>2, <2>3
    <2>5. In(at', Grip!Listed) = {t} /\ at'[t] = "pop"
      BY <1>6, <2>1, <2>2, <2>3
    <2>6. Tells(t)'
      BY <2>1, <2>4, <2>5 DEF Tells
    <2>7. QED
      BY <1>4, <2>5, <2>6
  <1>15. QED
    BY <1>7, <1>8, <1>9, <1>10, <1>11, <1>12, <1>13, <1>14 DEF Grip!callback

\* Any step, or none, keeps the invariant.
LEMMA GripperStep ==
  ASSUME GripperIInv, [Grip!Next]_(Grip!vars)
  PROVE  GripperIInv'
  <1>1. ASSUME NEW t \in Publishers, Grip!callback(t) PROVE GripperIInv'
    BY <1>1, GripperTypedStep, CountedStep, ToldStep DEF GripperIInv
  <1>2. CASE UNCHANGED Grip!vars
    BY <1>2 DEF GripperIInv, GripperTyped, Grip!TypeOK, Counted, Told, Tells, Grip!vars
  <1>3. QED
    BY <1>1, <1>2 DEF Grip!Next

LEMMA GripperImplied ==
  ASSUME GripperIInv
  PROVE  Grip!GripperInv
  <1>1. Grip!TypeOK
    BY DEF GripperIInv, GripperTyped
  <1>2. Grip!ListsKeepTheirLength
    <2>1. \A t \in Publishers : at[t] = "compare" => Len(l2) >= 2
      BY Lengths DEF Grip!Listed
    <2>2. /\ Len(l1) = Grip!Window + Cardinality(In(at, {"slide"}))
          /\ Len(l2) = 1 + failures + Cardinality(In(at, Grip!Listed))
          /\ failures \in Nat
      BY Lengths DEF GripperIInv, Counted
    <2>3. In(at, {"slide"}) = {} => Len(l1) = Grip!Window
      <3>1. Len(l1) = 5 + Cardinality(In(at, {"slide"}))
        BY <2>2 DEF Grip!Window
      <3>2. QED
        BY <3>1, FS_EmptySet DEF Grip!Window
    <2>4. In(at, Grip!Listed) = {} => Len(l2) = 1 + failures
      BY <2>2, FS_EmptySet
    <2>5. QED
      BY <2>1, <2>3, <2>4 DEF Grip!ListsKeepTheirLength, In
  <1>3. Grip!ToldWhatIsListed
    BY DEF GripperIInv, Told, Grip!ToldWhatIsListed, In
  <1>4. QED
    BY <1>1, <1>2, <1>3 DEF Grip!GripperInv

\* However many publishers there are, whatever they send and however their callbacks
\* interleave, the lists of GUI2Robot_90.py keep their lengths, and the gripper was
\* told what l2 ends with.
THEOREM GripperHolds == Grip!Spec => []GripperInv
  <1>1. GripperIInv /\ [Grip!Next]_(Grip!vars) => GripperIInv'
    BY GripperStep
  <1>2. GripperIInv => GripperInv
    BY GripperImplied DEF GripperInv
  <1>3. QED
    BY GripperInitially, <1>1, <1>2, PTL DEF Grip!Spec

\* The same for what TLC runs, where the nodes of easy_handeye are at rest.
COROLLARY GripperHoldsBesideHandeye == MCSpec => []GripperInv
  <1>1. MCInit => GripperIInv
    BY GripperInitially DEF MCInit
  <1>2. [MCNext]_<<vars, gripper>> => [Grip!Next]_(Grip!vars)
    BY DEF MCNext, gripper, Grip!vars
  <1>3. GripperIInv /\ [MCNext]_<<vars, gripper>> => GripperIInv'
    BY <1>2, GripperStep
  <1>4. GripperIInv => GripperInv
    BY GripperImplied DEF GripperInv
  <1>5. QED
    BY <1>1, <1>3, <1>4, PTL DEF MCSpec
=============================================================================
