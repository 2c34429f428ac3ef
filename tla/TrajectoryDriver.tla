-------------------------- MODULE TrajectoryDriver --------------------------
(***************************************************************************)
(* The driver node: HKDriverNode (hk_driver_node.py) with its              *)
(* TrajectoryHandler and TrajectoryActionServer (trajectory_handler.py) on *)
(* top of one shared HKTcpClient.                                          *)
(*                                                                         *)
(* Workers are the threads that run execute_trajectory: rospy's receiving  *)
(* thread of every publisher of joint_path_command, which all use the      *)
(* node's handler, and the executor thread of the action server, which has *)
(* a handler of its own.  Main is the thread of the constructor, of spin   *)
(* and of the shutdown hook.  A worker calls the client with the Begin     *)
(* actions of HKTcpClient and goes on when pc[w] is "idle" again.          *)
(***************************************************************************)
EXTENDS HKTcpClient, FiniteSets

CONSTANTS
  Workers, Main,
  Handlers,        \* TrajectoryHandler objects
  HandlerOf,       \* the handler a worker runs
  Jobs,            \* trajectories that are published or sent as goals
  JobsOf,          \* those that reach a given worker
  Joints,          \* per trajectory, the number of joint values of each point
  InitAttempts,    \* max_attempts of the constructor's reconnect
  MaxAttempts      \* default max_attempts of reconnect

N(j) == Len(Joints[j])

ASSUME DriverAssumption ==
  /\ Procs = Workers \cup {Main} /\ Main \notin Workers
  /\ HandlerOf \in [Workers -> Handlers]
  /\ JobsOf \in [Workers -> SUBSET Jobs]
  /\ \A v, w \in Workers : v # w => JobsOf[v] \cap JobsOf[w] = {}
  /\ DOMAIN Joints = Jobs
  /\ \A j \in Jobs : Joints[j] \in Seq(Nat)
  /\ \A j \in Jobs : \A i \in 1..N(j) : <<j, i>> \in Lines
  /\ InitAttempts \in Nat \ {0} /\ MaxAttempts \in Nat \ {0}

VARIABLES
  at,         \* per thread: where it is in its own code
  job,        \* per worker: the trajectory being executed, or NoJob
  idx,        \* per worker: index of the current point
  executing,  \* per handler: self.executing
  up,         \* the constructor has finished
  shutdown,   \* rospy.is_shutdown()
  skipped,    \* history: points given up, as lines
  result      \* per trajectory: how its execution stands

handlerVars == <<at, job, idx, executing, up, shutdown, skipped, result>>
vars == <<clientVars, handlerVars>>

NoJob == <<>>
Ended == {"rejected", "succeeded", "interrupted", "failed", "raised"}
WorkerPoints ==
  {"idle", "begin", "loop", "point", "stop", "send", "reconnect", "resend"}
MainPoints   == {"start", "connect", "reconnect", "spin", "hook", "exited"}

Init ==
  /\ ClientInit
  /\ at = [p \in Procs |-> IF p = Main THEN "start" ELSE "idle"]
  /\ job = [w \in Workers |-> NoJob]
  /\ idx = [w \in Workers |-> 0]
  /\ executing = [h \in Handlers |-> FALSE]
  /\ up = FALSE /\ shutdown = FALSE /\ skipped = {}
  /\ result = [j \in Jobs |-> "none"]

\* p is at from, and the call it made there has ended with the outcome.
Answered(p, from, outcome) ==
  /\ at[p] = from
  /\ pc[p] = "idle" /\ ret[p] = outcome

Move(p, to) == at' = [at EXCEPT ![p] = to]

-----------------------------------------------------------------------------
\* The main thread: constructor, spin, shutdown hook.

MainStep(to) ==
  /\ Move(Main, to)
  /\ UNCHANGED <<job, idx, executing, skipped, result>>

NodeStart ==
  /\ at[Main] = "start"
  /\ BeginConnect(Main)
  /\ MainStep("connect")
  /\ UNCHANGED <<up, shutdown>>

NodeRetry ==
  /\ Answered(Main, "connect", "false")
  /\ BeginReconnect(Main, InitAttempts)
  /\ MainStep("reconnect")
  /\ UNCHANGED <<up, shutdown>>

\* Subscriber and action server are created: trajectories may come in.
NodeUp ==
  /\ \E from \in {"connect", "reconnect"} : Answered(Main, from, "true")
  /\ MainStep("spin")
  /\ up' = TRUE
  /\ UNCHANGED <<clientVars, shutdown>>

NodeGivesUp ==
  /\ Answered(Main, "reconnect", "false")
  /\ MainStep("exited")
  /\ UNCHANGED <<clientVars, up, shutdown>>

\* rospy runs the hook; whether it sets its flag before or after is left open.
NodeShutdown ==
  /\ at[Main] = "spin"
  /\ BeginDisconnect(Main)
  /\ MainStep("hook")
  /\ shutdown' \in BOOLEAN
  /\ UNCHANGED up

NodeStopped ==
  /\ Answered(Main, "hook", "true")
  /\ MainStep("exited")
  /\ shutdown' = TRUE
  /\ UNCHANGED <<clientVars, up>>

MainGoesOn == NodeStart \/ NodeRetry \/ NodeUp \/ NodeGivesUp \/ NodeStopped
MainNext   == MainGoesOn \/ NodeShutdown

-----------------------------------------------------------------------------
\* execute_trajectory.

Current(w) == <<job[w], idx[w]>>
Last(w) == N(job[w])
Flag(w) == executing[HandlerOf[w]]

\* Mutant: the execution is given up, but the loop goes on.
Leave_NoReturn(w, outcome) ==
  /\ job' = [job EXCEPT ![w] = NoJob]
  /\ idx' = [idx EXCEPT ![w] = 0]
  /\ result' = [result EXCEPT ![job[w]] = outcome]
  /\ UNCHANGED <<at, up, shutdown, skipped>>

\* The worker leaves execute_trajectory with this result.
Leave(w, outcome) ==
  /\ Move(w, "idle")
  /\ job' = [job EXCEPT ![w] = NoJob]
  /\ idx' = [idx EXCEPT ![w] = 0]
  /\ result' = [result EXCEPT ![job[w]] = outcome]
  /\ UNCHANGED <<up, shutdown, skipped>>

\* Mutant: executing is an attribute of the class, not of the object.
ReturnFrom_ClassFlag(w, outcome) ==
  /\ executing' = [h \in Handlers |-> FALSE]
  /\ Leave(w, outcome)

\* A return statement of the loop: it resets the handler's flag as well.
ReturnFrom(w, outcome) ==
  /\ executing' = [executing EXCEPT ![HandlerOf[w]] = FALSE]
  /\ Leave(w, outcome)

NextPoint(w) ==
  /\ Move(w, "loop")
  /\ idx' = [idx EXCEPT ![w] = @ + 1]
  /\ UNCHANGED <<job, executing, up, shutdown, result>>

StepTo(w, to) ==
  /\ Move(w, to)
  /\ UNCHANGED <<job, idx, executing, up, shutdown, skipped, result>>

\* Mutant: an execution starts without a connection.
Accept_Unchecked(w, j) ==
  /\ up /\ at[w] = "idle" /\ result[j] = "none"
  /\ Move(w, "begin")
  /\ job' = [job EXCEPT ![w] = j]
  /\ idx' = [idx EXCEPT ![w] = 1]
  /\ result' = [result EXCEPT ![j] = "running"]
  /\ UNCHANGED <<clientVars, executing, up, shutdown, skipped>>

\* A trajectory arrives: the callback of the topic or of the action server runs
\* execute_trajectory, which returns at once without a connection or a point.
Accept(w, j) ==
  /\ up /\ at[w] = "idle" /\ result[j] = "none"
  /\ \/ /\ ~connected \/ N(j) = 0
        /\ result' = [result EXCEPT ![j] = "rejected"]
        /\ UNCHANGED <<at, job, idx>>
     \/ /\ connected /\ N(j) > 0
        /\ Move(w, "begin")
        /\ job' = [job EXCEPT ![w] = j]
        /\ idx' = [idx EXCEPT ![w] = 1]
        /\ result' = [result EXCEPT ![j] = "running"]
  /\ UNCHANGED <<clientVars, executing, up, shutdown, skipped>>

Begin(w) ==
  /\ at[w] = "begin"
  /\ executing' = [executing EXCEPT ![HandlerOf[w]] = TRUE]
  /\ Move(w, "loop")
  /\ UNCHANGED <<clientVars, job, idx, up, shutdown, skipped, result>>

\* The test at the head of the loop and what follows it are separate steps: the
\* flags may change in between.
Continue(w) ==
  /\ at[w] = "loop" /\ idx[w] <= Last(w)
  /\ ~shutdown /\ Flag(w)
  /\ StepTo(w, "point")
  /\ UNCHANGED clientVars

Stop(w) ==
  /\ at[w] = "loop" /\ idx[w] <= Last(w)
  /\ shutdown \/ ~Flag(w)
  /\ StepTo(w, "stop")
  /\ UNCHANGED clientVars

Interrupted(w) ==
  /\ at[w] = "stop"
  /\ ReturnFrom(w, "interrupted")
  /\ UNCHANGED clientVars

\* continue: the wrong number of joint values.
SkipMalformed(w) ==
  /\ at[w] = "point"
  /\ Joints[job[w]][idx[w]] # 6
  /\ skipped' = skipped \cup {Current(w)}
  /\ NextPoint(w)
  /\ UNCHANGED clientVars

SendPoint(w) ==
  /\ at[w] = "point"
  /\ Joints[job[w]][idx[w]] = 6
  /\ BeginSend(w, Current(w), TRUE)
  /\ StepTo(w, "send")

PointSent(w) ==
  /\ \E from \in {"send", "resend"} : Answered(w, from, "true")
  /\ NextPoint(w)
  /\ UNCHANGED <<clientVars, skipped>>

Reconnect(w) ==
  /\ Answered(w, "send", "false")
  /\ BeginReconnect(w, MaxAttempts)
  /\ StepTo(w, "reconnect")

\* Mutant: the trajectory starts again after a reconnection.
Resend_FromStart(w) ==
  /\ Answered(w, "reconnect", "true")
  /\ Move(w, "loop")
  /\ idx' = [idx EXCEPT ![w] = 1]
  /\ UNCHANGED <<clientVars, job, executing, up, shutdown, skipped, result>>

\* Mutant: the point that failed is not sent again.
Resend_Forgotten(w) ==
  /\ Answered(w, "reconnect", "true")
  /\ NextPoint(w)
  /\ UNCHANGED <<clientVars, skipped>>

Resend(w) ==
  /\ Answered(w, "reconnect", "true")
  /\ BeginSend(w, Current(w), TRUE)
  /\ StepTo(w, "resend")

ReconnectFailed(w) ==
  /\ Answered(w, "reconnect", "false")
  /\ ReturnFrom(w, "failed")
  /\ UNCHANGED clientVars

\* continue: the retry failed as well.
SkipUnsent(w) ==
  /\ Answered(w, "resend", "false")
  /\ skipped' = skipped \cup {Current(w)}
  /\ NextPoint(w)
  /\ UNCHANGED clientVars

\* The client raised: nothing in execute_trajectory catches it, the caller
\* does, and the flag stays set.
Escape(w) ==
  /\ \E from \in {"send", "reconnect", "resend"} : Answered(w, from, "raised")
  /\ Leave(w, "raised")
  /\ UNCHANGED <<clientVars, executing>>

\* Mutant: the loop ends one point early.
Complete_Early(w) ==
  /\ at[w] = "loop" /\ idx[w] >= Last(w)
  /\ ReturnFrom(w, "succeeded")
  /\ UNCHANGED clientVars

Complete(w) ==
  /\ at[w] = "loop" /\ idx[w] > Last(w)
  /\ ReturnFrom(w, "succeeded")
  /\ UNCHANGED clientVars

WorkerNext(w) ==
  \/ Begin(w) \/ Continue(w) \/ Stop(w) \/ Interrupted(w) \/ Complete(w)
  \/ SkipMalformed(w) \/ SendPoint(w) \/ PointSent(w) \/ Reconnect(w)
  \/ Resend(w) \/ ReconnectFailed(w) \/ SkipUnsent(w) \/ Escape(w)

CallStep(p) == ClientStep(p) /\ UNCHANGED handlerVars

AtRest == \A p \in Procs : at[p] \in {"idle", "spin", "exited"} /\ pc[p] = "idle"

\* Nothing is left to do: every trajectory was handled, or the node is gone.
Done ==
  /\ AtRest /\ at[Main] = "exited"
  /\ up => \A j \in Jobs : result[j] # "none"
  /\ UNCHANGED vars

Next ==
  \/ MainNext
  \/ \E w \in Workers : WorkerNext(w)
  \/ \E w \in Workers : \E j \in JobsOf[w] : Accept(w, j)
  \/ \E p \in Procs : CallStep(p)
  \/ Done

Spec == Init /\ [][Next]_vars

\* Threads are scheduled, and every kernel call they make has a timeout.  What
\* the outside does (trajectories, shutdown requests) need not happen.
Fairness ==
  /\ \A p \in Procs : WF_vars(CallStep(p))
  /\ \A w \in Workers : WF_vars(WorkerNext(w))
  /\ WF_vars(MainGoesOn)

FairSpec == Spec /\ Fairness

-----------------------------------------------------------------------------
\* Properties.

\* Type invariant of the node, on top of that of the client.
TypeOK ==
  /\ ClientTypeOK
  /\ at \in [Procs -> WorkerPoints \cup MainPoints]
  /\ job \in [Workers -> Jobs \cup {NoJob}]
  /\ idx \in [Workers -> Nat]
  /\ executing \in [Handlers -> BOOLEAN]
  /\ up \in BOOLEAN /\ shutdown \in BOOLEAN
  /\ skipped \in SUBSET (Jobs \X Nat)
  /\ result \in [Jobs -> Ended \cup {"none", "running"}]
  /\ \A w \in Workers : at[w] \in WorkerPoints
  /\ \A w \in Workers : at[w] # "idle" => job[w] \in JobsOf[w]

\* Points of a trajectory that sendall accepted, and those given up.
SentPoints(j) == {i \in 1..N(j) : \E k \in 1..Len(wire) :
                                   wire[k].line = <<j, i>> /\ wire[k].ok}
GivenUp(j) == {i \in 1..N(j) : <<j, i>> \in skipped}

\* The node implements the delivery of trajectories that its users rely on,
\* for any number of workers on the shared connection.
Delivery == INSTANCE TrajectoryDelivery WITH
  Size  <- [j \in Jobs |-> N(j)],
  state <- result,
  sent  <- [j \in Jobs |-> SentPoints(j)],
  lost  <- [j \in Jobs |-> GivenUp(j)]
ImplementsDelivery == Delivery!DSpec

\* The points of one trajectory reach the wire in their order, and a point is
\* written again only after a write of it that failed: reconnecting in the
\* middle neither repeats a point nor goes back to an earlier one.
SentOnceInOrder ==
  \A k \in 1..Len(wire) : \A m \in (k+1)..Len(wire) :
    wire[k].line[1] = wire[m].line[1] =>
      \/ wire[k].line[2] < wire[m].line[2]
      \/ wire[k].line[2] = wire[m].line[2] /\ ~wire[k].ok

\* A trajectory reported as executed has no point that is missing without a
\* trace: each was either written whole or given up with an error in the log,
\* and never both.
SuccessAccountsForAll ==
  \A j \in Jobs :
    /\ result[j] = "succeeded" => SentPoints(j) \cup GivenUp(j) = 1..N(j)
    /\ SentPoints(j) \cap GivenUp(j) = {}

\* With one execution per handler object, "轨迹执行被中断" is reported only when
\* the node is shutting down: no other execution can stop this one.  Two
\* publishers of the topic share a handler and do stop each other.
InterruptedByShutdown ==
  \A j \in Jobs : result[j] = "interrupted" => shutdown

\* A driver that is at rest without a connection stays so: execute_trajectory
\* refuses every later trajectory before it would come to reconnect().
Cut == up /\ AtRest /\ ~connected
CutIsFinal == [](Cut => []~connected)

\* Every execution that began comes to an end, whatever the other threads do
\* to the connection meanwhile (or the node has stopped).
ExecutionEnds ==
  \A j \in Jobs :
    result[j] = "running" ~> result[j] \in Ended \/ at[Main] = "exited"

\* The shutdown hook gets the lock and returns.
HookReturns == at[Main] = "hook" ~> at[Main] = "exited"

\* Both: whoever has begun comes to its end, the executions and the hook, which
\* compete for one lock (send_joint_positions and disconnect).
ThreadsReturn == ExecutionEnds /\ HookReturns

\* A thread is under way in a call, or in its own code, where it does not wait for a
\* trajectory or for the end of the node.
UnderWay(p) == pc[p] # "idle" \/ at[p] \notin {"idle", "spin", "exited"}

\* Where it goes on: in a call anywhere but in front of a lock that is taken, as
\* every kernel call has a timeout; in its own code when it handles how the call
\* ended.  These are the states in which CallStep, WorkerNext and MainGoesOn have a
\* step.
AtLock(p)   == pc[p] \in {"lock", "disc"} /\ lock # {}
CallGoes(p) == pc[p] # "idle" /\ ~AtLock(p)
CodeGoes(p) ==
  /\ pc[p] = "idle"
  /\ \/ at[p] \in {"start", "begin", "loop", "point", "stop"}
     \/ at[p] \in {"connect", "send", "reconnect", "resend"} /\ ret[p] \in {"true", "false"}
     \/ at[p] \in {"send", "reconnect", "resend"} /\ p # Main /\ ret[p] = "raised"
     \/ at[p] = "hook" /\ ret[p] = "true"

\* Nobody is stuck: a thread that is under way goes on, or waits for the lock, and
\* the holder of the lock goes on.  No call ends in a way that its caller, be it
\* the constructor or the hook, does not handle.
NobodyStuck ==
  \A p \in Procs : UnderWay(p) =>
    \/ CallGoes(p) \/ CodeGoes(p)
    \/ AtLock(p) /\ \E q \in Procs : lock = {q} /\ CallGoes(q)

\* When all threads of a running node have come to rest, a set flag means a
\* usable connection, however their connects and disconnects overtook each
\* other: the next trajectory is not accepted for a socket that is gone or was
\* never connected.
RestingFlagUsable ==
  AtRest /\ at[Main] = "spin" /\ connected => sock # NoSock /\ conn[sock] = "open"

\* "节点关闭，断开连接" (hk_driver_node.py:87): once the shutdown hook has run,
\* the node is disconnected and writes nothing more to the robot.
SilentAfterShutdown ==
  [][up /\ at[Main] = "exited" => UNCHANGED wire]_vars
=============================================================================
