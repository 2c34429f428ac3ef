----------------------- MODULE TrajectoryDriver_proofs -----------------------
(***************************************************************************)
(* What the driver node guarantees for any number of publishers, handlers  *)
(* and trajectories, and for any number of network failures.  It rests on  *)
(* the theorems about HKTcpClient, which the node uses only through its    *)
(* operations (DriverUsesClient).                                          *)
(***************************************************************************)
EXTENDS TrajectoryDriver, HKTcpClient_proofs

-----------------------------------------------------------------------------
\* The node's own state.

\* The position of a worker: it runs one of its trajectories, and past the head
\* of the loop the index is that of a point.
WorkerOK(w) ==
  /\ at[w] \in WorkerPoints
  /\ at[w] # "idle" => job[w] \in JobsOf[w] /\ idx[w] \in 1..(N(job[w]) + 1)
  /\ at[w] \notin {"idle", "begin", "loop"} => idx[w] <= N(job[w])

NodeIInv ==
  /\ at \in [Procs -> WorkerPoints \cup MainPoints]
  /\ job \in [Workers -> Jobs \cup {NoJob}]
  /\ idx \in [Workers -> Nat]
  /\ executing \in [Handlers -> BOOLEAN]
  /\ up \in BOOLEAN /\ shutdown \in BOOLEAN
  /\ skipped \in SUBSET (Jobs \X Nat)
  /\ result \in [Jobs -> Ended \cup {"none", "running"}]
  /\ \A w \in Workers : WorkerOK(w)

LEMMA Constants ==
  /\ Procs = Workers \cup {Main} /\ Main \notin Workers
  /\ \A w \in Workers : HandlerOf[w] \in Handlers /\ JobsOf[w] \subseteq Jobs
  /\ \A j \in Jobs : N(j) \in Nat
  /\ \A j \in Jobs : \A i \in 1..N(j) : <<j, i>> \in Lines
  /\ InitAttempts \in Nat \ {0} /\ MaxAttempts \in Nat \ {0}
  <1>1. \A j \in Jobs : Joints[j] \in Seq(Nat)
    BY DriverAssumption
  <1>2. \A j \in Jobs : N(j) \in Nat
    BY <1>1 DEF N
  <1>3. QED
    BY <1>2, DriverAssumption

LEMMA NodeInit == Init => NodeIInv
  <1> SUFFICES ASSUME Init PROVE NodeIInv
    OBVIOUS
  <1>1. /\ at \in [Procs -> WorkerPoints \cup MainPoints]
        /\ \A w \in Workers : at[w] = "idle"
    BY Constants DEF Init, WorkerPoints, MainPoints
  <1>2. /\ job \in [Workers -> Jobs \cup {NoJob}]
        /\ idx \in [Workers -> Nat]
        /\ executing \in [Handlers -> BOOLEAN]
        /\ result \in [Jobs -> Ended \cup {"none", "running"}]
    BY DEF Init
  <1>3. up \in BOOLEAN /\ shutdown \in BOOLEAN /\ skipped \in SUBSET (Jobs \X Nat)
    BY DEF Init
  <1>4. \A w \in Workers : WorkerOK(w)
    BY <1>1 DEF WorkerOK, WorkerPoints
  <1>5. QED
    BY <1>1, <1>2, <1>3, <1>4 DEF NodeIInv

\* Worker w goes to another place in its code and nothing of another one moves.
LEMMA WorkerMoves ==
  ASSUME NodeIInv, NEW w \in Workers, NEW to \in WorkerPoints, Move(w, to),
         NEW f \in Jobs \cup {NoJob}, job' = [job EXCEPT ![w] = f],
         NEW n \in Nat, idx' = [idx EXCEPT ![w] = n],
         to # "idle" => f \in JobsOf[w] /\ n \in 1..(N(f) + 1),
         to \notin {"idle", "begin", "loop"} => n <= N(f)
  PROVE  /\ at' \in [Procs -> WorkerPoints \cup MainPoints]
         /\ job' \in [Workers -> Jobs \cup {NoJob}]
         /\ idx' \in [Workers -> Nat]
         /\ \A v \in Workers : WorkerOK(v)'
  <1>1. /\ at' \in [Procs -> WorkerPoints \cup MainPoints]
        /\ job' \in [Workers -> Jobs \cup {NoJob}]
        /\ idx' \in [Workers -> Nat]
    BY Constants DEF NodeIInv, Move
  <1>2. \A v \in Workers \ {w} : at'[v] = at[v] /\ job'[v] = job[v] /\ idx'[v] = idx[v]
    BY Constants DEF NodeIInv, Move
  <1>3. at'[w] = to /\ job'[w] = f /\ idx'[w] = n
    BY Constants DEF NodeIInv, Move
  <1>4. QED
    BY <1>1, <1>2, <1>3 DEF NodeIInv, WorkerOK

\* The point being executed has a line that the client accepts.
LEMMA CurrentLine ==
  ASSUME NodeIInv, NEW w \in Workers, at[w] # "idle", idx[w] <= Last(w)
  PROVE  /\ job[w] \in Jobs /\ idx[w] \in 1..N(job[w])
         /\ Current(w) \in Lines /\ Current(w) \in Jobs \X Nat
  BY Constants DEF NodeIInv, WorkerOK, Current, Last

LEMMA MainStepNode ==
  ASSUME NodeIInv, MainNext
  PROVE  NodeIInv'
  <1>1. PICK to \in MainPoints : MainStep(to)
    BY DEF MainNext, MainGoesOn, NodeStart, NodeRetry, NodeUp, NodeGivesUp, NodeShutdown,
           NodeStopped, MainPoints
  <1>2. up' \in BOOLEAN /\ shutdown' \in BOOLEAN
    BY DEF NodeIInv, MainNext, MainGoesOn, NodeStart, NodeRetry, NodeUp, NodeGivesUp, NodeShutdown,
           NodeStopped
  <1>3. /\ at' \in [Procs -> WorkerPoints \cup MainPoints]
        /\ \A v \in Workers : at'[v] = at[v]
    BY <1>1, Constants DEF NodeIInv, MainStep, Move
  <1>4. UNCHANGED <<job, idx, executing, skipped, result>>
    BY <1>1 DEF MainStep
  <1>5. QED
    BY <1>2, <1>3, <1>4 DEF NodeIInv, WorkerOK

LEMMA WorkerStepNode ==
  ASSUME NodeIInv, NEW w \in Workers, WorkerNext(w)
  PROVE  NodeIInv'
  <1> USE DEF WorkerPoints
  <1>0. /\ at[w] # "idle" /\ job[w] \in JobsOf[w] /\ job[w] \in Jobs
        /\ idx[w] \in 1..(Last(w) + 1) /\ Last(w) \in Nat
    BY Constants DEF WorkerNext, Begin, Continue, Stop, Interrupted, SkipMalformed, SendPoint,
       PointSent, Reconnect, Resend, ReconnectFailed, SkipUnsent, Escape, Complete, Answered,
       NodeIInv, WorkerOK, Last
  <1>1. ASSUME NEW outcome \in Ended, Leave(w, outcome),
               executing' \in [Handlers -> BOOLEAN]
        PROVE  NodeIInv'
    <2>1. /\ at' \in [Procs -> WorkerPoints \cup MainPoints]
          /\ job' \in [Workers -> Jobs \cup {NoJob}]
          /\ idx' \in [Workers -> Nat]
          /\ \A v \in Workers : WorkerOK(v)'
      BY <1>1, WorkerMoves DEF Leave
    <2>2. result' \in [Jobs -> Ended \cup {"none", "running"}]
      BY <1>1 DEF Leave, NodeIInv
    <2>3. up' \in BOOLEAN /\ shutdown' \in BOOLEAN /\ skipped' \in SUBSET (Jobs \X Nat)
      BY <1>1 DEF Leave, NodeIInv
    <2>4. QED
      BY <1>1, <2>1, <2>2, <2>3 DEF NodeIInv
  <1>2. ASSUME NEW outcome \in Ended, ReturnFrom(w, outcome)
        PROVE  NodeIInv'
    <2>1. executing' \in [Handlers -> BOOLEAN]
      BY <1>2 DEF ReturnFrom, NodeIInv
    <2>2. QED
      BY <1>1, <1>2, <2>1 DEF ReturnFrom
  <1>3. ASSUME NextPoint(w), idx[w] <= Last(w), skipped' \in SUBSET (Jobs \X Nat)
        PROVE  NodeIInv'
    <2>1. job' = [job EXCEPT ![w] = job[w]]
      BY <1>3 DEF NextPoint, NodeIInv
    <2>2. idx' = [idx EXCEPT ![w] = idx[w] + 1]
      BY <1>3 DEF NextPoint
    <2>3. idx[w] + 1 \in Nat /\ idx[w] + 1 \in 1..(N(job[w]) + 1)
      BY <1>0, <1>3 DEF Last
    <2>4. /\ at' \in [Procs -> WorkerPoints \cup MainPoints]
          /\ job' \in [Workers -> Jobs \cup {NoJob}]
          /\ idx' \in [Workers -> Nat]
          /\ \A v \in Workers : WorkerOK(v)'
      BY <1>0, <1>3, <2>1, <2>2, <2>3, WorkerMoves DEF NextPoint
    <2>5. QED
      BY <1>3, <2>4 DEF NextPoint, NodeIInv
  <1>4. ASSUME NEW to \in WorkerPoints \ {"idle", "begin", "loop"}, StepTo(w, to),
               idx[w] <= Last(w)
        PROVE  NodeIInv'
    <2>1. job' = [job EXCEPT ![w] = job[w]] /\ idx' = [idx EXCEPT ![w] = idx[w]]
      BY <1>4 DEF StepTo, NodeIInv
    <2>2. idx[w] \in Nat /\ idx[w] \in 1..(N(job[w]) + 1) /\ idx[w] <= N(job[w])
      BY <1>0, <1>4 DEF Last
    <2>4. /\ at' \in [Procs -> WorkerPoints \cup MainPoints]
          /\ job' \in [Workers -> Jobs \cup {NoJob}]
          /\ idx' \in [Workers -> Nat]
          /\ \A v \in Workers : WorkerOK(v)'
      BY <1>0, <1>4, <2>1, <2>2, WorkerMoves DEF StepTo
    <2>5. QED
      BY <1>4, <2>4 DEF StepTo, NodeIInv
  <1>5. ASSUME idx[w] <= Last(w)
        PROVE  skipped \cup {Current(w)} \in SUBSET (Jobs \X Nat)
    BY <1>0, <1>5, CurrentLine DEF NodeIInv
  <1>6. CASE Interrupted(w)
    BY <1>2, <1>6 DEF Interrupted, Ended
  <1>7. at[w] \notin {"begin", "loop"} => idx[w] <= Last(w)
    BY <1>0 DEF NodeIInv, WorkerOK, Last
  <1>8. CASE SkipMalformed(w)
    BY <1>3, <1>5, <1>7, <1>8 DEF SkipMalformed
  <1>9. CASE Continue(w) \/ Stop(w)
    BY <1>4, <1>9 DEF Continue, Stop
  <1>10. CASE PointSent(w) \/ SkipUnsent(w)
    <2>1. idx[w] <= Last(w) /\ NextPoint(w)
      BY <1>7, <1>10 DEF PointSent, SkipUnsent, Answered
    <2>2. skipped' \in SUBSET (Jobs \X Nat)
      BY <1>5, <1>10, <2>1 DEF PointSent, SkipUnsent, NodeIInv
    <2>3. QED
      BY <1>3, <2>1, <2>2
  <1>11. CASE SendPoint(w) \/ Reconnect(w) \/ Resend(w)
    BY <1>4, <1>7, <1>11 DEF SendPoint, Reconnect, Resend, Answered
  <1>12. CASE ReconnectFailed(w)
    BY <1>2, <1>12 DEF ReconnectFailed, Ended
  <1>13. CASE Escape(w)
    BY <1>1, <1>13 DEF Escape, Ended, NodeIInv
  <1>14. CASE Complete(w)
    BY <1>2, <1>14 DEF Complete, Ended
  <1>15. CASE Begin(w)
    <2>1. job' = [job EXCEPT ![w] = job[w]] /\ idx' = [idx EXCEPT ![w] = idx[w]]
      BY <1>15 DEF Begin, NodeIInv
    <2>2. /\ at' \in [Procs -> WorkerPoints \cup MainPoints]
          /\ job' \in [Workers -> Jobs \cup {NoJob}]
          /\ idx' \in [Workers -> Nat]
          /\ \A v \in Workers : WorkerOK(v)'
      <3>1. idx[w] \in Nat /\ idx[w] \in 1..(N(job[w]) + 1) /\ Move(w, "loop")
        BY <1>0, <1>15 DEF Begin, Last
      <3>2. QED
        BY <1>0, <2>1, <3>1, WorkerMoves
    <2>3. executing' \in [Handlers -> BOOLEAN]
      BY <1>15 DEF Begin, NodeIInv
    <2>4. QED
      BY <1>15, <2>2, <2>3 DEF Begin, NodeIInv
  <1>16. QED
    BY <1>6, <1>8, <1>9, <1>10, <1>11, <1>12, <1>13, <1>14, <1>15 DEF WorkerNext

LEMMA AcceptNode ==
  ASSUME NodeIInv, NEW w \in Workers, NEW j \in JobsOf[w], Accept(w, j)
  PROVE  NodeIInv'
  <1>1. j \in Jobs /\ N(j) \in Nat
    BY Constants
  <1>2. UNCHANGED <<executing, up, shutdown, skipped>>
    BY DEF Accept
  <1>3. CASE /\ result' = [result EXCEPT ![j] = "rejected"]
             /\ UNCHANGED <<at, job, idx>>
    <2>1. result' \in [Jobs -> Ended \cup {"none", "running"}]
      BY <1>1, <1>3 DEF NodeIInv, Ended
    <2>2. \A v \in Workers : WorkerOK(v)'
      BY <1>3 DEF NodeIInv, WorkerOK
    <2>3. QED
      BY <1>2, <1>3, <2>1, <2>2 DEF NodeIInv
  <1>4. CASE /\ N(j) > 0
             /\ Move(w, "begin")
             /\ job' = [job EXCEPT ![w] = j]
             /\ idx' = [idx EXCEPT ![w] = 1]
             /\ result' = [result EXCEPT ![j] = "running"]
    <2>1. /\ at' \in [Procs -> WorkerPoints \cup MainPoints]
          /\ job' \in [Workers -> Jobs \cup {NoJob}]
          /\ idx' \in [Workers -> Nat]
          /\ \A v \in Workers : WorkerOK(v)'
      <3>1. 1 \in 1..(N(j) + 1)
        BY <1>1
      <3>2. "begin" \in WorkerPoints \ {"idle"}
        BY DEF WorkerPoints
      <3>3. QED
        BY <1>1, <1>4, <3>1, <3>2, WorkerMoves
    <2>2. result' \in [Jobs -> Ended \cup {"none", "running"}]
      BY <1>1, <1>4 DEF NodeIInv
    <2>3. QED
      BY <1>2, <2>1, <2>2 DEF NodeIInv
  <1>5. QED
    BY <1>3, <1>4 DEF Accept

LEMMA NodeStep == NodeIInv /\ [Next]_vars => NodeIInv'
  <1> SUFFICES ASSUME NodeIInv, [Next]_vars PROVE NodeIInv'
    OBVIOUS
  <1>1. CASE MainNext
    BY <1>1, MainStepNode
  <1>2. ASSUME NEW w \in Workers, WorkerNext(w) PROVE NodeIInv'
    BY <1>2, WorkerStepNode
  <1>3. ASSUME NEW w \in Workers, NEW j \in JobsOf[w], Accept(w, j) PROVE NodeIInv'
    BY <1>3, AcceptNode
  <1>4. CASE UNCHANGED handlerVars
    BY <1>4 DEF handlerVars, NodeIInv, WorkerOK
  <1>5. QED
    BY <1>1, <1>2, <1>3, <1>4 DEF Next, Done, CallStep, vars

THEOREM NodeTyped == Spec => []NodeIInv
  BY NodeInit, NodeStep, PTL DEF Spec

-----------------------------------------------------------------------------
\* The node and the client.

\* Every step of the node is a step of the client, or one the client does not
\* notice: what is proved of HKTcpClient holds of it inside the node.
LEMMA ClientInside == NodeIInv /\ [Next]_vars => [ClientNext]_clientVars
  <1> SUFFICES ASSUME NodeIInv, Next, clientVars' # clientVars
               PROVE  ClientNext
    BY DEF vars
  <1>1. CASE MainNext
    <2>1. Main \in Procs /\ (ClientCall(Main) => ClientNext)
      BY Constants DEF ClientNext
    <2>2. CASE NodeStart \/ NodeShutdown
      BY <2>1, <2>2 DEF NodeStart, NodeShutdown, ClientCall
    <2>3. CASE NodeRetry
      BY <2>1, <2>3, Constants DEF NodeRetry, ClientCall
    <2>4. QED
      BY <1>1, <2>2, <2>3 DEF MainNext, MainGoesOn, NodeUp, NodeGivesUp, NodeStopped
  <1>2. ASSUME NEW w \in Workers, WorkerNext(w) PROVE ClientNext
    <2>1. w \in Procs /\ (ClientCall(w) => ClientNext)
      BY Constants DEF ClientNext
    <2>2. ASSUME BeginSend(w, Current(w), TRUE), at[w] # "idle", idx[w] <= Last(w)
          PROVE  ClientNext
      BY <2>1, <2>2, CurrentLine DEF ClientCall
    <2>3. CASE SendPoint(w)
      BY <2>2, <2>3 DEF SendPoint, NodeIInv, WorkerOK, Last
    <2>4. CASE Resend(w)
      BY <2>2, <2>4 DEF Resend, Answered, NodeIInv, WorkerOK, Last
    <2>5. CASE Reconnect(w)
      BY <2>1, <2>5, Constants DEF Reconnect, ClientCall
    <2>6. QED
      BY <1>2, <2>3, <2>4, <2>5
      DEF WorkerNext, Begin, Continue, Stop, Interrupted, SkipMalformed, PointSent,
         ReconnectFailed, SkipUnsent,
          Escape, Complete
  <1>3. ASSUME NEW p \in Procs, CallStep(p) PROVE ClientNext
    BY <1>3 DEF CallStep, ClientNext
  <1>4. QED
    BY <1>1, <1>2, <1>3 DEF Next, Accept, Done, vars

\* The node uses the client only through its operations.
THEOREM DriverUsesClient == Spec => ClientSpec
  <1>1. Init => ClientInit
    BY DEF Init
  <1>2. QED
    BY <1>1, ClientInside, NodeTyped, PTL DEF Spec, ClientSpec

\* All variables of the node stay well typed.
THEOREM DriverTyped == Spec => []TypeOK
  <1>1. ClientTypeOK /\ NodeIInv => TypeOK
    BY DEF NodeIInv, WorkerOK, TypeOK
  <1>2. QED
    BY <1>1, NodeTyped, DriverUsesClient, ClientTyped, PTL

\* The lock works in the node, for any number of workers.
THEOREM DriverLocked == Spec => []LockDiscipline
  BY DriverUsesClient, ClientLocked, PTL

\* No reconnection closes the socket under a send of another worker.
THEOREM DriverNeverClosedInUse == Spec => NeverClosedInUse
  BY DriverUsesClient, ClientNeverClosedInUse, PTL

-----------------------------------------------------------------------------
\* A cut connection.

\* The worker threads are at rest and refuse what comes in; Main can at most
\* run the shutdown hook, which does not connect either.
CutOff ==
  /\ up /\ ~connected
  /\ \A w \in Workers : at[w] = "idle" /\ pc[w] = "idle"
  /\ \/ at[Main] \in {"idle", "spin", "hook", "exited"} /\ pc[Main] = "idle"
     \/ /\ at[Main] = "hook" /\ op[Main] = "disconnect"
        /\ pc[Main] \in {"disc", "closing", "dropping", "clearing"}

LEMMA CutIsOff == NodeIInv /\ Cut => CutOff
  BY Constants DEF Cut, AtRest, CutOff, NodeIInv, WorkerOK, WorkerPoints

LEMMA CutStep == ClientTypeOK /\ NodeIInv /\ CutOff /\ [Next]_vars => CutOff'
  <1> SUFFICES ASSUME ClientTypeOK, NodeIInv, CutOff, [Next]_vars PROVE CutOff'
    OBVIOUS
  <1>0. Main \in Procs /\ Main \notin Workers /\ Workers \subseteq Procs
    BY Constants
  <1>1. CASE MainNext
    <2>1. CASE NodeShutdown
      <3>1. /\ at' = [at EXCEPT ![Main] = "hook"]
            /\ pc' = [pc EXCEPT ![Main] = "disc"]
            /\ op' = [op EXCEPT ![Main] = "disconnect"]
            /\ UNCHANGED <<up, connected>>
        BY <2>1 DEF NodeShutdown, MainStep, Move, BeginDisconnect, Start, shared
      <3>2. QED
        BY <1>0, <3>1 DEF CutOff, ClientTypeOK, NodeIInv
    <2>2. CASE NodeStopped
      <3>1. /\ at' = [at EXCEPT ![Main] = "exited"]
            /\ UNCHANGED <<up, connected, pc, op>> /\ pc[Main] = "idle"
        BY <2>2 DEF NodeStopped, MainStep, Move, Answered, clientVars
      <3>2. QED
        BY <1>0, <3>1 DEF CutOff, NodeIInv
    <2>3. QED
      BY <1>1, <2>1, <2>2
      DEF MainNext, MainGoesOn, NodeStart, NodeRetry, NodeUp, NodeGivesUp, Answered, CutOff
  <1>2. ASSUME NEW w \in Workers, WorkerNext(w) PROVE FALSE
    BY <1>2 DEF CutOff, WorkerNext, Begin, Continue, Stop, Interrupted, SkipMalformed,
       SendPoint, PointSent,
       Reconnect, Resend, ReconnectFailed, SkipUnsent, Escape, Complete, Answered
  <1>3. ASSUME NEW w \in Workers, NEW j \in JobsOf[w], Accept(w, j) PROVE CutOff'
    <2>1. UNCHANGED <<at, up, connected, pc, op>>
      BY <1>3 DEF Accept, CutOff, clientVars
    <2>2. QED
      BY <2>1 DEF CutOff
  <1>4. ASSUME NEW p \in Procs, CallStep(p) PROVE CutOff'
    <2>1. pc[p] # "idle"
      BY <1>4 DEF CallStep, ClientStep, UseSocket, SendOk, SendError, ReceiveEnds,
         ReceiveError, DisconnectLock, DisconnectClose, DisconnectDrop, DisconnectEnd,
         ConnectCreate, ConnectStart, ConnectOk, ConnectError, ConnectMark, ConnectReady, Goto
    <2>2. /\ p = Main /\ op[p] = "disconnect"
          /\ pc[p] \in {"disc", "closing", "dropping", "clearing"}
      BY <2>1, Constants DEF CutOff
    <2>3. \/ DisconnectLock(p) \/ DisconnectClose(p)
          \/ DisconnectDrop(p) \/ DisconnectEnd(p)
      BY <1>4, <2>2 DEF CallStep, ClientStep, UseSocket, SendOk, SendError, ReceiveEnds,
         ReceiveError, ConnectCreate, ConnectStart, ConnectOk, ConnectError,
         ConnectMark, ConnectReady, Goto
    <2>4. UNCHANGED <<at, up>> /\ connected' \in {connected, FALSE}
      BY <1>4, <2>3 DEF CallStep, handlerVars, DisconnectLock, DisconnectClose,
         DisconnectDrop, DisconnectEnd
    <2>5. \/ /\ op' = op
             /\ \E to \in {"closing", "dropping", "clearing"} : pc' = [pc EXCEPT ![Main] = to]
          \/ pc' = [pc EXCEPT ![Main] = "idle"]
      BY <2>2, <2>3 DEF DisconnectLock, DisconnectClose, DisconnectDrop, DisconnectEnd,
         Goto, Return
    <2>6. \A w \in Workers : pc'[w] = pc[w]
      BY <1>0, <2>5 DEF ClientTypeOK
    <2>7. at[Main] = "hook"
      BY <2>1, <2>2 DEF CutOff
    <2>8. \/ op'[Main] = "disconnect" /\ pc'[Main] \in {"closing", "dropping", "clearing"}
          \/ pc'[Main] = "idle"
      BY <1>0, <2>2, <2>5 DEF ClientTypeOK
    <2>9. ~connected'
      BY <2>4 DEF CutOff
    <2>10. QED
      BY <2>4, <2>6, <2>7, <2>8, <2>9 DEF CutOff
  <1>5. CASE UNCHANGED vars
    BY <1>5 DEF vars, clientVars, handlerVars, CutOff
  <1>6. QED
    BY <1>1, <1>2, <1>3, <1>4, <1>5 DEF Next, Done

\* Once the threads of a running node are at rest without a connection, no
\* trajectory that arrives ever brings the connection back.
THEOREM DriverCutIsFinal == Spec => CutIsFinal
  <1>1. CutOff => ~connected
    BY DEF CutOff
  <1>2. QED
    BY <1>1, CutIsOff, CutStep, NodeTyped, DriverUsesClient, ClientTyped, PTL
    DEF Spec, CutIsFinal

-----------------------------------------------------------------------------
\* The delivery of trajectories.

\* The lines that were written, and those that were written whole.
Tried == {wire[k].line : k \in 1..Len(wire)}
Whole == {wire[k].line : k \in {n \in 1..Len(wire) : wire[n].ok}}

\* The send of w's current point has been answered with True.
Accepted(w) == at[w] \in {"send", "resend"} /\ pc[w] = "idle" /\ ret[w] = "true"

\* The call that a thread is in fits its place in the code.
CallFits(w) ==
  /\ at[w] \in {"idle", "begin", "loop", "point", "stop"} => pc[w] = "idle"
  /\ at[w] \in {"send", "resend"} => op[w] \in {"none", "send"}
  /\ at[w] = "reconnect" => op[w] \in {"none", "reconnect"}
  /\ op[w] = "send" => line[w] = Current(w)

\* w executes trajectory j: the points before the current one are settled, the
\* ones after it untouched, and the current one is on the wire, whole, exactly
\* when the client has said so.
Executes(w, j) ==
  /\ result[j] = "running"
  /\ \A i \in 1..N(j) :
       /\ i < idx[w] => <<j, i>> \in Whole \cup skipped
       /\ i > idx[w] => <<j, i>> \notin Tried \cup skipped
       /\ i = idx[w] => /\ <<j, i>> \notin skipped
                        /\ <<j, i>> \in Whole <=> Accepted(w)
                        /\ at[w] \in {"begin", "loop", "point", "stop"} => <<j, i>> \notin Tried

\* What is known of a trajectory by its result.
Accounted(j) ==
  /\ result[j] = "none" => \A i \in 1..N(j) : <<j, i>> \notin Tried \cup skipped
  /\ result[j] = "succeeded" => \A i \in 1..N(j) : <<j, i>> \in Whole \cup skipped
  /\ \A i \in 1..N(j) : <<j, i>> \notin Whole \cap skipped

Progress ==
  /\ \A w \in Workers : CallFits(w)
  /\ op[Main] # "send"
  /\ \A w \in Workers : \A j \in Jobs : at[w] # "idle" /\ job[w] = j => Executes(w, j)
  /\ \A j \in Jobs : Accounted(j)
  /\ Tried \subseteq {l \in Jobs \X Nat : l[2] \in 1..N(l[1])}
  /\ SentOnceInOrder

LEMMA ProgressInit == Init => Progress
  <1> SUFFICES ASSUME Init PROVE Progress
    OBVIOUS
  <1>1. wire = <<>> /\ Len(wire) = 0
    BY DEF Init, ClientInit
  <1>2. Tried = {} /\ Whole = {} /\ SentOnceInOrder
    BY <1>1 DEF Tried, Whole, SentOnceInOrder
  <1>3. /\ \A w \in Workers : at[w] = "idle"
        /\ \A p \in Procs : pc[p] = "idle" /\ op[p] = "none"
        /\ \A j \in Jobs : result[j] = "none"
        /\ skipped = {}
    BY Constants DEF Init, ClientInit
  <1>4. QED
    BY <1>2, <1>3, Constants DEF Progress, CallFits, Accounted

\* What a write adds to the two sets.
LEMMA Written ==
  ASSUME ClientTypeOK, NEW p \in Procs, NEW ok \in BOOLEAN, Put(p, ok)
  PROVE  /\ Tried' = Tried \cup {line[p]}
         /\ Whole' = IF ok THEN Whole \cup {line[p]} ELSE Whole
         /\ Whole \subseteq Tried
         /\ Len(wire') = Len(wire) + 1
         /\ \A k \in 1..Len(wire) : wire'[k] = wire[k]
         /\ wire'[Len(wire) + 1].line = line[p] /\ wire'[Len(wire) + 1].ok = ok
  <1> DEFINE e == [sock |-> hold[p], line |-> line[p], ok |-> ok]
  <1>1. wire' = Append(wire, e) /\ Len(wire) \in Nat
    BY DEF Put, ClientTypeOK
  <1>2. /\ Len(wire') = Len(wire) + 1
        /\ \A k \in 1..Len(wire) : wire'[k] = wire[k]
        /\ wire'[Len(wire) + 1] = e
    BY <1>1 DEF ClientTypeOK
  <1>3. e.line = line[p] /\ e.ok = ok
    OBVIOUS
  <1> HIDE DEF e
  <1>4. 1..Len(wire') = 1..Len(wire) \cup {Len(wire) + 1}
    BY <1>1, <1>2
  <1>5. Tried' = Tried \cup {line[p]}
    BY <1>1, <1>2, <1>3, <1>4 DEF Tried
  <1>6. Whole' = IF ok THEN Whole \cup {line[p]} ELSE Whole
    BY <1>1, <1>2, <1>3, <1>4 DEF Whole
  <1>7. QED
    BY <1>2, <1>3, <1>5, <1>6 DEF Whole, Tried

LEMMA WholeTried == Whole \subseteq Tried
  BY DEF Whole, Tried

\* Two workers never execute the same trajectory.
LEMMA Distinct ==
  ASSUME NodeIInv, NEW v \in Workers, NEW w \in Workers, v # w,
         at[v] # "idle", at[w] # "idle"
  PROVE  job[v] # job[w]
  BY DriverAssumption DEF NodeIInv, WorkerOK

\* Frame: v is not touched, and neither are its points.
LEMMA CallFitsKept ==
  ASSUME NEW v \in Workers, CallFits(v), at'[v] = at[v], job'[v] = job[v],
         idx'[v] = idx[v], pc'[v] = pc[v], op'[v] = op[v], line'[v] = line[v]
  PROVE  CallFits(v)'
  BY DEF CallFits, Current

LEMMA ExecutesKept ==
  ASSUME NEW v \in Workers, NEW j \in Jobs, Executes(v, j),
         at'[v] = at[v], idx'[v] = idx[v], pc'[v] = pc[v], ret'[v] = ret[v],
         result'[j] = result[j],
         \A i \in 1..N(j) : /\ <<j, i>> \in Whole' <=> <<j, i>> \in Whole
                            /\ <<j, i>> \in Tried' <=> <<j, i>> \in Tried
                            /\ <<j, i>> \in skipped' <=> <<j, i>> \in skipped
  PROVE  Executes(v, j)'
  BY DEF Executes, Accepted

LEMMA AccountedKept ==
  ASSUME NEW j \in Jobs, Accounted(j), result'[j] = result[j],
         \A i \in 1..N(j) : /\ <<j, i>> \in Whole' <=> <<j, i>> \in Whole
                            /\ <<j, i>> \in Tried' <=> <<j, i>> \in Tried
                            /\ <<j, i>> \in skipped' <=> <<j, i>> \in skipped
  PROVE  Accounted(j)'
  BY DEF Accounted

\* A step of w that writes nothing: what has to be shown for w itself and for
\* the one trajectory t that it touches.
LEMMA QuietStep ==
  ASSUME NodeIInv, Progress, NEW w \in Workers, NEW t \in Jobs, wire' = wire,
         Alone(w),
         \A v \in Workers \ {w} : at'[v] = at[v] /\ job'[v] = job[v] /\ idx'[v] = idx[v],
         CallFits(w)',
         \A j \in Jobs : at'[w] # "idle" /\ job'[w] = j => Executes(w, j)',
         \A j \in Jobs \ {t} :
            /\ result'[j] = result[j]
            /\ \A i \in 1..N(j) : <<j, i>> \in skipped' <=> <<j, i>> \in skipped,
         Accounted(t)',
         \A v \in Workers \ {w} : at[v] # "idle" => job[v] # t
  PROVE  Progress'
  <1>1. Whole' = Whole /\ Tried' = Tried /\ SentOnceInOrder'
    BY DEF Whole, Tried, Progress, SentOnceInOrder
  <1>2. w \in Procs \ {Main} /\ \A v \in Workers \ {w} : v \in Procs
    BY Constants
  <1>3. op'[Main] # "send"
    BY <1>2, Constants DEF Alone, Progress
  <1>4. \A v \in Workers : CallFits(v)'
    BY <1>2, CallFitsKept DEF Alone, Progress
  <1>5. ASSUME NEW v \in Workers, NEW j \in Jobs, at'[v] # "idle", job'[v] = j
        PROVE  Executes(v, j)'
    <2>1. CASE v = w
      BY <1>5, <2>1
    <2>2. CASE v # w
      <3>1. Executes(v, j) /\ j # t
        BY <1>5, <2>2 DEF Progress
      <3>2. QED
        BY <1>1, <1>2, <1>5, <2>2, <3>1, ExecutesKept DEF Alone
    <2>3. QED
      BY <2>1, <2>2
  <1>6. ASSUME NEW j \in Jobs PROVE Accounted(j)'
    BY <1>1, AccountedKept DEF Progress
  <1>7. QED
    BY <1>1, <1>3, <1>4, <1>5, <1>6 DEF Progress

LEMMA ProgressMain ==
  ASSUME NodeIInv, ClientTypeOK, Progress, MainNext
  PROVE  Progress'
  <1>0. Main \in Procs /\ Main \notin Workers /\ Workers \subseteq Procs
    BY Constants
  <1>1. PICK to : MainStep(to)
    BY DEF MainNext, MainGoesOn, NodeStart, NodeRetry, NodeUp, NodeGivesUp, NodeShutdown,
       NodeStopped
  <1>2. \A v \in Workers : at'[v] = at[v] /\ job'[v] = job[v] /\ idx'[v] = idx[v]
    BY <1>0, <1>1 DEF MainStep, Move, NodeIInv
  <1>3. skipped' = skipped /\ result' = result
    BY <1>1 DEF MainStep
  <1>4. Alone(Main) /\ wire' = wire /\ op'[Main] # "send"
    <2>1. CASE NodeUp \/ NodeGivesUp \/ NodeStopped
      BY <2>1 DEF NodeUp, NodeGivesUp, NodeStopped, clientVars, Alone, Progress
    <2>2. CASE NodeStart \/ NodeRetry \/ NodeShutdown
      BY <1>0, <2>2, OtherEffect DEF NodeStart, NodeRetry, NodeShutdown
    <2>3. QED
      BY <2>1, <2>2 DEF MainNext, MainGoesOn
  <1>5. Whole' = Whole /\ Tried' = Tried /\ SentOnceInOrder'
    BY <1>4 DEF Whole, Tried, Progress, SentOnceInOrder
  <1>6. \A v \in Workers : CallFits(v)'
    BY <1>0, <1>2, <1>4, CallFitsKept DEF Alone, Progress
  <1>7. ASSUME NEW v \in Workers, NEW j \in Jobs, at'[v] # "idle", job'[v] = j
        PROVE  Executes(v, j)'
    <2>1. Executes(v, j)
      BY <1>2, <1>7 DEF Progress
    <2>2. QED
      BY <1>0, <1>2, <1>3, <1>4, <1>5, <2>1, ExecutesKept DEF Alone
  <1>8. \A j \in Jobs : Accounted(j)'
    BY <1>3, <1>5, AccountedKept DEF Progress
  <1>9. QED
    BY <1>4, <1>5, <1>6, <1>7, <1>8 DEF Progress

LEMMA ProgressAccept ==
  ASSUME NodeIInv, ClientTypeOK, CallPoints, Progress, NEW w \in Workers, NEW j \in JobsOf[w],
         Accept(w, j)
  PROVE  Progress'
  <1>0. /\ j \in Jobs /\ w \in Procs /\ at[w] = "idle" /\ result[j] = "none"
        /\ UNCHANGED <<clientVars, up, shutdown, skipped>>
    BY Constants DEF Accept
  <1>1. wire' = wire /\ Whole' = Whole /\ Tried' = Tried /\ Alone(w) /\ pc' = pc /\ op' = op
    BY <1>0 DEF clientVars, Whole, Tried, Alone
  <1>2. \A v \in Workers : at[v] # "idle" => job[v] # j
    BY <1>0 DEF Progress, Executes
  <1>3. CASE /\ result' = [result EXCEPT ![j] = "rejected"]
             /\ UNCHANGED <<at, job, idx>>
    <2>1. \A v \in Workers : CallFits(v)'
      BY <1>0, <1>3, CallFitsKept DEF Progress, clientVars
    <2>2. ASSUME NEW v \in Workers, NEW k \in Jobs, at'[v] # "idle", job'[v] = k
          PROVE  Executes(v, k)'
      <3>1. Executes(v, k) /\ k # j
        BY <1>2, <1>3, <2>2 DEF Progress
      <3>2. result'[k] = result[k]
        BY <1>3, <3>1 DEF NodeIInv
      <3>3. QED
        BY <1>0, <1>1, <1>3, <3>1, <3>2, ExecutesKept DEF clientVars
    <2>3. ASSUME NEW k \in Jobs PROVE Accounted(k)'
      <3>1. CASE k # j
        <4>1. result'[k] = result[k]
          BY <1>3, <3>1 DEF NodeIInv
        <4>2. QED
          BY <1>0, <1>1, <4>1, AccountedKept DEF Progress
      <3>2. CASE k = j
        <4>1. result'[k] = "rejected"
          BY <1>0, <1>3, <3>2 DEF NodeIInv
        <4>2. QED
          BY <1>0, <1>1, <4>1 DEF Accounted, Progress
      <3>3. QED
        BY <3>1, <3>2
    <2>4. QED
      BY <1>0, <1>1, <2>1, <2>2, <2>3 DEF Progress, SentOnceInOrder
  <1>4. CASE /\ N(j) > 0
             /\ Move(w, "begin")
             /\ job' = [job EXCEPT ![w] = j]
             /\ idx' = [idx EXCEPT ![w] = 1]
             /\ result' = [result EXCEPT ![j] = "running"]
    <2>1. /\ at'[w] = "begin" /\ job'[w] = j /\ idx'[w] = 1
          /\ \A v \in Workers \ {w} : at'[v] = at[v] /\ job'[v] = job[v] /\ idx'[v] = idx[v]
          /\ result'[j] = "running" /\ \A k \in Jobs \ {j} : result'[k] = result[k]
      BY <1>0, <1>4, Constants DEF Move, NodeIInv
    <2>2. pc[w] = "idle" /\ op[w] = "none" /\ pc'[w] = "idle" /\ op'[w] = "none"
      BY <1>0, <1>1 DEF Progress, CallFits, CallPoints
    <2>3. CallFits(w)'
      BY <2>1, <2>2 DEF CallFits
    <2>4. \A i \in 1..N(j) : <<j, i>> \notin Tried \cup skipped
      BY <1>0 DEF Progress, Accounted
    <2>5. Executes(w, j)'
      BY <1>0, <1>1, <2>1, <2>4, WholeTried DEF Executes, Accepted
    <2>6. Accounted(j)'
      BY <1>0, <1>1, <2>1, <2>4, WholeTried DEF Accounted
    <2>7. QED
      BY <1>0, <1>1, <1>2, <2>1, <2>3, <2>5, <2>6, QuietStep
  <1>5. QED
    BY <1>3, <1>4 DEF Accept

\* What is known of a worker that is not idle.
LEMMA Running ==
  ASSUME NodeIInv, Progress, NEW w \in Workers, at[w] # "idle"
  PROVE  /\ w \in Procs /\ job[w] \in Jobs /\ N(job[w]) \in Nat
         /\ idx[w] \in 1..(N(job[w]) + 1)
         /\ at[w] \notin {"begin", "loop"} => idx[w] \in 1..N(job[w])
         /\ Executes(w, job[w]) /\ Accounted(job[w]) /\ CallFits(w)
         /\ \A v \in Workers \ {w} : at[v] # "idle" => job[v] # job[w]
  BY Constants, Distinct DEF NodeIInv, WorkerOK, WorkerPoints, Progress

\* The worker leaves execute_trajectory.
LEMMA ProgressLeave ==
  ASSUME NodeIInv, ClientTypeOK, CallPoints, Progress, NEW w \in Workers,
         at[w] # "idle", pc[w] = "idle", UNCHANGED clientVars,
         NEW outcome \in Ended, Leave(w, outcome),
         outcome = "succeeded" => idx[w] > N(job[w])
  PROVE  Progress'
  <1>0. PICK t \in Jobs : t = job[w]
    BY Running
  <1>1. /\ at'[w] = "idle" /\ result'[t] = outcome /\ skipped' = skipped
        /\ \A j \in Jobs \ {t} : result'[j] = result[j]
        /\ \A v \in Workers \ {w} : at'[v] = at[v] /\ job'[v] = job[v] /\ idx'[v] = idx[v]
    BY <1>0, Running, Constants DEF Leave, Move, NodeIInv
  <1>2. /\ wire' = wire /\ Alone(w) /\ Whole' = Whole /\ Tried' = Tried
        /\ pc'[w] = "idle" /\ op'[w] = "none"
    BY <1>0, Running DEF clientVars, Alone, Whole, Tried, CallPoints
  <1>3. CallFits(w)'
    BY <1>0, <1>1, <1>2 DEF CallFits
  <1>4. Accounted(t)'
    <2>1. outcome = "succeeded" => \A i \in 1..N(t) : <<t, i>> \in Whole \cup skipped
      BY <1>0, Running DEF Executes
    <2>2. QED
      BY <1>0, <1>1, <1>2, <2>1, Running DEF Accounted, Ended
  <1>5. QED
    BY <1>0, <1>1, <1>2, <1>3, <1>4, Running, QuietStep

\* The loop goes on to the next point.
LEMMA ProgressNext ==
  ASSUME NodeIInv, ClientTypeOK, CallPoints, Progress, NEW w \in Workers,
         at[w] # "idle", idx[w] <= N(job[w]), pc[w] = "idle", UNCHANGED clientVars,
         NextPoint(w),
         \/ skipped' = skipped /\ Current(w) \in Whole
         \/ skipped' = skipped \cup {Current(w)} /\ Current(w) \notin Whole
  PROVE  Progress'
  <1>0. PICK t \in Jobs : t = job[w]
    BY Running
  <1>1. /\ at'[w] = "loop" /\ job'[w] = t /\ idx'[w] = idx[w] + 1 /\ result' = result
        /\ \A v \in Workers \ {w} : at'[v] = at[v] /\ job'[v] = job[v] /\ idx'[v] = idx[v]
    BY <1>0, Running, Constants DEF NextPoint, Move, NodeIInv
  <1>2. /\ wire' = wire /\ Alone(w) /\ Whole' = Whole /\ Tried' = Tried
        /\ pc'[w] = "idle" /\ op'[w] = "none"
    BY <1>0, Running DEF clientVars, Alone, Whole, Tried, CallPoints
  <1>3. CallFits(w)'
    BY <1>0, <1>1, <1>2 DEF CallFits
  <1>4. Current(w) = <<t, idx[w]>> /\ idx[w] \in 1..N(t) /\ t \in Jobs
    BY <1>0, Running DEF Current
  <1>5. \A j \in Jobs : \A i \in 1..N(j) :
          <<j, i>> \in skipped' <=>
            \/ <<j, i>> \in skipped
            \/ j = t /\ i = idx[w] /\ Current(w) \notin Whole
    BY <1>0, <1>4, Running DEF Executes
  <1>6. Executes(w, t)'
    <2>1. result[t] = "running"
      BY <1>0, Running DEF Executes
    <2>2. ASSUME NEW i \in 1..N(t), i < idx[w] + 1
          PROVE  <<t, i>> \in Whole \cup skipped'
      <3>1. CASE i = idx[w]
        BY <1>0, <1>4, <1>5, <3>1
      <3>2. CASE i < idx[w]
        BY <1>0, <1>4, <1>5, <3>2, Running DEF Executes
      <3>3. QED
        BY <1>0, <1>4, <2>2, <3>1, <3>2
    <2>3. ASSUME NEW i \in 1..N(t), i >= idx[w] + 1
          PROVE  <<t, i>> \notin Tried \cup skipped'
      <3>1. i > idx[w] /\ i # idx[w]
        BY <1>0, <1>4, <2>3
      <3>2. QED
        BY <1>0, <1>4, <1>5, <3>1, Running DEF Executes
    <2>4. \A i \in 1..N(t) : i > idx[w] + 1 \/ i = idx[w] + 1 => i >= idx[w] + 1
      BY <1>0, <1>4
    <2>5. QED
      BY <1>0, <1>1, <1>2, <2>1, <2>2, <2>3, <2>4, WholeTried DEF Executes, Accepted
  <1>7. Accounted(t)'
    BY <1>0, <1>1, <1>2, <1>4, <1>5, Running DEF Accounted, Executes
  <1>8. \A j \in Jobs \ {t} : \A i \in 1..N(j) : <<j, i>> \in skipped' <=> <<j, i>> \in skipped
    BY <1>0, <1>5
  <1>9. QED
    BY <1>0, <1>1, <1>2, <1>3, <1>4, <1>6, <1>7, <1>8, Running, QuietStep

\* The worker begins a call for the current point.
LEMMA ProgressCall ==
  ASSUME NodeIInv, ClientTypeOK, CallPoints, Progress, NEW w \in Workers,
         NEW to \in {"send", "reconnect", "resend"},
         at[w] # "idle", idx[w] <= N(job[w]), ~Accepted(w), StepTo(w, to),
         wire' = wire, Alone(w), ~(pc'[w] = "idle" /\ ret'[w] = "true"),
         \/ op'[w] = "none"
         \/ op'[w] = "send" /\ to \in {"send", "resend"} /\ line'[w] = Current(w)
         \/ op'[w] = "reconnect" /\ to = "reconnect"
  PROVE  Progress'
  <1>0. PICK t \in Jobs : t = job[w]
    BY Running
  <1>1. /\ at'[w] = to /\ job'[w] = t /\ idx'[w] = idx[w] /\ result' = result
        /\ skipped' = skipped
        /\ \A v \in Workers \ {w} : at'[v] = at[v] /\ job'[v] = job[v] /\ idx'[v] = idx[v]
    BY <1>0, Running, Constants DEF StepTo, Move, NodeIInv
  <1>2. Whole' = Whole /\ Tried' = Tried
    BY DEF Whole, Tried
  <1>3. CallFits(w)'
    BY <1>0, <1>1 DEF CallFits, Current
  <1>4. Executes(w, t)'
    BY <1>0, <1>1, <1>2, Running DEF Executes, Accepted
  <1>5. Accounted(t)'
    BY <1>0, <1>1, <1>2, Running DEF Accounted
  <1>6. QED
    BY <1>0, <1>1, <1>3, <1>4, <1>5, Running, QuietStep

\* The beginning, and the test at the head of the loop.
LEMMA ProgressTest ==
  ASSUME NodeIInv, ClientTypeOK, CallPoints, Progress, NEW w \in Workers,
         NEW to \in {"loop", "point", "stop"}, at[w] \in {"begin", "loop"}, Move(w, to),
         UNCHANGED <<clientVars, job, idx, skipped, result>>
  PROVE  Progress'
  <1>0. PICK t \in Jobs : t = job[w]
    BY Running
  <1>1. /\ at'[w] = to /\ job'[w] = t /\ idx'[w] = idx[w] /\ result' = result
        /\ skipped' = skipped
        /\ \A v \in Workers \ {w} : at'[v] = at[v] /\ job'[v] = job[v] /\ idx'[v] = idx[v]
    BY <1>0, Running, Constants DEF Move, NodeIInv
  <1>2. /\ wire' = wire /\ Alone(w) /\ Whole' = Whole /\ Tried' = Tried
        /\ pc'[w] = "idle" /\ op'[w] = "none"
    BY Running DEF clientVars, Alone, Whole, Tried, CallPoints, CallFits
  <1>3. CallFits(w)'
    BY <1>1, <1>2 DEF CallFits
  <1>4. Executes(w, t)'
    BY <1>0, <1>1, <1>2, Running DEF Executes, Accepted
  <1>5. Accounted(t)'
    BY <1>0, <1>1, <1>2, Running DEF Accounted
  <1>6. QED
    BY <1>0, <1>1, <1>2, <1>3, <1>4, <1>5, Running, QuietStep

LEMMA ProgressWorker ==
  ASSUME NodeIInv, ClientTypeOK, CallPoints, Progress, NEW w \in Workers, WorkerNext(w)
  PROVE  Progress'
  <1>0. at[w] # "idle"
    BY DEF WorkerNext, Begin, Continue, Stop, Interrupted, SkipMalformed, SendPoint,
       PointSent, Reconnect,
       Resend, ReconnectFailed, SkipUnsent, Escape, Complete, Answered
  <1>1. /\ w \in Procs /\ job[w] \in Jobs /\ N(job[w]) \in Nat
        /\ idx[w] \in 1..(N(job[w]) + 1)
        /\ at[w] \notin {"begin", "loop"} => idx[w] \in 1..N(job[w])
        /\ at[w] \in {"begin", "loop", "point", "stop"} => pc[w] = "idle"
    BY <1>0, Running DEF CallFits
  <1>2. Current(w) = <<job[w], idx[w]>>
    BY DEF Current
  <1>3. CASE Interrupted(w) \/ ReconnectFailed(w) \/ Escape(w) \/ Complete(w)
    <2>1. pc[w] = "idle" /\ UNCHANGED clientVars
      BY <1>1, <1>3 DEF Interrupted, ReconnectFailed, Escape, Complete, Answered
    <2>2. CASE Complete(w)
      <3>1. Leave(w, "succeeded") /\ idx[w] > N(job[w]) /\ "succeeded" \in Ended
        BY <2>2 DEF Complete, ReturnFrom, Ended, Last
      <3>2. QED
        BY <1>0, <2>1, <3>1, ProgressLeave
    <2>3. CASE ~Complete(w)
      <3>1. PICK outcome \in Ended \ {"succeeded"} : Leave(w, outcome)
        BY <1>3, <2>3 DEF Interrupted, ReconnectFailed, Escape, ReturnFrom, Ended
      <3>2. QED
        BY <1>0, <2>1, <3>1, ProgressLeave
    <2>4. QED
      BY <2>2, <2>3
  <1>4. CASE SkipMalformed(w)
    <2>1. /\ at[w] = "point" /\ NextPoint(w) /\ UNCHANGED clientVars
          /\ skipped' = skipped \cup {Current(w)}
      BY <1>4 DEF SkipMalformed
    <2>2. Current(w) \notin Whole
      BY <1>0, <1>1, <1>2, <2>1, Running, WholeTried DEF Executes
    <2>3. QED
      BY <1>0, <1>1, <2>1, <2>2, ProgressNext
  <1>5. CASE PointSent(w) \/ SkipUnsent(w)
    <2>1. at[w] \in {"send", "resend"} /\ pc[w] = "idle" /\ NextPoint(w) /\ UNCHANGED clientVars
      BY <1>5 DEF PointSent, SkipUnsent, Answered
    <2>2. \/ skipped' = skipped /\ Accepted(w)
          \/ skipped' = skipped \cup {Current(w)} /\ ~Accepted(w)
      BY <1>5 DEF PointSent, SkipUnsent, Answered, Accepted
    <2>3. Accepted(w) <=> Current(w) \in Whole
      BY <1>0, <1>1, <1>2, <2>1, Running DEF Executes
    <2>4. QED
      BY <1>0, <1>1, <2>1, <2>2, <2>3, ProgressNext
  <1>6. CASE SendPoint(w) \/ Resend(w)
    <2>1. PICK to \in {"send", "resend"} : BeginSend(w, Current(w), TRUE) /\ StepTo(w, to)
      BY <1>6 DEF SendPoint, Resend
    <2>2. at[w] \in {"point", "reconnect"}
      BY <1>6 DEF SendPoint, Resend, Answered
    <2>5. idx[w] <= N(job[w])
      BY <1>1, <2>2
    <2>6. ~Accepted(w)
      BY <2>2 DEF Accepted
    <2>3. /\ Alone(w) /\ wire' = wire
          /\ \/ op'[w] = "send" /\ ret'[w] = "none" /\ line'[w] = Current(w)
             \/ op'[w] = "none" /\ ret'[w] = "false"
      BY <1>1, <2>1, SendEffect
    <2>4. QED
      BY <1>0, <2>1, <2>3, <2>5, <2>6, ProgressCall
  <1>7. CASE Reconnect(w)
    <2>1. BeginReconnect(w, MaxAttempts) /\ StepTo(w, "reconnect")
      BY <1>7 DEF Reconnect
    <2>2. at[w] = "send" /\ ret[w] = "false"
      BY <1>7 DEF Reconnect, Answered
    <2>5. idx[w] <= N(job[w])
      BY <1>1, <2>2
    <2>6. ~Accepted(w)
      BY <2>2 DEF Accepted
    <2>3. /\ Alone(w) /\ wire' = wire /\ op'[w] = "reconnect" /\ ret'[w] # "true"
      BY <1>1, <2>1, OtherEffect
    <2>4. QED
      BY <1>0, <2>1, <2>3, <2>5, <2>6, ProgressCall
  <1>8. CASE Begin(w) \/ Continue(w) \/ Stop(w)
    BY <1>8, ProgressTest DEF Begin, Continue, Stop, StepTo
  <1>9. QED
    BY <1>3, <1>4, <1>5, <1>6, <1>7, <1>8 DEF WorkerNext

\* A step inside a call that writes nothing.
LEMMA ProgressQuiet ==
  ASSUME NodeIInv, ClientTypeOK, CallPoints, Progress, NEW p \in Procs, CallStep(p),
         wire' = wire
  PROVE  Progress'
  <1>1. /\ ClientStep(p) /\ at' = at /\ job' = job /\ idx' = idx /\ result' = result
        /\ skipped' = skipped
    BY DEF CallStep, handlerVars
  <1>2. pc[p] # "idle" /\ Alone(p) /\ (CallGoesOn(p) \/ CallReturns(p))
    BY <1>1, StepEffect
  <1>3. Whole' = Whole /\ Tried' = Tried /\ SentOnceInOrder'
    BY DEF Whole, Tried, Progress, SentOnceInOrder
  <1>4. op'[p] \in {"none", op[p]} /\ (op'[p] # "none" => line'[p] = line[p])
    BY <1>2 DEF CallGoesOn, CallReturns
  <1>5. pc'[p] = "idle" /\ op[p] = "send" => ret'[p] # "true"
    <2>1. \A ok \in BOOLEAN : ~Put(p, ok)
      BY Written DEF ClientTypeOK
    <2>2. QED
      BY <1>2, <2>1 DEF CallGoesOn, CallReturns
  <1>6. op'[Main] # "send"
    BY <1>2, <1>4, Constants DEF Alone, Progress
  <1>7. ASSUME NEW v \in Workers PROVE CallFits(v)'
    <2>1. CASE v # p
      BY <1>1, <1>2, <2>1, Constants, CallFitsKept DEF Alone, Progress
    <2>2. CASE v = p
      <3>1. CallFits(v) /\ at[v] \notin {"idle", "begin", "loop", "point", "stop"}
        BY <1>2, <2>2 DEF Progress, CallFits
      <3>2. QED
        BY <1>1, <1>4, <2>2, <3>1 DEF CallFits, Current
    <2>3. QED
      BY <2>1, <2>2
  <1>8. ASSUME NEW v \in Workers, NEW j \in Jobs, at'[v] # "idle", job'[v] = j
        PROVE  Executes(v, j)'
    <2>1. Executes(v, j)
      BY <1>1, <1>8 DEF Progress
    <2>2. CASE v # p
      BY <1>1, <1>2, <1>3, <2>1, <2>2, Constants, ExecutesKept DEF Alone
    <2>3. CASE v = p
      <3>1. ~Accepted(v)
        BY <1>2, <2>3 DEF Accepted
      <3>2. ~Accepted(v)'
        <4>1. at[v] \in {"send", "resend"} => op[v] = "send"
          BY <1>2, <2>3 DEF Progress, CallFits, CallPoints
        <4>2. QED
          BY <1>1, <1>5, <2>3, <4>1 DEF Accepted
      <3>3. QED
        BY <1>1, <1>3, <2>1, <3>1, <3>2 DEF Executes
    <2>4. QED
      BY <2>2, <2>3
  <1>9. \A j \in Jobs : Accounted(j)'
    BY <1>1, <1>3, AccountedKept DEF Progress
  <1>10. QED
    BY <1>3, <1>6, <1>7, <1>8, <1>9 DEF Progress

\* The step in which sendall wrote the current point, or a part of it.
LEMMA ProgressWrite ==
  ASSUME NodeIInv, ClientTypeOK, CallPoints, Progress, NEW p \in Procs, CallStep(p),
         op[p] = "send", NEW ok \in BOOLEAN, Put(p, ok),
         pc'[p] = "idle", op'[p] = "none", ok <=> ret'[p] = "true"
  PROVE  Progress'
  <1>1. /\ ClientStep(p) /\ at' = at /\ job' = job /\ idx' = idx /\ result' = result
        /\ skipped' = skipped
    BY DEF CallStep, handlerVars
  <1>2. pc[p] # "idle" /\ Alone(p)
    BY <1>1, StepEffect
  <1>3. p \in Workers /\ line[p] = Current(p) /\ at[p] \in {"send", "resend"}
    <2>1. p \in Workers
      BY Constants DEF Progress
    <2>2. CallFits(p) /\ at[p] \in WorkerPoints
      BY <2>1 DEF Progress, NodeIInv, WorkerOK
    <2>3. QED
      BY <1>2, <2>1, <2>2 DEF CallFits, WorkerPoints
  <1>4. PICK t \in Jobs, n \in 1..N(job[p]) :
          t = job[p] /\ n = idx[p] /\ Executes(p, t) /\ line[p] = <<t, n>>
    BY <1>3, Running DEF Current
  <1>5. N(t) \in Nat /\ n \in 1..N(t) /\ n \in Nat
    BY <1>4, Constants
  <1>6. <<t, n>> \notin skipped /\ <<t, n>> \notin Whole
    <2>1. ~Accepted(p)
      BY <1>2 DEF Accepted
    <2>2. QED
      BY <1>4, <1>5, <2>1 DEF Executes
  <1>7. Tried' = Tried \cup {<<t, n>>} /\ Whole' = IF ok THEN Whole \cup {<<t, n>>} ELSE Whole
    BY <1>4, Written
  <1>8. SentOnceInOrder'
    <2>1. \A k \in 1..Len(wire) : wire[k].line[1] = t =>
             wire[k].line[2] < n \/ (wire[k].line[2] = n /\ ~wire[k].ok)
      <3> SUFFICES ASSUME NEW k \in 1..Len(wire), wire[k].line[1] = t
                   PROVE  wire[k].line[2] < n \/ (wire[k].line[2] = n /\ ~wire[k].ok)
        OBVIOUS
      <3>1. wire[k].line \in Tried /\ (wire[k].ok => wire[k].line \in Whole)
        BY DEF Tried, Whole
      <3>2. PICK i \in 1..N(t) : wire[k].line = <<t, i>>
        BY <3>1 DEF Progress
      <3>3. ~(i > n)
        BY <1>4, <3>1, <3>2 DEF Executes
      <3>4. i = n => ~wire[k].ok
        BY <1>6, <3>1, <3>2
      <3>5. i < n \/ i = n
        BY <1>5, <3>3
      <3>6. wire[k].line[2] = i
        BY <3>2
      <3>7. CASE i < n
        BY <3>6, <3>7
      <3>8. CASE i = n
        BY <3>4, <3>6, <3>8
      <3>9. QED
        BY <3>5, <3>7, <3>8
    <2>2. Len(wire) \in Nat
      BY DEF ClientTypeOK
    <2>3. /\ Len(wire') = Len(wire) + 1
          /\ \A k \in 1..Len(wire) : wire'[k] = wire[k]
          /\ wire'[Len(wire) + 1].line = <<t, n>>
      BY <1>4, Written
    <2>4. SUFFICES ASSUME NEW k \in 1..Len(wire'), NEW m \in (k+1)..Len(wire'),
                          wire'[k].line[1] = wire'[m].line[1]
                   PROVE  \/ wire'[k].line[2] < wire'[m].line[2]
                          \/ wire'[k].line[2] = wire'[m].line[2] /\ ~wire'[k].ok
      BY DEF SentOnceInOrder
    <2>5. k \in 1..Len(wire)
      BY <2>2, <2>3
    <2>6. CASE m \in 1..Len(wire)
      <3>1. wire'[k] = wire[k] /\ wire'[m] = wire[m] /\ wire[k].line[1] = wire[m].line[1]
        BY <2>3, <2>4, <2>5, <2>6
      <3>2. m \in (k+1)..Len(wire)
        BY <2>2, <2>6
      <3>3. \/ wire[k].line[2] < wire[m].line[2]
            \/ wire[k].line[2] = wire[m].line[2] /\ ~wire[k].ok
        BY <2>5, <3>1, <3>2 DEF Progress, SentOnceInOrder
      <3>4. QED
        BY <3>1, <3>3
    <2>7. CASE m = Len(wire) + 1
      <3>1. wire'[k] = wire[k] /\ wire'[m].line[1] = t /\ wire'[m].line[2] = n
        BY <2>3, <2>5, <2>7
      <3>2. wire[k].line[1] = t
        BY <2>4, <3>1
      <3>3. wire[k].line[2] < n \/ (wire[k].line[2] = n /\ ~wire[k].ok)
        BY <2>1, <2>5, <3>2
      <3>4. QED
        BY <3>1, <3>3
    <2>8. QED
      BY <2>2, <2>3, <2>6, <2>7
  <1>9. \A v \in Workers : CallFits(v)'
    <2>1. CallFits(p)'
      BY <1>1, <1>3 DEF CallFits
    <2>2. \A v \in Workers \ {p} : CallFits(v)'
      BY <1>1, <1>2, Constants, CallFitsKept DEF Alone, Progress
    <2>3. QED
      BY <2>1, <2>2
  <1>10. ASSUME NEW v \in Workers, NEW j \in Jobs, at'[v] # "idle", job'[v] = j
         PROVE  Executes(v, j)'
    <2>1. Executes(v, j)
      BY <1>1, <1>10 DEF Progress
    <2>2. CASE v # p
      <3>1. j # t
        BY <1>1, <1>3, <1>4, <1>10, <2>2, Running
      <3>2. QED
        BY <1>1, <1>2, <1>7, <2>1, <2>2, <3>1, Constants, ExecutesKept DEF Alone
    <2>3. CASE v = p
      <3>1. j = t /\ at'[p] \in {"send", "resend"} /\ idx'[p] = n /\ result'[t] = "running"
        BY <1>1, <1>3, <1>4, <1>10, <2>3 DEF Executes
      <3>2. Accepted(p)' <=> ok
        BY <3>1 DEF Accepted
      <3>3. \A i \in 1..N(t) : i < n => <<t, i>> \in Whole' \cup skipped'
        BY <1>1, <1>4, <1>7 DEF Executes
      <3>4. \A i \in 1..N(t) : i > n => <<t, i>> \notin Tried' \cup skipped'
        BY <1>1, <1>4, <1>5, <1>7 DEF Executes
      <3>5. <<t, n>> \notin skipped' /\ (<<t, n>> \in Whole' <=> ok)
        BY <1>1, <1>6, <1>7
      <3>6. QED
        BY <2>3, <3>1, <3>2, <3>3, <3>4, <3>5 DEF Executes
    <2>4. QED
      BY <2>2, <2>3
  <1>11. ASSUME NEW j \in Jobs PROVE Accounted(j)'
    <2>1. CASE j # t
      BY <1>1, <1>7, <2>1, AccountedKept DEF Progress
    <2>2. CASE j = t
      <3>1. result'[t] = "running"
        BY <1>1, <1>4 DEF Executes
      <3>2. \A i \in 1..N(t) : <<t, i>> \notin Whole' \cap skipped'
        BY <1>1, <1>6, <1>7 DEF Progress, Accounted
      <3>3. QED
        BY <2>2, <3>1, <3>2 DEF Accounted
    <2>3. QED
      BY <2>1, <2>2
  <1>12. Tried' \subseteq {l \in Jobs \X Nat : l[2] \in 1..N(l[1])}
    BY <1>5, <1>7 DEF Progress
  <1>13. op'[Main] # "send"
    BY <1>2, <1>3, Constants DEF Alone, Progress
  <1>14. QED
    BY <1>8, <1>9, <1>10, <1>11, <1>12, <1>13 DEF Progress

LEMMA ProgressStep ==
  NodeIInv /\ ClientTypeOK /\ CallPoints /\ Progress /\ [Next]_vars => Progress'
  <1> SUFFICES ASSUME NodeIInv, ClientTypeOK, CallPoints, Progress, [Next]_vars
               PROVE  Progress'
    OBVIOUS
  <1>1. CASE MainNext
    BY <1>1, ProgressMain
  <1>2. ASSUME NEW w \in Workers, WorkerNext(w) PROVE Progress'
    BY <1>2, ProgressWorker
  <1>3. ASSUME NEW w \in Workers, NEW j \in JobsOf[w], Accept(w, j) PROVE Progress'
    BY <1>3, ProgressAccept
  <1>4. ASSUME NEW p \in Procs, CallStep(p) PROVE Progress'
    <2>1. CallGoesOn(p) \/ CallReturns(p)
      BY <1>4, StepEffect DEF CallStep
    <2>2. CASE wire' = wire
      BY <1>4, <2>2, ProgressQuiet
    <2>3. CASE wire' # wire
      <3>1. op[p] = "send" /\ pc'[p] = "idle" /\ op'[p] = "none"
        BY <2>1, <2>3 DEF CallGoesOn, CallReturns
      <3>2. PICK ok \in BOOLEAN : Put(p, ok) /\ (ok <=> ret'[p] = "true")
        BY <2>1, <2>3 DEF CallGoesOn, CallReturns
      <3>3. QED
        BY <1>4, <3>1, <3>2, ProgressWrite
    <2>4. QED
      BY <2>2, <2>3
  <1>5. CASE UNCHANGED vars
    <2> USE <1>5 DEF vars, clientVars, handlerVars
    <2>1. Whole' = Whole /\ Tried' = Tried /\ SentOnceInOrder'
      BY DEF Whole, Tried, Progress, SentOnceInOrder
    <2>2. \A w \in Workers : CallFits(w)'
      BY CallFitsKept DEF Progress
    <2>3. \A w \in Workers : \A j \in Jobs : Executes(w, j) => Executes(w, j)'
      BY <2>1, ExecutesKept
    <2>4. \A j \in Jobs : Accounted(j)'
      BY <2>1, AccountedKept DEF Progress
    <2>5. QED
      BY <2>1, <2>2, <2>3, <2>4 DEF Progress
  <1>6. QED
    BY <1>1, <1>2, <1>3, <1>4, <1>5 DEF Next, Done

LEMMA Progresses == Spec => []Progress
  BY ProgressInit, ProgressStep, NodeTyped, DriverUsesClient, ClientTyped, ClientCalls, PTL
  DEF Spec

\* No reconnection, by whatever worker, repeats a point that was written or
\* goes back to an earlier one.
THEOREM DriverSendsInOrder == Spec => []SentOnceInOrder
  <1>1. Progress => SentOnceInOrder
    BY DEF Progress
  <1>2. QED
    BY <1>1, Progresses, PTL

\* A trajectory that is reported as executed has every point written or given
\* up, whatever happened to the connection meanwhile.
THEOREM DriverAccountsForAll == Spec => []SuccessAccountsForAll
  <1>1. Progress => SuccessAccountsForAll
    <2> SUFFICES ASSUME Progress, NEW j \in Jobs
                 PROVE  /\ result[j] = "succeeded" => SentPoints(j) \cup GivenUp(j) = 1..N(j)
                        /\ SentPoints(j) \cap GivenUp(j) = {}
      BY DEF SuccessAccountsForAll
    <2>1. \A i \in 1..N(j) : i \in SentPoints(j) <=> <<j, i>> \in Whole
      BY DEF SentPoints, Whole
    <2>2. \A i \in 1..N(j) : i \in GivenUp(j) <=> <<j, i>> \in skipped
      BY DEF GivenUp
    <2>3. SentPoints(j) \subseteq 1..N(j) /\ GivenUp(j) \subseteq 1..N(j)
      BY DEF SentPoints, GivenUp
    <2>4. Accounted(j)
      BY DEF Progress
    <2>5. QED
      BY <2>1, <2>2, <2>3, <2>4 DEF Accounted
  <1>2. QED
    BY <1>1, Progresses, PTL

-----------------------------------------------------------------------------
\* The node implements the delivery of trajectories.

SentOf == [j \in Jobs |-> SentPoints(j)]
LostOf == [j \in Jobs |-> GivenUp(j)]
SizeOf == [j \in Jobs |-> N(j)]

LEMMA PointSets ==
  \A j \in Jobs :
    /\ SentOf[j] = {i \in 1..N(j) : <<j, i>> \in Whole}
    /\ LostOf[j] = {i \in 1..N(j) : <<j, i>> \in skipped}
    /\ SizeOf[j] = N(j)
  BY DEF SentOf, LostOf, SizeOf, SentPoints, GivenUp, Whole

\* A step that moves one trajectory on and delivers nothing.
LEMMA Moves ==
  ASSUME NodeIInv, NEW t \in Jobs, NEW from, NEW to, result[t] = from,
         result' = [result EXCEPT ![t] = to], wire' = wire, skipped' = skipped
  PROVE  Delivery!Becomes(t, from, to)
  BY DEF Delivery!Becomes, SentPoints, GivenUp

LEMMA RefInit == Init => Delivery!DInit
  <1> SUFFICES ASSUME Init PROVE Delivery!DInit
    OBVIOUS
  <1>1. Len(wire) = 0 /\ skipped = {} /\ result = [j \in Jobs |-> "none"]
    BY DEF Init, ClientInit
  <1>2. \A j \in Jobs : SentPoints(j) = {} /\ GivenUp(j) = {}
    BY <1>1 DEF SentPoints, GivenUp
  <1>3. QED
    BY <1>1, <1>2 DEF Delivery!DInit

\* The current point of a worker whose send has not been answered is the one
\* whose turn it is.
LEMMA CurrentDue ==
  ASSUME NodeIInv, Progress, NEW w \in Workers, at[w] # "idle", idx[w] <= N(job[w]),
         ~Accepted(w)
  PROVE  Delivery!Due(job[w], idx[w])
  <1>1. PICK t \in Jobs : t = job[w]
    BY Running
  <1>2. PICK n \in 1..N(t) : n = idx[w]
    BY <1>1, Running
  <1>3. N(t) \in Nat /\ result[t] = "running"
    BY <1>1, Running, Constants DEF Executes
  <1>4. \A i \in 1..N(t) : <<t, i>> \in Whole \cup skipped <=> i < n
    <2>1. Executes(w, t)
      BY <1>1, Running
    <2>2. ASSUME NEW i \in 1..N(t) PROVE <<t, i>> \in Whole \cup skipped <=> i < n
      <3>1. CASE i < n
        BY <1>2, <2>1, <3>1 DEF Executes
      <3>2. CASE i > n
        BY <1>2, <2>1, <3>2, WholeTried DEF Executes
      <3>3. CASE i = n
        BY <1>2, <2>1, <3>3 DEF Executes
      <3>4. QED
        BY <1>2, <1>3, <3>1, <3>2, <3>3
    <2>3. QED
      BY <2>2
  <1>5. SentOf[t] \cup LostOf[t] = 1..(n - 1)
    <2>1. SentOf[t] \cup LostOf[t] = {i \in 1..N(t) : i < n}
      BY <1>4, PointSets
    <2>2. {i \in 1..N(t) : i < n} = 1..(n - 1)
      BY <1>3
    <2>3. QED
      BY <2>1, <2>2
  <1>6. QED
    BY <1>1, <1>2, <1>3, <1>5, PointSets DEF Delivery!Due, Delivery!Settled, SentOf,
       LostOf, SizeOf

LEMMA RefAccept ==
  ASSUME NodeIInv, NEW w \in Workers, NEW j \in JobsOf[w], Accept(w, j)
  PROVE  Delivery!DNext
  <1>1. j \in Jobs /\ result[j] = "none" /\ wire' = wire /\ skipped' = skipped
    BY Constants DEF Accept, clientVars
  <1>2. \E to \in {"rejected", "running"} : result' = [result EXCEPT ![j] = to]
    BY DEF Accept
  <1>3. Delivery!Becomes(j, "none", "rejected") \/ Delivery!Becomes(j, "none", "running")
    BY <1>1, <1>2, Moves
  <1>4. QED
    BY <1>1, <1>3 DEF Delivery!DNext

LEMMA RefLeave ==
  ASSUME NodeIInv, Progress, NEW w \in Workers, at[w] # "idle", UNCHANGED clientVars,
         NEW outcome \in {"succeeded", "interrupted", "failed", "raised"},
         Leave(w, outcome), outcome = "succeeded" => idx[w] > N(job[w])
  PROVE  Delivery!DNext
  <1>0. PICK t \in Jobs : t = job[w]
    BY Running
  <1>1. /\ result[t] = "running" /\ result' = [result EXCEPT ![t] = outcome]
        /\ wire' = wire /\ skipped' = skipped
    BY <1>0, Running DEF Leave, clientVars, Executes
  <1>2. Delivery!Becomes(t, "running", outcome)
    BY <1>1, Moves
  <1>3. CASE outcome = "succeeded"
    <2>1. \A i \in 1..N(t) : <<t, i>> \in Whole \cup skipped
      BY <1>0, <1>3, Running DEF Executes
    <2>2. SentOf[t] \cup LostOf[t] = 1..N(t)
      BY <2>1, PointSets
    <2>3. Delivery!Succeed(t)
      BY <1>2, <1>3, <2>2, PointSets DEF Delivery!Succeed, Delivery!Settled, SentOf,
         LostOf, SizeOf
    <2>4. QED
      BY <2>3 DEF Delivery!DNext
  <1>4. CASE outcome # "succeeded"
    BY <1>2, <1>4 DEF Delivery!DNext, Delivery!Failures
  <1>5. QED
    BY <1>3, <1>4

LEMMA RefSkip ==
  ASSUME NodeIInv, Progress, NEW w \in Workers, at[w] # "idle", idx[w] <= N(job[w]),
         ~Accepted(w), wire' = wire, result' = result, skipped' = skipped \cup {Current(w)}
  PROVE  Delivery!DNext
  <1>t. PICK t \in Jobs : t = job[w]
    BY Running
  <1>n. PICK n \in 1..N(t) : n = idx[w]
    BY <1>t, Running
  <1>0. t = job[w] /\ n = idx[w]
    BY <1>t, <1>n
  <1>1. Delivery!Due(t, n)
    BY <1>0, CurrentDue
  <1>2. \A j \in Jobs : GivenUp(j)' = IF j = t THEN GivenUp(j) \cup {n} ELSE GivenUp(j)
    BY <1>0 DEF GivenUp, Current
  <1>3. \A j \in Jobs : SentPoints(j)' = SentPoints(j)
    BY DEF SentPoints
  <1>4. Delivery!GiveUp(t, n)
    BY <1>1, <1>2, <1>3 DEF Delivery!GiveUp
  <1>5. QED
    BY <1>0, <1>4 DEF Delivery!DNext

\* Steps that settle no point and end no execution.
LEMMA RefStutter ==
  ASSUME result' = result, skipped' = skipped, Whole' = Whole
  PROVE  UNCHANGED Delivery!dvars
  <1>1. \A j \in Jobs : SentPoints(j)' = SentPoints(j)
    <2>1. \A j \in Jobs : SentPoints(j) = {i \in 1..N(j) : <<j, i>> \in Whole}
      BY DEF SentPoints, Whole
    <2>2. \A j \in Jobs : SentPoints(j)' = {i \in 1..N(j) : <<j, i>> \in Whole'}
      BY DEF SentPoints, Whole
    <2>3. QED
      BY <2>1, <2>2
  <1>2. \A j \in Jobs : GivenUp(j)' = GivenUp(j)
    BY DEF GivenUp
  <1>3. QED
    BY <1>1, <1>2 DEF Delivery!dvars

LEMMA RefWrite ==
  ASSUME NodeIInv, ClientTypeOK, CallPoints, Progress, NEW p \in Procs, CallStep(p),
         op[p] = "send", Put(p, TRUE)
  PROVE  Delivery!DNext
  <1>1. ClientStep(p) /\ result' = result /\ skipped' = skipped
    BY DEF CallStep, handlerVars
  <1>2. pc[p] # "idle"
    BY <1>1, StepEffect
  <1>3. p \in Workers /\ line[p] = Current(p) /\ at[p] \in {"send", "resend"}
    <2>1. p \in Workers
      BY Constants DEF Progress
    <2>2. CallFits(p) /\ at[p] \in WorkerPoints
      BY <2>1 DEF Progress, NodeIInv, WorkerOK
    <2>3. QED
      BY <1>2, <2>1, <2>2 DEF CallFits, WorkerPoints
  <1>t. PICK t \in Jobs : t = job[p]
    BY <1>3, Running
  <1>n. PICK n \in 1..N(t) : n = idx[p]
    BY <1>3, <1>t, Running
  <1>4. N(t) \in Nat /\ line[p] = <<t, n>>
    BY <1>3, <1>t, <1>n, Constants DEF Current
  <1>5. ~Accepted(p) /\ idx[p] <= N(job[p])
    <2>1. ~Accepted(p)
      BY <1>2 DEF Accepted
    <2>2. idx[p] <= N(job[p])
      BY <1>4, <1>t, <1>n
    <2>3. QED
      BY <2>1, <2>2
  <1>6. Delivery!Due(t, n)
    BY <1>3, <1>5, <1>t, <1>n, CurrentDue
  <1>7. Whole' = Whole \cup {<<t, n>>}
    BY <1>4, Written
  <1>8. \A j \in Jobs : SentPoints(j)' = IF j = t THEN SentPoints(j) \cup {n} ELSE SentPoints(j)
    <2>1. \A j \in Jobs : SentPoints(j) = {i \in 1..N(j) : <<j, i>> \in Whole}
      BY DEF SentPoints, Whole
    <2>2. \A j \in Jobs : SentPoints(j)' = {i \in 1..N(j) : <<j, i>> \in Whole'}
      BY DEF SentPoints, Whole
    <2>3. QED
      BY <1>7, <2>1, <2>2
  <1>9. \A j \in Jobs : GivenUp(j)' = GivenUp(j)
    BY <1>1 DEF GivenUp
  <1>10. Delivery!Deliver(t, n)
    BY <1>1, <1>6, <1>8, <1>9 DEF Delivery!Deliver
  <1>11. QED
    BY <1>10 DEF Delivery!DNext

LEMMA RefWorker ==
  ASSUME NodeIInv, ClientTypeOK, CallPoints, Progress, NEW w \in Workers, WorkerNext(w)
  PROVE  Delivery!DNext \/ UNCHANGED Delivery!dvars
  <1>0. at[w] # "idle"
    BY DEF WorkerNext, Begin, Continue, Stop, Interrupted, SkipMalformed, SendPoint,
       PointSent, Reconnect,
       Resend, ReconnectFailed, SkipUnsent, Escape, Complete, Answered
  <1>1. w \in Procs /\ (at[w] \notin {"begin", "loop"} => idx[w] <= N(job[w]))
    BY <1>0, Running
  <1>2. CASE Complete(w)
    <2>1. Leave(w, "succeeded") /\ idx[w] > N(job[w]) /\ UNCHANGED clientVars
      BY <1>2 DEF Complete, ReturnFrom, Last
    <2>2. QED
      BY <1>0, <2>1, RefLeave
  <1>3. CASE Interrupted(w) \/ ReconnectFailed(w) \/ Escape(w)
    <2>1. PICK outcome \in {"interrupted", "failed", "raised"} : Leave(w, outcome)
      BY <1>3 DEF Interrupted, ReconnectFailed, Escape, ReturnFrom
    <2>2. UNCHANGED clientVars
      BY <1>3 DEF Interrupted, ReconnectFailed, Escape
    <2>3. QED
      BY <1>0, <2>1, <2>2, RefLeave
  <1>4. CASE SkipMalformed(w)
    <2>1. idx[w] <= N(job[w]) /\ at[w] = "point"
      BY <1>1, <1>4 DEF SkipMalformed
    <2>2. ~Accepted(w)
      BY <2>1 DEF Accepted
    <2>3. wire' = wire /\ result' = result /\ skipped' = skipped \cup {Current(w)}
      BY <1>4 DEF SkipMalformed, NextPoint, clientVars
    <2>4. QED
      BY <1>0, <2>1, <2>2, <2>3, RefSkip
  <1>5. CASE SkipUnsent(w)
    <2>1. ret[w] = "false" /\ at[w] = "resend"
      BY <1>5 DEF SkipUnsent, Answered
    <2>2. ~Accepted(w)
      BY <2>1 DEF Accepted
    <2>3. wire' = wire /\ result' = result /\ skipped' = skipped \cup {Current(w)}
      BY <1>5 DEF SkipUnsent, NextPoint, clientVars
    <2>4. idx[w] <= N(job[w])
      BY <1>1, <2>1
    <2>5. QED
      BY <1>0, <2>2, <2>3, <2>4, RefSkip
  <1>6. CASE PointSent(w)
    <2>1. wire' = wire /\ result' = result /\ skipped' = skipped
      BY <1>6 DEF PointSent, NextPoint, clientVars
    <2>2. QED
      BY <2>1, RefStutter DEF Whole
  <1>7. CASE SendPoint(w) \/ Resend(w) \/ Reconnect(w)
    <2>1. result' = result /\ skipped' = skipped
      BY <1>7 DEF SendPoint, Resend, Reconnect, StepTo
    <2>2. BeginSend(w, Current(w), TRUE) \/ BeginReconnect(w, MaxAttempts)
      BY <1>7 DEF SendPoint, Resend, Reconnect
    <2>3. wire' = wire
      BY <1>1, <2>2, SendEffect, OtherEffect
    <2>4. QED
      BY <2>1, <2>3, RefStutter DEF Whole
  <1>8. CASE Begin(w) \/ Continue(w) \/ Stop(w)
    BY <1>8, RefStutter DEF Begin, Continue, Stop, StepTo, Whole, clientVars
  <1>9. QED
    BY <1>2, <1>3, <1>4, <1>5, <1>6, <1>7, <1>8 DEF WorkerNext

LEMMA RefStep ==
  NodeIInv /\ ClientTypeOK /\ CallPoints /\ Progress /\ [Next]_vars
    => [Delivery!DNext]_(Delivery!dvars)
  <1> SUFFICES ASSUME NodeIInv, ClientTypeOK, CallPoints, Progress, [Next]_vars
               PROVE  Delivery!DNext \/ UNCHANGED Delivery!dvars
    OBVIOUS
  <1>1. CASE MainNext
    <2>1. result' = result /\ skipped' = skipped
      BY <1>1 DEF MainNext, MainGoesOn, NodeStart, NodeRetry, NodeUp, NodeGivesUp,
         NodeShutdown,
         NodeStopped, MainStep
    <2>2. wire' = wire
      BY <1>1 DEF MainNext, MainGoesOn, NodeStart, NodeRetry, NodeUp, NodeGivesUp,
         NodeShutdown,
         NodeStopped, BeginConnect, BeginReconnect, BeginDisconnect, shared, clientVars
    <2>3. QED
      BY <2>1, <2>2, RefStutter DEF Whole
  <1>2. ASSUME NEW w \in Workers, WorkerNext(w)
        PROVE  Delivery!DNext \/ UNCHANGED Delivery!dvars
    BY <1>2, RefWorker
  <1>3. ASSUME NEW w \in Workers, NEW j \in JobsOf[w], Accept(w, j)
        PROVE  Delivery!DNext
    BY <1>3, RefAccept
  <1>4. ASSUME NEW p \in Procs, CallStep(p)
        PROVE  Delivery!DNext \/ UNCHANGED Delivery!dvars
    <2>1. CallGoesOn(p) \/ CallReturns(p)
      BY <1>4, StepEffect DEF CallStep
    <2>2. result' = result /\ skipped' = skipped
      BY <1>4 DEF CallStep, handlerVars
    <2>3. CASE wire' = wire
      BY <2>2, <2>3, RefStutter DEF Whole
    <2>4. CASE op[p] = "send" /\ Put(p, TRUE)
      BY <1>4, <2>4, RefWrite
    <2>5. CASE op[p] = "send" /\ Put(p, FALSE)
      BY <2>2, <2>5, Written, RefStutter
    <2>6. QED
      BY <2>1, <2>3, <2>4, <2>5 DEF CallGoesOn, CallReturns
  <1>5. CASE UNCHANGED vars
    BY <1>5, RefStutter DEF vars, clientVars, handlerVars, Whole
  <1>6. QED
    BY <1>1, <1>2, <1>3, <1>4, <1>5 DEF Next, Done

\* Seen from outside, the node delivers the points of every trajectory one by
\* one and accounts for each before the next, with any number of workers, any
\* sharing of handlers and any failures of the one connection.
THEOREM DriverDelivers == Spec => ImplementsDelivery
  BY RefInit, RefStep, Progresses, NodeTyped, DriverUsesClient, ClientTyped, ClientCalls, PTL
  DEF Spec, ImplementsDelivery, Delivery!DSpec

-----------------------------------------------------------------------------
\* A handler for each worker.

OwnHandlers == \A v, w \in Workers : v # w => HandlerOf[v] # HandlerOf[w]

\* While a worker is in the loop its handler's flag is set, since nobody else
\* resets it; so it is the end of the node that made it leave.
FlagHeld ==
  /\ shutdown => at[Main] \in {"hook", "exited"}
  /\ \A w \in Workers : at[w] \in {"loop", "point", "send", "reconnect", "resend"} => Flag(w)
  /\ \A w \in Workers : at[w] = "stop" => shutdown
  /\ InterruptedByShutdown

LEMMA FlagHeldStep ==
  ASSUME OwnHandlers, NodeIInv, FlagHeld, [Next]_vars
  PROVE  FlagHeld'
  <1> USE DEF Flag
  <1>0. /\ Main \notin Workers /\ \A w \in Workers : HandlerOf[w] \in Handlers
        /\ at \in [Procs -> WorkerPoints \cup MainPoints] /\ Procs = Workers \cup {Main}
        /\ executing \in [Handlers -> BOOLEAN]
        /\ result \in [Jobs -> Ended \cup {"none", "running"}]
    BY Constants DEF NodeIInv
  <1>1. CASE MainNext
    <2>1. PICK to \in MainPoints : at' = [at EXCEPT ![Main] = to]
      BY <1>1 DEF MainNext, MainGoesOn, NodeStart, NodeRetry, NodeUp, NodeGivesUp,
         NodeShutdown,
                  NodeStopped, MainPoints, MainStep, Move
    <2>2. executing' = executing /\ result' = result /\ \A w \in Workers : at'[w] = at[w]
      BY <1>0, <1>1, <2>1 DEF MainNext, MainGoesOn, NodeStart, NodeRetry, NodeUp, NodeGivesUp,
                              NodeShutdown, NodeStopped, MainStep
    <2>3. /\ shutdown => shutdown'
          /\ shutdown' => at'[Main] \in {"hook", "exited"}
      BY <1>0, <1>1 DEF FlagHeld, MainNext, MainGoesOn, NodeStart, NodeRetry, NodeUp,
         NodeGivesUp, Answered,
                        NodeShutdown, NodeStopped, MainStep, Move
    <2>4. QED
      BY <2>2, <2>3 DEF FlagHeld, InterruptedByShutdown
  <1>2. ASSUME NEW w \in Workers, WorkerNext(w) PROVE FlagHeld'
    <2>1. shutdown' = shutdown /\ \A p \in Procs \ {w} : at'[p] = at[p]
      BY <1>0, <1>2 DEF WorkerNext, Begin, Continue, Stop, Interrupted, SkipMalformed,
         SendPoint,
         PointSent, Reconnect, Resend, ReconnectFailed, SkipUnsent, Escape, Complete,
         ReturnFrom, Leave, NextPoint, StepTo, Move
    <2>2. \A v \in Workers \ {w} : executing'[HandlerOf[v]] = executing[HandlerOf[v]]
      BY <1>0, <1>2 DEF OwnHandlers, WorkerNext, Begin, Continue, Stop, Interrupted,
         SkipMalformed, SendPoint, PointSent, Reconnect, Resend, ReconnectFailed, SkipUnsent,
         Escape, Complete, ReturnFrom, Leave, NextPoint, StepTo
    <2>3. at'[w] \in {"loop", "point", "send", "reconnect", "resend"} => Flag(w)'
      <3>1. CASE Begin(w)
        BY <1>0, <3>1 DEF Begin
      <3>2. CASE ~Begin(w)
        <4>1. \/ at'[w] = "idle" \/ at'[w] = "stop"
              \/ executing' = executing /\ Flag(w)
          BY <1>0, <1>2, <3>2 DEF FlagHeld, WorkerNext, Continue, Stop, Interrupted,
             SkipMalformed, SendPoint, PointSent, Reconnect, Resend, ReconnectFailed,
             SkipUnsent,
             Escape, Complete, ReturnFrom, Leave, NextPoint, StepTo, Move, Answered
        <4>2. QED
          BY <4>1
      <3>3. QED
        BY <3>1, <3>2
    <2>4. at'[w] = "stop" => shutdown
      BY <1>0, <1>2 DEF FlagHeld, WorkerNext, Begin, Continue, Stop, Interrupted,
         SkipMalformed,
         SendPoint, PointSent, Reconnect, Resend, ReconnectFailed, SkipUnsent, Escape,
         Complete,
         ReturnFrom, Leave, NextPoint, StepTo, Move, Answered
    <2>5. \A j \in Jobs : result'[j] = "interrupted" => shutdown
      <3>1. CASE Interrupted(w)
        BY <3>1 DEF Interrupted, FlagHeld, InterruptedByShutdown, ReturnFrom, Leave, Answered
      <3>2. CASE ~Interrupted(w)
        <4>1. \/ result' = result
              \/ \E outcome \in {"failed", "raised", "succeeded"} :
                   result' = [result EXCEPT ![job[w]] = outcome]
          BY <1>2, <3>2 DEF WorkerNext, Begin, Continue, Stop, SkipMalformed, SendPoint,
             PointSent, Reconnect, Resend, ReconnectFailed, SkipUnsent, Escape, Complete,
             ReturnFrom, Leave, NextPoint, StepTo
        <4>2. \A j \in Jobs : result'[j] = "interrupted" => result[j] = "interrupted"
          BY <1>0, <4>1
        <4>3. QED
          BY <4>2 DEF FlagHeld, InterruptedByShutdown
      <3>3. QED
        BY <3>1, <3>2
    <2>6. at'[Main] = at[Main]
      BY <1>0, <2>1
    <2>7. \A v \in Workers \ {w} : at'[v] = at[v]
      BY <1>0, <2>1
    <2>8. QED
      BY <2>1, <2>2, <2>3, <2>4, <2>5, <2>6, <2>7 DEF FlagHeld, InterruptedByShutdown
  <1>3. ASSUME NEW w \in Workers, NEW j \in JobsOf[w], Accept(w, j) PROVE FlagHeld'
    <2>1. /\ executing' = executing /\ shutdown' = shutdown
          /\ at' = at \/ at' = [at EXCEPT ![w] = "begin"]
          /\ \E r \in {"rejected", "running"} : result' = [result EXCEPT ![j] = r]
      BY <1>3 DEF Accept, Move
    <2>2. \A i \in Jobs : result'[i] = "interrupted" => result[i] = "interrupted"
      BY <1>0, <2>1
    <2>3. at'[Main] = at[Main] /\ \A v \in Workers : at'[v] = at[v] \/ at'[v] = "begin"
      BY <1>0, <2>1
    <2>4. QED
      BY <2>1, <2>2, <2>3 DEF FlagHeld, InterruptedByShutdown
  <1>4. CASE UNCHANGED handlerVars
    BY <1>4 DEF handlerVars, FlagHeld, InterruptedByShutdown
  <1>5. QED
    BY <1>1, <1>2, <1>3, <1>4 DEF Next, Done, CallStep, vars

\* Where no two workers share a handler, nothing but the end of the node
\* interrupts an execution, however often connections are lost.
THEOREM DriverInterrupted ==
  ASSUME OwnHandlers
  PROVE  Spec => []InterruptedByShutdown
  <1>1. Init => FlagHeld
    <2> SUFFICES ASSUME Init PROVE FlagHeld
      OBVIOUS
    <2>1. \A w \in Workers : at[w] = "idle"
      BY Constants DEF Init
    <2>2. QED
      BY <2>1 DEF Init, FlagHeld, InterruptedByShutdown
  <1>2. NodeIInv /\ FlagHeld /\ [Next]_vars => FlagHeld'
    BY FlagHeldStep
  <1>3. FlagHeld => InterruptedByShutdown
    BY DEF FlagHeld
  <1>4. QED
    BY <1>1, <1>2, <1>3, NodeTyped, PTL DEF Spec

-----------------------------------------------------------------------------
\* The phases of the node.

\* Before the node is up nothing is written, and from then on the main thread
\* only disconnects: connecting and sending is left to the workers.
Phases ==
  /\ op[Main] \notin {"send", "receive"}
  /\ up => /\ at[Main] \in {"spin", "hook", "exited"}
           /\ pc[Main] \in {"idle", "disc", "closing", "dropping", "clearing"}
           /\ op[Main] \in {"none", "disconnect"}
           /\ at[Main] = "spin" => pc[Main] = "idle"
  /\ ~up => wire = <<>> /\ \A w \in Workers : at[w] = "idle" /\ pc[w] = "idle"

\* What a step of a worker outside its calls does to the client: nothing, or it
\* begins a call.
LEMMA CallsOfWorker ==
  ASSUME ClientTypeOK, NEW w \in Workers, WorkerNext(w)
  PROVE  /\ UNCHANGED shared
         /\ \A q \in Procs \ {w} :
              pc'[q] = pc[q] /\ op'[q] = op[q] /\ hold'[q] = hold[q] /\ ret'[q] = ret[q]
         /\ \/ UNCHANGED clientVars
            \/ pc'[w] \in {"idle", "disc"} \/ (pc'[w] = "lock" /\ connected)
  <1>1. \/ UNCHANGED clientVars
        \/ BeginSend(w, Current(w), TRUE)
        \/ BeginReconnect(w, MaxAttempts)
    BY DEF WorkerNext, Begin, Continue, Stop, Interrupted, SkipMalformed, SendPoint,
       PointSent, Reconnect, Resend, ReconnectFailed, SkipUnsent, Escape, Complete
  <1>2. w \in Procs
    BY Constants
  <1>3. QED
    BY <1>1, <1>2 DEF BeginSend, BeginReconnect, Refuse, Return, Start, shared, clientVars,
       ClientTypeOK

\* Who is where: the main thread connects before the node is up only.
LEMMA PhasesMain ==
  ASSUME ClientTypeOK, CallPoints, NodeIInv, Phases, MainNext
  PROVE  Phases'
  <1>0. Main \in Procs /\ Main \notin Workers /\ Workers \subseteq Procs
    BY Constants
  <1>1. \A w \in Workers : at'[w] = at[w] /\ pc'[w] = pc[w]
    BY <1>0 DEF MainNext, MainGoesOn, NodeStart, NodeRetry, NodeUp, NodeGivesUp,
       NodeShutdown, NodeStopped,
       MainStep, Move, NodeIInv, ClientTypeOK, BeginConnect, BeginReconnect, BeginDisconnect,
       Start, clientVars
  <1>2. wire' = wire
    BY DEF MainNext, MainGoesOn, NodeStart, NodeRetry, NodeUp, NodeGivesUp, NodeShutdown,
       NodeStopped,
       BeginConnect, BeginReconnect, BeginDisconnect, clientVars, shared
  <1>3. CASE NodeStart \/ NodeRetry
    <2>1. ~up /\ up' = up /\ op'[Main] \in {"connect", "reconnect"}
      BY <1>0, <1>3 DEF NodeStart, NodeRetry, Answered, BeginConnect, BeginReconnect, Start,
         Phases, ClientTypeOK
    <2>2. QED
      BY <1>1, <1>2, <2>1 DEF Phases
  <1>4. CASE NodeUp \/ NodeStopped
    <2>1. /\ pc'[Main] = "idle" /\ op'[Main] = "none"
          /\ at'[Main] \in {"spin", "exited"} /\ (up => up')
      BY <1>0, <1>4 DEF NodeUp, NodeStopped, Answered, MainStep, Move, clientVars, NodeIInv,
         CallPoints
    <2>2. QED
      BY <1>1, <1>2, <2>1 DEF Phases
  <1>5. CASE NodeGivesUp
    <2>1. ~up /\ up' = up /\ op' = op
      BY <1>5 DEF NodeGivesUp, Answered, clientVars, Phases
    <2>2. QED
      BY <1>1, <1>2, <2>1 DEF Phases
  <1>6. CASE NodeShutdown
    <2>1. /\ up' = up /\ at'[Main] = "hook" /\ op'[Main] = "disconnect" /\ pc'[Main] = "disc"
      BY <1>0, <1>6 DEF NodeShutdown, MainStep, Move, BeginDisconnect, Start, NodeIInv,
         ClientTypeOK
    <2>2. QED
      BY <1>1, <1>2, <2>1 DEF Phases
  <1>7. QED
    BY <1>3, <1>4, <1>5, <1>6 DEF MainNext, MainGoesOn

LEMMA PhasesStep ==
  ASSUME ClientTypeOK, CallPoints, NodeIInv, Phases, [Next]_vars
  PROVE  Phases'
  <1>0. /\ Main \in Procs /\ Main \notin Workers /\ Workers \subseteq Procs
        /\ Procs = Workers \cup {Main}
    BY Constants
  <1>1. CASE MainNext
    BY <1>1, PhasesMain
  <1>2. ASSUME NEW w \in Workers, WorkerNext(w) PROVE Phases'
    <2>1. at[w] # "idle" /\ up /\ up' = up
      BY <1>2 DEF Phases, WorkerNext, Begin, Continue, Stop, Interrupted, SkipMalformed,
         SendPoint,
         PointSent, Reconnect, Resend, ReconnectFailed, SkipUnsent, Escape, Complete,
         Answered,
         ReturnFrom, Leave, NextPoint, StepTo
    <2>2. at'[Main] = at[Main]
      BY <1>0, <1>2 DEF NodeIInv, WorkerNext, Begin, Continue, Stop, Interrupted,
         SkipMalformed,
         SendPoint, PointSent, Reconnect, Resend, ReconnectFailed, SkipUnsent, Escape,
         Complete,
         ReturnFrom, Leave, NextPoint, StepTo, Move
    <2>3. pc'[Main] = pc[Main] /\ op'[Main] = op[Main]
      BY <1>0, <1>2, CallsOfWorker
    <2>4. QED
      BY <2>1, <2>2, <2>3 DEF Phases
  <1>3. ASSUME NEW w \in Workers, NEW j \in JobsOf[w], Accept(w, j) PROVE Phases'
    <2>1. UNCHANGED clientVars /\ up /\ up' = up
      BY <1>3 DEF Accept
    <2>2. at'[Main] = at[Main]
      BY <1>0, <1>3 DEF Accept, Move, NodeIInv
    <2>3. QED
      BY <2>1, <2>2 DEF Phases, clientVars
  <1>4. ASSUME NEW p \in Procs, CallStep(p) PROVE Phases'
    <2>1. ClientStep(p) /\ at' = at /\ up' = up
      BY <1>4 DEF CallStep, handlerVars
    <2>3. pc[p] # "idle" /\ Alone(p) /\ (CallGoesOn(p) \/ CallReturns(p))
      BY <1>0, <2>1, StepEffect
    <2>4. op'[Main] \in {"none", op[Main]}
      BY <1>0, <2>3 DEF Alone, CallGoesOn, CallReturns
    <2>5. up => pc'[Main] \in {"idle", "disc", "closing", "dropping", "clearing"}
      <3>1. CASE p # Main
        BY <1>0, <2>3, <3>1 DEF Phases, Alone
      <3>2. CASE p = Main /\ up
        <4>1. /\ pc[Main] \in {"disc", "closing", "dropping", "clearing"}
              /\ op[Main] = "disconnect"
          BY <1>0, <2>3, <3>2 DEF Phases, CallPoints
        <4>2. \/ DisconnectLock(p) \/ DisconnectClose(p)
              \/ DisconnectDrop(p) \/ DisconnectEnd(p)
          BY <2>1, <3>2, <4>1 DEF ClientStep, UseSocket, SendOk, SendError, ReceiveEnds,
             ReceiveError, ConnectCreate, ConnectStart, ConnectOk, ConnectError, ConnectMark,
             ConnectReady, Goto
        <4>3. QED
          BY <1>0, <3>2, <4>1, <4>2 DEF DisconnectLock, DisconnectClose, DisconnectDrop,
             DisconnectEnd, Goto, Return, ClientTypeOK
      <3>3. QED
        BY <3>1, <3>2
    <2>6. ~up => wire' = wire /\ \A w \in Workers : pc'[w] = pc[w]
      <3> SUFFICES ASSUME ~up PROVE wire' = wire /\ \A w \in Workers : pc'[w] = pc[w]
        OBVIOUS
      <3>1. p = Main
        BY <1>0, <2>3 DEF Phases
      <3>2. QED
        BY <1>0, <2>3, <3>1 DEF Phases, Alone, CallGoesOn, CallReturns
    <2>7. up /\ at[Main] = "spin" => pc'[Main] = "idle"
      BY <1>0, <2>3 DEF Phases, Alone
    <2>8. QED
      BY <2>1, <2>4, <2>5, <2>6, <2>7 DEF Phases
  <1>5. CASE UNCHANGED vars
    <2>1. UNCHANGED clientVars /\ at' = at /\ up' = up
      BY <1>5 DEF vars, handlerVars
    <2>2. QED
      BY <2>1 DEF clientVars, Phases
  <1>6. QED
    BY <1>1, <1>2, <1>3, <1>4, <1>5 DEF Next, Done

LEMMA ClientStrong == Spec => []ClientIInv
  BY DriverUsesClient, ClientTypeInit, ClientTypeStep, PTL DEF ClientSpec

LEMMA Phased == Spec => []Phases
  <1>1. Init => Phases
    <2> SUFFICES ASSUME Init PROVE Phases
      OBVIOUS
    <2>1. /\ wire = <<>> /\ ~up /\ Main \in Procs
          /\ \A w \in Workers : at[w] = "idle"
          /\ \A p \in Procs : pc[p] = "idle" /\ op[p] = "none"
      BY Constants DEF Init, ClientInit
    <2>2. QED
      BY <2>1, Constants DEF Phases
  <1>2. ClientTypeOK /\ CallPoints /\ NodeIInv /\ Phases /\ [Next]_vars => Phases'
    BY PhasesStep
  <1>3. Spec => [](ClientTypeOK /\ CallPoints)
    BY DriverUsesClient, ClientTyped, ClientCalls, PTL
  <1>4. QED
    BY <1>1, <1>2, <1>3, NodeTyped, PTL DEF Spec

-----------------------------------------------------------------------------
\* The flag and the connection.

Usable == sock # NoSock /\ conn[sock] = "open"

\* A worker that is going to reset the flag, or to notice that the connection
\* is unusable: after every reconnection it sends its point again.
Repairs(w) ==
  \/ pc[w] \in {"dropping", "clearing", "create", "connect", "connecting", "mark", "wait", "lock"}
  \/ at[w] = "reconnect" /\ pc[w] = "idle" /\ ret[w] = "true"
  \/ pc[w] = "io" /\ hold[w] = sock

\* The flag says "connected" of an unusable socket only while a worker is about
\* to put that right.
Repaired ==
  at[Main] = "spin" =>
    /\ connected /\ ~Usable => \E w \in Workers : Repairs(w)
    /\ sock = NoSock => \E w \in Workers : pc[w] \in {"clearing", "create"}

\* The constructor waits for a usable connection before it lets workers in.
Opening ==
  ~up => /\ at[Main] \notin {"spin", "hook"} /\ op[Main] # "disconnect"
         /\ pc[Main] = "connecting" => hold[Main] = sock
         /\ pc[Main] \in {"mark", "wait"} => Usable
         /\ pc[Main] = "idle" /\ ret[Main] = "true" => Usable

\* The calls of a worker are sends and reconnections.
LEMMA WorkersCalls ==
  ASSUME NodeIInv, CallPoints, Progress, NEW w \in Workers
  PROVE  /\ w \in Procs /\ op[w] \in {"none", "send", "reconnect"}
         /\ pc[w] \in {"disc", "closing", "dropping", "clearing", "create", "connect",
                       "connecting", "mark", "wait"} => at[w] = "reconnect" /\ op[w] = "reconnect"
  <1>1. CallFits(w) /\ at[w] \in WorkerPoints /\ w \in Procs
    BY Constants DEF Progress, NodeIInv, WorkerOK
  <1>2. QED
    BY <1>1 DEF CallFits, CallPoints, WorkerPoints

\* A step inside a worker's call.
LEMMA RepairedStep ==
  ASSUME ClientIInv, CallPoints, NodeIInv, Progress, Repaired, at[Main] = "spin",
         NEW p \in Workers, ClientStep(p), at' = at
  PROVE  Repaired'
  <1>0. /\ ClientTypeOK /\ Len(conn) \in Nat /\ p \in Procs /\ NoSock = 0
        /\ Workers \subseteq Procs /\ sock \in 0..Len(conn)
    BY Constants DEF ClientIInv, ClientTypeOK, NoSock
  <1>1. \A q \in Workers \ {p} : pc'[q] = pc[q] /\ ret'[q] = ret[q] /\ hold'[q] = hold[q]
    BY <1>0 DEF ClientTypeOK, ClientStep, UseSocket, SendOk, SendError, ReceiveEnds,
       ReceiveError, DisconnectLock, DisconnectClose, DisconnectDrop, DisconnectEnd,
       ConnectCreate, ConnectStart, ConnectOk, ConnectError, ConnectMark, ConnectReady,
       ConnectFails, Goto, Return, shared
  <1>2. \A q \in Workers \ {p} : Repairs(q) /\ sock' = sock => Repairs(q)'
    BY <1>1 DEF Repairs
  <1>3. /\ connected /\ ~Usable => \E w \in Workers : Repairs(w)
        /\ sock = NoSock => \E w \in Workers : pc[w] \in {"clearing", "create"}
    BY DEF Repaired
  \* A step by which p itself is bound to put things right.
  <1>4. ASSUME Repairs(p)', sock' = NoSock => pc'[p] \in {"clearing", "create"} \/ sock = NoSock,
               sock' = NoSock => pc[p] \notin {"clearing", "create"}
                                 \/ pc'[p] \in {"clearing", "create"}
        PROVE  Repaired'
    BY <1>1, <1>3, <1>4 DEF Repaired
  \* A step that resets the flag.
  <1>5. ASSUME ~connected', sock' = sock, pc[p] \notin {"clearing", "create"}
        PROVE  Repaired'
    BY <1>1, <1>3, <1>5 DEF Repaired
  \* A step that changes nothing, of a thread that repaired nothing.
  <1>6. ASSUME UNCHANGED <<sock, connected, conn>>, ~Repairs(p)
        PROVE  Repaired'
    BY <1>1, <1>2, <1>3, <1>6 DEF Repaired, Usable, Repairs
  <1>7. CASE UseSocket(p)
    <2>1. pc[p] = "lock" /\ UNCHANGED <<sock, connected, conn>>
      BY <1>7 DEF UseSocket, shared
    <2>2. CASE sock = NoSock
      <3>1. PICK v \in Workers : pc[v] \in {"clearing", "create"}
        BY <1>3, <2>2
      <3>2. v # p /\ pc'[v] = pc[v]
        BY <1>1, <2>1, <3>1
      <3>3. QED
        BY <3>1, <3>2 DEF Repaired, Repairs
    <2>3. CASE sock # NoSock
      <3>1. pc'[p] = "io" /\ hold'[p] = sock
        BY <1>0, <1>7, <2>3 DEF UseSocket, Goto, ClientTypeOK
      <3>2. QED
        BY <1>4, <2>1, <2>3, <3>1 DEF Repairs
    <2>4. QED
      BY <2>2, <2>3
  <1>8. CASE SendOk(p)
    <2>1. pc[p] = "io" /\ UNCHANGED <<sock, connected, conn>> /\ conn[hold[p]] = "open"
      BY <1>8 DEF SendOk
    <2>2. CASE hold[p] = sock
      <3>1. Usable /\ Usable' /\ sock # NoSock
        BY <1>0, <2>1, <2>2 DEF Usable, ClientIInv, SockHeld
      <3>2. QED
        BY <2>1, <3>1 DEF Repaired, Usable
    <2>3. CASE hold[p] # sock
      BY <1>6, <2>1, <2>3 DEF Repairs
    <2>4. QED
      BY <2>2, <2>3
  <1>9. CASE SendError(p) \/ ConnectError(p)
    BY <1>5, <1>9 DEF SendError, ConnectError, ConnectFails
  <1>10. CASE ReceiveEnds(p) \/ ReceiveError(p)
    BY <1>10, WorkersCalls DEF ReceiveEnds, ReceiveError
  <1>11. CASE DisconnectLock(p)
    BY <1>6, <1>11 DEF DisconnectLock, Goto, Repairs
  <1>12. CASE DisconnectClose(p)
    <2>1. /\ sock' = sock /\ pc[p] = "closing"
          /\ pc'[p] = IF sock = NoSock THEN "clearing" ELSE "dropping"
      BY <1>0, <1>12 DEF DisconnectClose, Goto, ClientTypeOK
    <2>2. QED
      BY <1>4, <2>1 DEF Repairs
  <1>13. CASE DisconnectDrop(p)
    <2>1. sock' = NoSock /\ pc'[p] = "clearing"
      BY <1>0, <1>13 DEF DisconnectDrop, Goto, ClientTypeOK
    <2>2. QED
      BY <1>4, <2>1 DEF Repairs
  <1>14. CASE DisconnectEnd(p)
    <2>1. op[p] = "reconnect"
      BY <1>14, WorkersCalls DEF DisconnectEnd
    <2>2. pc'[p] = "create" /\ sock' = sock
      BY <1>0, <1>14, <2>1 DEF DisconnectEnd, Goto, ClientTypeOK
    <2>3. QED
      BY <1>4, <2>2 DEF Repairs
  <1>15. CASE ConnectCreate(p)
    <2>1. sock' = Len(conn) + 1 /\ pc'[p] = "connect"
      BY <1>0, <1>15 DEF ConnectCreate, Goto, ClientTypeOK
    <2>2. QED
      BY <1>0, <1>4, <2>1 DEF Repairs
  <1>16. CASE ConnectStart(p)
    <2>1. pc[p] = "connect" /\ sock' = sock
      BY <1>16 DEF ConnectStart
    <2>2. CASE sock = NoSock
      <3>1. PICK v \in Workers : pc[v] \in {"clearing", "create"}
        BY <1>3, <2>2
      <3>2. v # p /\ pc'[v] = pc[v]
        BY <1>1, <2>1, <3>1
      <3>3. QED
        BY <3>1, <3>2 DEF Repaired, Repairs
    <2>3. CASE ConnectFails(p)
      BY <1>5, <2>1, <2>3 DEF ConnectFails
    <2>4. CASE Goto(p, "connect", "connecting") /\ sock # NoSock
      <3>1. pc'[p] = "connecting"
        BY <1>0, <2>4 DEF Goto, ClientTypeOK
      <3>2. QED
        BY <1>4, <2>1, <2>4, <3>1 DEF Repairs
    <2>5. QED
      BY <1>16, <2>2, <2>3, <2>4 DEF ConnectStart
  <1>17. CASE ConnectOk(p) \/ ConnectMark(p) \/ ConnectReady(p)
    <2>1. pc[p] \in {"connecting", "mark", "wait"} /\ sock' = sock
      BY <1>17 DEF ConnectOk, ConnectMark, ConnectReady, Goto, shared
    <2>2. at'[p] = "reconnect"
      BY <2>1, WorkersCalls
    <2>3. pc'[p] \in {"mark", "wait"} \/ (pc'[p] = "idle" /\ ret'[p] = "true")
      BY <1>0, <1>17 DEF ConnectOk, ConnectMark, ConnectReady, Goto, Return, ClientTypeOK
    <2>4. Repairs(p)'
      BY <2>2, <2>3 DEF Repairs
    <2>5. QED
      BY <1>4, <2>1, <2>4
  <1>18. QED
    BY <1>7, <1>8, <1>9, <1>10, <1>11, <1>12, <1>13, <1>14, <1>15, <1>16, <1>17 DEF ClientStep

\* A step of a worker outside its calls: after a reconnection it sends.
LEMMA RepairedWorker ==
  ASSUME ClientIInv, CallPoints, NodeIInv, Progress, Repaired, NEW p \in Workers, WorkerNext(p)
  PROVE  Repaired'
  <1>0. /\ ClientTypeOK /\ p \in Procs /\ p # Main /\ Workers \subseteq Procs
        /\ Main \in Procs
        /\ pc[p] = "idle" \/ UNCHANGED clientVars
    BY Constants DEF ClientIInv, WorkerNext, Begin, Continue, Stop, Interrupted,
       SkipMalformed,
       SendPoint, PointSent, Reconnect, Resend, ReconnectFailed, SkipUnsent, Escape, Complete,
       Answered, BeginSend, BeginReconnect, Refuse, Start
  <1>1. UNCHANGED <<sock, connected, conn>> /\ Usable' = Usable
    BY CallsOfWorker, <1>0 DEF shared, Usable
  <1>2. at'[Main] = at[Main]
    BY <1>0 DEF NodeIInv, WorkerNext, Begin, Continue, Stop, Interrupted, SkipMalformed,
       SendPoint, PointSent, Reconnect, Resend, ReconnectFailed, SkipUnsent, Escape, Complete,
       ReturnFrom, Leave, NextPoint, StepTo, Move
  <1>3. /\ \A q \in Workers \ {p} : Repairs(q) => Repairs(q)'
        /\ \A q \in Workers \ {p} : pc'[q] = pc[q]
    <2>1. \A q \in Workers \ {p} : at'[q] = at[q]
      BY <1>0 DEF NodeIInv, WorkerNext, Begin, Continue, Stop, Interrupted, SkipMalformed,
         SendPoint, PointSent, Reconnect, Resend, ReconnectFailed, SkipUnsent, Escape,
         Complete,
         ReturnFrom, Leave, NextPoint, StepTo, Move
    <2>2. QED
      BY <1>0, <1>1, <2>1, CallsOfWorker DEF Repairs
  <1>4. connected /\ Repairs(p) => Repairs(p)'
    <2> SUFFICES ASSUME connected, Repairs(p) PROVE Repairs(p)'
      OBVIOUS
    <2>1. at[p] \in {"send", "reconnect", "resend"}
      BY DEF Repairs, Progress, CallFits, CallPoints, NodeIInv, WorkerOK, WorkerPoints
    <2>2. pc[p] = "idle"
      BY <2>1 DEF WorkerNext, Begin, Continue, Stop, Interrupted, SkipMalformed, SendPoint,
         PointSent, Reconnect, Resend, ReconnectFailed, SkipUnsent, Escape, Complete, Answered
    <2>3. at[p] = "reconnect" /\ ret[p] = "true"
      BY <2>2 DEF Repairs
    <2>4. Resend(p)
      BY <2>3 DEF WorkerNext, Begin, Continue, Stop, Interrupted, SkipMalformed, SendPoint,
         PointSent, Reconnect, ReconnectFailed, SkipUnsent, Escape, Complete, Answered
    <2>5. pc'[p] = "lock"
      BY <1>0, <2>4 DEF Resend, BeginSend, Start, ClientTypeOK
    <2>6. QED
      BY <2>5 DEF Repairs
  <1>5. pc[p] \in {"clearing", "create"} => pc'[p] = pc[p]
    BY <1>0 DEF clientVars
  <1>6. QED
    BY <1>1, <1>2, <1>3, <1>4, <1>5 DEF Repaired

\* The main thread: it gives way to the workers with a usable connection.
LEMMA OpeningMain ==
  ASSUME ClientIInv, CallPoints, NodeIInv, Phases, Repaired, Opening, MainNext
  PROVE  Repaired' /\ Opening'
  <1>0. /\ ClientTypeOK /\ Main \in Procs /\ Main \notin Workers /\ Workers \subseteq Procs
    BY Constants DEF ClientIInv
  <1>1. UNCHANGED <<sock, connected, conn>> /\ Usable' = Usable
    BY DEF MainNext, MainGoesOn, NodeStart, NodeRetry, NodeUp, NodeGivesUp, NodeShutdown,
       NodeStopped,
       BeginConnect, BeginReconnect, BeginDisconnect, clientVars, shared, Usable
  <1>2. CASE NodeStart \/ NodeRetry
    <2>1. /\ at'[Main] \in {"connect", "reconnect"} /\ op'[Main] \in {"connect", "reconnect"}
          /\ pc'[Main] \in {"create", "disc"} /\ up' = up /\ ~up
      BY <1>0, <1>2 DEF NodeStart, NodeRetry, Answered, MainStep, Move, BeginConnect,
         BeginReconnect, Start, NodeIInv, ClientTypeOK, Phases
    <2>2. QED
      BY <2>1 DEF Repaired, Opening
  <1>3. CASE NodeUp
    <2>1. ~up /\ pc[Main] = "idle" /\ ret[Main] = "true" /\ up'
      BY <1>3 DEF NodeUp, Answered, Phases
    <2>2. Usable'
      BY <1>1, <2>1 DEF Opening
    <2>3. QED
      BY <2>1, <2>2 DEF Repaired, Opening, Usable
  <1>4. CASE NodeGivesUp \/ NodeStopped
    <2>1. at'[Main] = "exited" /\ UNCHANGED <<clientVars, up>>
      BY <1>0, <1>4 DEF NodeGivesUp, NodeStopped, MainStep, Move, NodeIInv
    <2>2. QED
      BY <1>1, <2>1 DEF Repaired, Opening, clientVars
  <1>5. CASE NodeShutdown
    <2>1. at[Main] = "spin" /\ at'[Main] = "hook" /\ up' = up
      BY <1>0, <1>5 DEF NodeShutdown, MainStep, Move, NodeIInv
    <2>2. QED
      BY <2>1 DEF Repaired, Opening
  <1>6. QED
    BY <1>2, <1>3, <1>4, <1>5 DEF MainNext, MainGoesOn

\* The constructor's connect.
LEMMA OpeningStep ==
  ASSUME ClientIInv, CallPoints, Phases, Opening, ~up, ClientStep(Main),
         at' = at, up' = up
  PROVE  Opening'
  <1>0. /\ ClientTypeOK /\ Main \in Procs /\ Len(conn) \in Nat /\ NoSock = 0
        /\ sock \in 0..Len(conn) /\ conn \in Seq(SockStates) /\ op[Main] # "disconnect"
    BY Constants DEF ClientIInv, ClientTypeOK, NoSock, Opening
  <1>1. op'[Main] # "disconnect" /\ pc[Main] \notin {"lock", "io", "idle"}
    BY <1>0, StepEffect DEF CallGoesOn, CallReturns, Phases, CallPoints
  <1>2. pc[Main] = "connecting" => hold[Main] = sock /\ sock \in 1..Len(conn)
    BY <1>0 DEF Opening, ClientIInv, SockHeld
  <1>3. pc[Main] \in {"mark", "wait"} => Usable
    BY DEF Opening
  <1>4. \/ /\ pc'[Main] = "connecting" /\ hold'[Main] = sock /\ sock' = sock
        \/ /\ pc[Main] = "connecting" /\ pc'[Main] = "mark" /\ sock' = sock
           /\ conn' = [conn EXCEPT ![hold[Main]] = "open"]
        \/ /\ pc[Main] \in {"mark", "wait"} /\ UNCHANGED <<sock, conn>>
           /\ pc'[Main] \in {"wait", "idle"}
        \/ pc'[Main] = "idle" /\ ret'[Main] # "true"
        \/ pc'[Main] \in {"closing", "dropping", "clearing", "create", "connect"}
    BY <1>0, <1>1 DEF ClientStep, UseSocket, SendOk, SendError, ReceiveEnds,
       ReceiveError, DisconnectLock, DisconnectClose, DisconnectDrop, DisconnectEnd,
       ConnectCreate, ConnectStart, ConnectOk, ConnectError, ConnectMark, ConnectReady,
       ConnectFails, Goto, Return, shared, ClientTypeOK
  <1>5. pc'[Main] \in {"mark", "wait"} \/ (pc'[Main] = "idle" /\ ret'[Main] = "true") => Usable'
    BY <1>0, <1>2, <1>3, <1>4 DEF Usable
  <1>6. QED
    BY <1>1, <1>4, <1>5 DEF Opening

LEMMA RepairedNext ==
  ASSUME ClientIInv, CallPoints, NodeIInv, Progress, Phases, Repaired, Opening, [Next]_vars
  PROVE  Repaired' /\ Opening'
  <1>0. /\ Main \in Procs /\ Main \notin Workers /\ Workers \subseteq Procs
        /\ Procs = Workers \cup {Main} /\ ClientTypeOK
    BY Constants DEF ClientIInv
  <1>1. CASE MainNext
    BY <1>1, OpeningMain
  <1>2. ASSUME NEW w \in Workers, WorkerNext(w) PROVE Repaired' /\ Opening'
    <2>1. up /\ up' = up
      BY <1>2 DEF Phases, WorkerNext, Begin, Continue, Stop, Interrupted, SkipMalformed,
         SendPoint,
         PointSent, Reconnect, Resend, ReconnectFailed, SkipUnsent, Escape, Complete,
         Answered,
         ReturnFrom, Leave, NextPoint, StepTo
    <2>2. QED
      BY <1>2, <2>1, RepairedWorker DEF Opening
  <1>3. ASSUME NEW w \in Workers, NEW j \in JobsOf[w], Accept(w, j)
        PROVE  Repaired' /\ Opening'
    <2>1. UNCHANGED clientVars /\ up /\ up' = up /\ at[w] = "idle"
      BY <1>3 DEF Accept
    <2>2. at'[Main] = at[Main] /\ \A v \in Workers \ {w} : at'[v] = at[v]
      BY <1>0, <1>3 DEF Accept, Move, NodeIInv
    <2>3. \A v \in Workers : Repairs(v) => Repairs(v)'
      BY <2>1, <2>2 DEF Repairs, clientVars
    <2>4. QED
      BY <2>1, <2>2, <2>3 DEF Repaired, Opening, Usable, clientVars
  <1>4. ASSUME NEW p \in Procs, CallStep(p) PROVE Repaired' /\ Opening'
    <2>1. ClientStep(p) /\ at' = at /\ up' = up
      BY <1>4 DEF CallStep, handlerVars
    <2>2. pc[p] # "idle"
      BY <1>0, <2>1, StepEffect
    <2>3. CASE up
      <3>1. CASE at[Main] = "spin"
        <4>1. p \in Workers
          BY <1>0, <2>2, <2>3, <3>1 DEF Phases
        <4>2. QED
          BY <2>1, <2>3, <3>1, <4>1, RepairedStep DEF Opening
      <3>2. CASE at[Main] # "spin"
        BY <2>1, <2>3, <3>2 DEF Repaired, Opening
      <3>3. QED
        BY <3>1, <3>2
    <2>4. CASE ~up
      <3>1. p = Main
        BY <1>0, <2>2, <2>4 DEF Phases
      <3>2. Opening'
        BY <2>1, <2>4, <3>1, OpeningStep
      <3>3. at'[Main] # "spin"
        BY <2>1, <2>4 DEF Opening
      <3>4. QED
        BY <3>2, <3>3 DEF Repaired
    <2>5. QED
      BY <2>3, <2>4
  <1>5. CASE UNCHANGED vars
    BY <1>5 DEF vars, clientVars, handlerVars, Repaired, Repairs, Opening, Usable
  <1>6. QED
    BY <1>1, <1>2, <1>3, <1>4, <1>5 DEF Next, Done

LEMMA Opened == Spec => [](Repaired /\ Opening)
  <1>1. Init => Repaired /\ Opening
    <2> SUFFICES ASSUME Init PROVE Repaired /\ Opening
      OBVIOUS
    <2>1. at[Main] = "start" /\ pc[Main] = "idle" /\ op[Main] = "none" /\ ret[Main] = "none"
      BY Constants DEF Init, ClientInit
    <2>2. QED
      BY <2>1 DEF Repaired, Opening
  <1>2. /\ ClientIInv /\ CallPoints /\ NodeIInv /\ Progress /\ Phases
        /\ Repaired /\ Opening /\ [Next]_vars
        => Repaired' /\ Opening'
    BY RepairedNext
  <1>3. Spec => []CallPoints
    BY DriverUsesClient, ClientCalls, PTL
  <1>4. QED
    BY <1>1, <1>2, <1>3, ClientStrong, NodeTyped, Progresses, Phased, PTL DEF Spec

\* However the connects and disconnects of any number of workers overtake each
\* other, and however often the network fails: when all have come to rest, a set
\* flag means a usable connection.
THEOREM DriverRestingFlagUsable == Spec => []RestingFlagUsable
  <1>1. Repaired => RestingFlagUsable
    BY Constants DEF Repaired, Repairs, RestingFlagUsable, AtRest, Usable
  <1>2. QED
    BY <1>1, Opened, PTL

-----------------------------------------------------------------------------
\* Nobody is stuck.

\* Every call that a worker makes ends with an outcome.  The constructor and the
\* shutdown hook handle fewer outcomes than there are, and get no others: the
\* constructor's connect always finds the socket it has created, as no worker is
\* about yet that could drop it.  The lock is free or has one holder.
Answers ==
  /\ at[Main] \in MainPoints
  /\ \A w \in Workers :
       at[w] \in {"send", "reconnect", "resend"} /\ pc[w] = "idle" => ret[w] # "none"
  /\ at[Main] \in {"connect", "reconnect"} =>
       /\ pc[Main] = "idle" => ret[Main] \in {"true", "false"}
       /\ pc[Main] = "connect" => sock # NoSock
  /\ at[Main] = "hook" /\ pc[Main] = "idle" => ret[Main] = "true"
  /\ lock # {} => \E q \in Procs : lock = {q}

\* Answers, and what the phases of the node say, leave nobody stuck.
LEMMA AnswersSuffice ==
  ASSUME ClientTypeOK, NodeIInv, LockDiscipline, Answers
  PROVE  NobodyStuck
  <1> SUFFICES ASSUME NEW p \in Procs, UnderWay(p)
               PROVE  \/ CallGoes(p) \/ CodeGoes(p)
                      \/ AtLock(p) /\ \E q \in Procs : lock = {q} /\ CallGoes(q)
    BY DEF NobodyStuck
  <1>1. CASE pc[p] # "idle"
    <2>1. CASE AtLock(p)
      <3>1. PICK q \in Procs : lock = {q}
        BY <2>1 DEF AtLock, Answers
      <3>2. CallGoes(q)
        BY <3>1 DEF LockDiscipline, InLock, CallGoes, AtLock
      <3>3. QED
        BY <2>1, <3>1, <3>2
    <2>2. QED
      BY <1>1, <2>1 DEF CallGoes
  <1>2. CASE pc[p] = "idle" /\ p \in Workers
    <2>1. ret[p] \in Outcomes /\ at[p] \in WorkerPoints /\ p # Main
      BY <1>2, Constants DEF ClientTypeOK, NodeIInv, WorkerOK
    <2>2. QED
      BY <1>2, <2>1 DEF UnderWay, CodeGoes, Answers, WorkerPoints, Outcomes
  <1>3. CASE pc[p] = "idle" /\ p = Main
    BY <1>3 DEF UnderWay, CodeGoes, Answers, MainPoints
  <1>4. QED
    BY <1>1, <1>2, <1>3, Constants

\* The lock changes hands by way of being free.
LEMMA LockChanges ==
  ASSUME NEW p \in Procs, ClientStep(p)
  PROVE  lock' \in {lock, {}, {p}}
  BY DEF ClientStep, UseSocket, SendOk, SendError, ReceiveEnds, ReceiveError, DisconnectLock,
     DisconnectClose, DisconnectDrop, DisconnectEnd, ConnectCreate, ConnectStart, ConnectOk,
     ConnectError, ConnectMark, ConnectReady, shared

\* How a call ends: with an outcome, which for a disconnect is True, and for the
\* calls of the constructor an exception only when the socket is gone.
LEMMA CallsEnd ==
  ASSUME ClientTypeOK, CallPoints, NEW p \in Procs, ClientStep(p), pc'[p] = "idle"
  PROVE  /\ ret'[p] \in {"true", "false", "raised"}
         /\ op[p] \notin {"send", "receive"} /\ ret'[p] = "raised"
              => pc[p] = "connect" /\ sock = NoSock
         /\ pc[p] \in {"disc", "closing", "dropping", "clearing"} => ret'[p] = "true"
  <1>0. /\ \A outcome : Return(p, outcome) => ret'[p] = outcome
        /\ \A from : \A to \in Points \ {"idle"} : ~Goto(p, from, to)
    BY DEF ClientTypeOK, Return, Goto
  <1>1. CASE UseSocket(p) \/ SendOk(p) \/ SendError(p) \/ ReceiveEnds(p) \/ ReceiveError(p)
    <2>1. op[p] \in {"send", "receive"} /\ pc[p] \in {"lock", "io"}
      BY <1>1 DEF UseSocket, SendOk, SendError, ReceiveEnds, ReceiveError, CallPoints
    <2>2. \E outcome \in {"true", "false", "raised"} : Return(p, outcome)
      BY <1>0, <1>1 DEF UseSocket, SendOk, SendError, ReceiveEnds, ReceiveError, Points
    <2>3. QED
      BY <1>0, <2>1, <2>2
  <1>2. CASE \/ DisconnectLock(p) \/ DisconnectClose(p)
             \/ DisconnectDrop(p) \/ DisconnectEnd(p)
    BY <1>0, <1>2 DEF DisconnectLock, DisconnectClose, DisconnectDrop, DisconnectEnd, Points
  <1>3. CASE ConnectCreate(p) \/ ConnectOk(p) \/ ConnectMark(p)
    BY <1>0, <1>3 DEF ConnectCreate, ConnectOk, ConnectMark, Points
  <1>4. CASE ConnectReady(p)
    BY <1>0, <1>4 DEF ConnectReady
  <1>5. CASE ConnectStart(p) \/ ConnectError(p)
    <2>1. \/ Return(p, "raised") /\ pc[p] = "connect" /\ sock = NoSock
          \/ Return(p, "false") /\ pc[p] \in {"connect", "connecting"}
      <3>1. pc'[p] = "create" => FALSE
        OBVIOUS
      <3>2. ~(pc' = [pc EXCEPT ![p] = "create"])
        BY <3>1 DEF ClientTypeOK
      <3>3. QED
        BY <1>0, <1>5, <3>2 DEF ConnectStart, ConnectError, ConnectFails, Points
    <2>2. QED
      BY <1>0, <2>1
  <1>6. QED
    BY <1>1, <1>2, <1>3, <1>4, <1>5 DEF ClientStep

\* A step of the constructor's or the hook's call.
LEMMA AnswersMain ==
  ASSUME ClientTypeOK, CallPoints, Phases, Opening, Answers, ClientStep(Main), at' = at
  PROVE  /\ at[Main] \in {"connect", "reconnect"} =>
              /\ pc'[Main] = "idle" => ret'[Main] \in {"true", "false"}
              /\ pc'[Main] = "connect" => sock' # NoSock
         /\ at[Main] = "hook" /\ pc'[Main] = "idle" => ret'[Main] = "true"
  <1>0. Main \in Procs /\ pc[Main] # "idle" /\ op[Main] \notin {"send", "receive"}
    BY Constants, StepEffect DEF Phases
  <1>1. at[Main] \in {"connect", "reconnect"} /\ pc'[Main] = "idle"
          => ret'[Main] \in {"true", "false"}
    BY <1>0, CallsEnd DEF Answers
  <1>2. pc'[Main] = "connect" => sock' # NoSock
    <2>1. CASE ConnectCreate(Main)
      BY <2>1 DEF ConnectCreate, ClientTypeOK, NoSock
    <2>2. ASSUME NEW to \in {"idle", "io", "closing", "dropping", "clearing", "create",
                             "connecting", "mark", "wait"}, pc' = [pc EXCEPT ![Main] = to]
          PROVE  pc'[Main] # "connect"
      BY <1>0, <2>2 DEF ClientTypeOK
    <2>3. CASE ~ConnectCreate(Main)
      <3>1. CASE \/ UseSocket(Main) \/ SendOk(Main) \/ SendError(Main)
                 \/ ReceiveEnds(Main) \/ ReceiveError(Main)
        BY <2>2, <3>1 DEF UseSocket, SendOk, SendError, ReceiveEnds, ReceiveError, Goto, Return
      <3>2. CASE \/ DisconnectLock(Main) \/ DisconnectClose(Main)
                 \/ DisconnectDrop(Main) \/ DisconnectEnd(Main)
        BY <2>2, <3>2 DEF DisconnectLock, DisconnectClose, DisconnectDrop, DisconnectEnd,
           Goto, Return
      <3>3. CASE \/ ConnectStart(Main) \/ ConnectOk(Main) \/ ConnectError(Main)
                 \/ ConnectMark(Main) \/ ConnectReady(Main)
        BY <2>2, <3>3 DEF ConnectStart, ConnectOk, ConnectError, ConnectMark, ConnectReady,
           ConnectFails, Goto, Return
      <3>4. QED
        BY <2>3, <3>1, <3>2, <3>3 DEF ClientStep
    <2>4. QED
      BY <2>1, <2>3
  <1>3. at[Main] = "hook" /\ pc'[Main] = "idle" => ret'[Main] = "true"
    <2>1. at[Main] = "hook" => pc[Main] \in {"disc", "closing", "dropping", "clearing"}
      BY <1>0 DEF Phases, Opening
    <2>2. QED
      BY <1>0, <2>1, CallsEnd
  <1>4. QED
    BY <1>1, <1>2, <1>3

LEMMA AnswersStep ==
  ASSUME ClientTypeOK, CallPoints, NodeIInv, Phases, Opening, Answers, [Next]_vars
  PROVE  Answers'
  <1>0. /\ Main \in Procs /\ Main \notin Workers /\ Workers \subseteq Procs
        /\ Procs = Workers \cup {Main}
    BY Constants
  <1>1. CASE MainNext
    <2>1. /\ UNCHANGED <<lock, sock>>
          /\ \A w \in Workers : at'[w] = at[w] /\ pc'[w] = pc[w] /\ ret'[w] = ret[w]
      BY <1>0, <1>1 DEF MainNext, MainGoesOn, NodeStart, NodeRetry, NodeUp, NodeGivesUp,
         NodeShutdown, NodeStopped, MainStep, Move, NodeIInv, ClientTypeOK, BeginConnect,
         BeginReconnect, BeginDisconnect, Start, clientVars, shared
    <2>2. \/ at'[Main] = "connect" /\ pc'[Main] = "create"
          \/ at'[Main] \in {"reconnect", "hook"} /\ pc'[Main] = "disc"
          \/ at'[Main] \in {"spin", "exited"}
      BY <1>0, <1>1 DEF MainNext, MainGoesOn, NodeStart, NodeRetry, NodeUp, NodeGivesUp,
         NodeShutdown, NodeStopped, MainStep, Move, NodeIInv, ClientTypeOK, BeginConnect,
         BeginReconnect, BeginDisconnect, Start
    <2>3. QED
      BY <2>1, <2>2 DEF Answers, MainPoints
  <1>2. ASSUME NEW w \in Workers, WorkerNext(w) PROVE Answers'
    <2>1. /\ at'[Main] = at[Main] /\ \A v \in Workers \ {w} : at'[v] = at[v]
          /\ UNCHANGED shared
          /\ \A q \in Procs \ {w} : pc'[q] = pc[q] /\ ret'[q] = ret[q]
      <3>1. /\ UNCHANGED shared
            /\ \A q \in Procs \ {w} : pc'[q] = pc[q] /\ ret'[q] = ret[q]
        BY <1>2, CallsOfWorker
      <3>2. QED
        BY <1>0, <1>2, <3>1 DEF NodeIInv, WorkerNext, Begin, Continue, Stop, Interrupted,
           SkipMalformed, SendPoint, PointSent, Reconnect, Resend, ReconnectFailed, SkipUnsent,
           Escape, Complete, ReturnFrom, Leave, NextPoint, StepTo, Move
    <2>2. at'[w] \in {"send", "reconnect", "resend"} /\ pc'[w] = "idle" => ret'[w] # "none"
      <3>1. CASE SendPoint(w) \/ Resend(w)
        BY <1>0, <3>1, SendEffect DEF SendPoint, Resend
      <3>2. CASE Reconnect(w)
        BY <1>0, <3>2 DEF Reconnect, BeginReconnect, Start, ClientTypeOK
      <3>3. CASE ~SendPoint(w) /\ ~Resend(w) /\ ~Reconnect(w)
        BY <1>0, <1>2, <3>3 DEF NodeIInv, WorkerNext, Begin, Continue, Stop, Interrupted,
           SkipMalformed, PointSent, ReconnectFailed, SkipUnsent, Escape, Complete, ReturnFrom,
           Leave, NextPoint, StepTo, Move
      <3>4. QED
        BY <3>1, <3>2, <3>3
    <2>3. QED
      BY <1>0, <2>1, <2>2 DEF Answers, shared
  <1>3. ASSUME NEW w \in Workers, NEW j \in JobsOf[w], Accept(w, j) PROVE Answers'
    <2>1. /\ UNCHANGED clientVars /\ at'[Main] = at[Main]
          /\ \A v \in Workers : at'[v] = at[v] \/ at'[v] = "begin"
      BY <1>0, <1>3 DEF Accept, Move, NodeIInv
    <2>2. QED
      BY <2>1 DEF Answers, clientVars
  <1>4. ASSUME NEW p \in Procs, CallStep(p) PROVE Answers'
    <2>1. ClientStep(p) /\ at' = at /\ up' = up
      BY <1>4 DEF CallStep, handlerVars
    <2>2. pc[p] # "idle" /\ Alone(p)
      BY <2>1, StepEffect
    <2>3. ASSUME NEW w \in Workers, at'[w] \in {"send", "reconnect", "resend"},
                 pc'[w] = "idle"
          PROVE  ret'[w] # "none"
      <3>1. CASE w = p
        BY <2>1, <2>3, <3>1, CallsEnd
      <3>2. CASE w # p
        BY <1>0, <2>1, <2>2, <2>3, <3>2 DEF Alone, Answers
      <3>3. QED
        BY <3>1, <3>2
    <2>4. /\ at[Main] \in {"connect", "reconnect"} =>
               /\ pc'[Main] = "idle" => ret'[Main] \in {"true", "false"}
               /\ pc'[Main] = "connect" => sock' # NoSock
          /\ at[Main] = "hook" /\ pc'[Main] = "idle" => ret'[Main] = "true"
      <3>1. CASE p = Main
        BY <2>1, <3>1, AnswersMain
      <3>2. CASE p # Main
        <4>1. pc'[Main] = pc[Main] /\ ret'[Main] = ret[Main]
          BY <1>0, <2>2, <3>2 DEF Alone
        <4>2. at[Main] \notin {"connect", "reconnect"}
          BY <1>0, <2>2, <3>2 DEF Phases
        <4>3. QED
          BY <4>1, <4>2 DEF Answers
      <3>3. QED
        BY <3>1, <3>2
    <2>5. lock' # {} => \E q \in Procs : lock' = {q}
      BY <2>1, LockChanges DEF Answers
    <2>6. QED
      BY <2>1, <2>3, <2>4, <2>5 DEF Answers
  <1>5. CASE UNCHANGED vars
    BY <1>5 DEF vars, clientVars, handlerVars, Answers
  <1>6. QED
    BY <1>1, <1>2, <1>3, <1>4, <1>5 DEF Next, Done

\* No thread of the driver is ever stuck, for any number of workers and network
\* failures: it goes on, or waits for the lock, whose holder goes on; and no call
\* ends in a way that the code it returns to does not handle.
THEOREM DriverNeverStuck == Spec => []NobodyStuck
  <1>1. Init => Answers
    <2> SUFFICES ASSUME Init PROVE Answers
      OBVIOUS
    <2>1. at[Main] = "start" /\ lock = {} /\ \A w \in Workers : at[w] = "idle"
      BY Constants DEF Init, ClientInit
    <2>2. QED
      BY <2>1 DEF Answers, MainPoints
  <1>2. /\ ClientTypeOK /\ CallPoints /\ NodeIInv /\ Phases /\ Opening /\ Answers /\ [Next]_vars
        => Answers'
    BY AnswersStep
  <1>3. ClientTypeOK /\ NodeIInv /\ LockDiscipline /\ Answers => NobodyStuck
    BY AnswersSuffice
  <1>4. Spec => [](ClientTypeOK /\ CallPoints)
    BY DriverUsesClient, ClientTyped, ClientCalls, PTL
  <1>5. QED
    BY <1>1, <1>2, <1>3, <1>4, DriverLocked, NodeTyped, Phased, Opened, PTL DEF Spec

-----------------------------------------------------------------------------
\* One worker.

OneWorker == \A v, w \in Workers : v = w

Used(s) == \E k \in 1..Len(wire) : wire[k].sock = s
Torn(s) == \E k \in 1..Len(wire) : wire[k].sock = s /\ ~wire[k].ok

\* A socket is not written to while it is connected, and one with part of a
\* line on it is neither marked as connected nor about to be written to.
SocketsWhole ==
  /\ \A k \in 1..Len(wire) : wire[k].sock \in 1..Len(conn)
  /\ \A w \in Workers : pc[w] \in {"connect", "connecting", "mark"} => ~Used(sock)
  /\ \A w \in Workers : pc[w] = "io" => ~Torn(hold[w])
  /\ Torn(sock) => ~connected /\ \A w \in Workers : pc[w] # "lock"
  /\ LinesWhole

LEMMA SocketsQuiet ==
  ASSUME ClientTypeOK, SocketsWhole, wire' = wire, Len(conn') \in Nat,
         Len(conn') >= Len(conn), sock' = sock \/ ~Used(sock'),
         \A w \in Workers : pc'[w] \in {"connect", "connecting", "mark"} =>
           pc[w] \in {"connect", "connecting", "mark"} \/ ~Used(sock'),
         \A w \in Workers : pc'[w] = "io" =>
           ~Torn(hold'[w]) \/ (pc[w] = "io" /\ hold'[w] = hold[w]),
         Torn(sock') => ~connected' /\ \A w \in Workers : pc'[w] # "lock"
  PROVE  SocketsWhole'
  <1>1. \A k \in 1..Len(wire) : wire[k].sock \in 1..Len(conn')
    BY DEF SocketsWhole, ClientTypeOK
  <1>2. LinesWhole'
    BY DEF SocketsWhole, LinesWhole
  <1>3. \A w \in Workers : pc'[w] \in {"connect", "connecting", "mark"} => ~Used(sock')
    BY DEF SocketsWhole
  <1>4. \A w \in Workers : pc'[w] = "io" => ~Torn(hold'[w])
    BY DEF SocketsWhole
  <1>5. /\ \A s : Used(s) <=> \E k \in 1..Len(wire') : wire'[k].sock = s
        /\ \A s : Torn(s) <=> \E k \in 1..Len(wire') : wire'[k].sock = s /\ ~wire'[k].ok
    BY DEF Used, Torn
  <1>6. QED
    BY <1>1, <1>2, <1>3, <1>4, <1>5 DEF SocketsWhole, Used, Torn

\* A step that leaves sockets and flag alone, or resets the flag, and brings no
\* worker to a point where it connects or sends.
LEMMA SocketsKept ==
  ASSUME ClientTypeOK, SocketsWhole, wire' = wire, sock' = sock, Len(conn') = Len(conn),
         connected' => connected,
         \A w \in Workers : \/ pc'[w] \notin {"lock", "io", "connect", "connecting", "mark"}
                            \/ pc'[w] = pc[w] /\ hold'[w] = hold[w]
  PROVE  SocketsWhole'
  <1>1. Len(conn) \in Nat
    BY DEF ClientTypeOK
  <1>2. QED
    BY <1>1, SocketsQuiet DEF SocketsWhole

\* No line was ever written to what a new or missing socket is called.
LEMMA Unwritten ==
  ASSUME ClientTypeOK, SocketsWhole
  PROVE  /\ ~Used(NoSock) /\ ~Used(Len(conn) + 1)
         /\ \A s : ~Used(s) => ~Torn(s)
         /\ wire = <<>> => \A s : ~Used(s)
  <1>1. Len(conn) \in Nat
    BY DEF ClientTypeOK
  <1>2. QED
    BY <1>1 DEF SocketsWhole, Used, Torn, NoSock

\* The steps of a call.
LEMMA SocketsStep ==
  ASSUME OneWorker, ClientIInv, CallPoints, NodeIInv, Progress, Phases, SocketsWhole,
         NEW p \in Procs, ClientStep(p)
  PROVE  SocketsWhole'
  <1>0. /\ ClientTypeOK /\ Len(conn) \in Nat /\ p \in Workers \cup {Main} /\ NoSock = 0
        /\ Workers \subseteq Procs /\ Main \notin Workers
    BY Constants DEF ClientIInv, ClientTypeOK, NoSock
  <1>1. \A q \in Procs \ {p} : pc'[q] = pc[q]
    BY <1>0, StepEffect DEF Alone
  <1>2. \A q \in Procs \ {p} : hold'[q] = hold[q]
    BY <1>0 DEF ClientTypeOK, ClientStep, UseSocket, SendOk, SendError, ReceiveEnds,
       ReceiveError, DisconnectLock, DisconnectClose, DisconnectDrop, DisconnectEnd,
       ConnectCreate, ConnectStart, ConnectOk, ConnectError, ConnectMark, ConnectReady,
       ConnectFails, Goto, Return, shared
  <1>3. p = Main => /\ pc[p] \notin {"lock", "io"}
                    /\ wire = <<>> \/ pc[p] \in {"disc", "closing", "dropping", "clearing"}
    <2>1. p = Main => op[p] \notin {"send", "receive"}
      BY DEF Phases
    <2>2. QED
      BY <2>1, StepEffect, <1>0 DEF Phases, CallPoints
  <1>4. CASE UseSocket(p)
    <2>1. p \in Workers /\ pc[p] = "lock"
      BY <1>0, <1>3, <1>4 DEF UseSocket
    <2>2. UNCHANGED <<sock, connected, conn, wire>>
      BY <1>4 DEF UseSocket, shared
    <2>3. pc'[p] = "idle" \/ (pc'[p] = "io" /\ hold'[p] = sock)
      BY <1>0, <1>4 DEF UseSocket, Return, Goto, ClientTypeOK
    <2>4. ~Torn(sock)
      BY <2>1 DEF SocketsWhole
    <2>5. QED
      BY <1>0, <1>1, <1>2, <2>1, <2>2, <2>3, <2>4, SocketsQuiet
  <1>5. CASE SendOk(p) \/ SendError(p)
    <2>1. p \in Workers /\ pc[p] = "io" /\ pc'[p] = "idle" /\ sock' = sock /\ conn' = conn
      BY <1>0, <1>3, <1>5 DEF SendOk, SendError, Return, ClientTypeOK
    <2>2. CASE wire' = wire
      <3>1. connected' => connected
        BY <1>5 DEF SendOk, SendError
      <3>2. QED
        BY <1>0, <1>1, <1>2, <2>1, <2>2, <3>1, SocketsKept
    <2>3. ASSUME NEW ok \in BOOLEAN, Put(p, ok), ok \/ ~connected'
          PROVE  SocketsWhole'
      <3>1. /\ Len(wire') = Len(wire) + 1 /\ Len(wire) \in Nat
            /\ \A k \in 1..Len(wire) : wire'[k] = wire[k]
            /\ wire'[Len(wire) + 1].sock = hold[p] /\ wire'[Len(wire) + 1].ok = ok
        BY <1>0, <2>3 DEF Put, ClientTypeOK
      <3>2. 1..Len(wire') = 1..Len(wire) \cup {Len(wire) + 1}
        BY <3>1
      <3>3. hold[p] \in 1..Len(conn) /\ ~Torn(hold[p])
        BY <1>0, <2>1 DEF ClientIInv, ClientTypeOK, SockHeld, SocketsWhole, NoSock
      <3>4. \A w \in Workers : w = p /\ pc'[w] = "idle"
        BY <2>1 DEF OneWorker
      <3>5. \A k \in 1..Len(wire') : wire'[k].sock \in 1..Len(conn')
        BY <2>1, <3>1, <3>2, <3>3 DEF SocketsWhole
      <3>6. Torn(sock)' => Torn(sock) \/ ~ok
        BY <2>1, <3>1, <3>2 DEF Torn
      <3>7. Torn(sock) => ~connected /\ (connected' => connected)
        BY <1>5 DEF SocketsWhole, SendOk, SendError
      <3>8. LinesWhole'
        <4> SUFFICES ASSUME NEW k \in 1..Len(wire'), NEW m \in (k+1)..Len(wire'),
                            wire'[m].sock = wire'[k].sock
                     PROVE  wire'[k].ok
          BY DEF LinesWhole
        <4>1. k \in 1..Len(wire)
          BY <3>1
        <4>2. CASE m \in 1..Len(wire)
          <5>1. m \in (k+1)..Len(wire)
            BY <3>1, <4>1, <4>2
          <5>2. QED
            BY <3>1, <4>1, <4>2, <5>1 DEF SocketsWhole, LinesWhole
        <4>3. CASE m = Len(wire) + 1
          BY <3>1, <3>3, <4>1, <4>3 DEF Torn
        <4>4. QED
          BY <3>1, <4>1, <4>2, <4>3
      <3>9. QED
        BY <2>3, <3>4, <3>5, <3>6, <3>7, <3>8 DEF SocketsWhole
    <2>4. QED
      BY <1>5, <2>2, <2>3 DEF SendOk, SendError
  <1>6. CASE ReceiveEnds(p) \/ ReceiveError(p) \/ ConnectReady(p) \/ ConnectError(p)
    <2>1. /\ UNCHANGED <<sock, wire>> /\ (connected' => connected)
          /\ pc'[p] \in {"idle", "create"}
      BY <1>0, <1>6 DEF ReceiveEnds, ReceiveError, ConnectReady, ConnectError, ConnectFails,
         Return, ClientTypeOK, shared
    <2>2. Len(conn') = Len(conn)
      BY <1>0, <1>6 DEF ReceiveEnds, ReceiveError, ConnectReady, ConnectError,
         ClientTypeOK, shared
    <2>3. QED
      BY <1>0, <1>1, <1>2, <2>1, <2>2, SocketsKept
  <1>7. CASE DisconnectLock(p) \/ DisconnectClose(p) \/ DisconnectEnd(p)
    <2>1. /\ UNCHANGED <<sock, wire>> /\ (connected' => connected)
          /\ pc'[p] \in {"idle", "create", "closing", "dropping", "clearing"}
      BY <1>0, <1>7 DEF DisconnectLock, DisconnectClose, DisconnectEnd, Goto, Return,
         ClientTypeOK
    <2>2. Len(conn') = Len(conn)
      BY <1>0, <1>7 DEF DisconnectLock, DisconnectClose, DisconnectEnd, ClientTypeOK
    <2>3. QED
      BY <1>0, <1>1, <1>2, <2>1, <2>2, SocketsKept
  <1>8. CASE DisconnectDrop(p)
    <2>1. UNCHANGED <<conn, wire>> /\ sock' = NoSock /\ pc'[p] = "clearing"
      BY <1>0, <1>8 DEF DisconnectDrop, Goto, ClientTypeOK
    <2>2. QED
      BY <1>0, <1>1, <1>2, <2>1, Unwritten, SocketsQuiet
  <1>9. CASE ConnectCreate(p)
    <2>1. /\ wire' = wire /\ sock' = Len(conn) + 1 /\ Len(conn') = Len(conn) + 1
          /\ pc'[p] = "connect"
      BY <1>0, <1>9 DEF ConnectCreate, Goto, ClientTypeOK
    <2>2. QED
      BY <1>0, <1>1, <1>2, <2>1, Unwritten, SocketsQuiet
  <1>10. CASE ConnectStart(p) \/ ConnectOk(p)
    <2>1. /\ UNCHANGED <<sock, wire>> /\ (connected' => connected)
          /\ pc[p] \in {"connect", "connecting"}
          /\ pc'[p] \in {"idle", "create", "connecting", "mark"}
      BY <1>0, <1>10 DEF ConnectStart, ConnectOk, ConnectFails, Goto, Return, ClientTypeOK
    <2>2. Len(conn') = Len(conn)
      BY <1>0, <1>10 DEF ConnectStart, ConnectOk, ClientTypeOK
    <2>3. /\ Torn(sock) => ~connected
          /\ Torn(sock) => \A w \in Workers : pc'[w] # "lock"
      <3>1. \A w \in Workers : pc'[w] = pc[w] \/ pc'[w] # "lock"
        BY <1>0, <1>1, <2>1
      <3>2. QED
        BY <3>1 DEF SocketsWhole
    <2>4. Torn(sock') => ~connected' /\ \A w \in Workers : pc'[w] # "lock"
      BY <2>1, <2>3
    <2>5. QED
      BY <1>0, <1>1, <1>2, <2>1, <2>2, <2>4, SocketsQuiet
  <1>11. CASE ConnectMark(p)
    <2>1. UNCHANGED <<sock, conn, wire>> /\ pc[p] = "mark" /\ pc'[p] = "wait"
      BY <1>0, <1>11 DEF ConnectMark, Goto, ClientTypeOK
    <2>2. ~Used(sock)
      BY <1>0, <1>3, <2>1, Unwritten DEF SocketsWhole
    <2>3. QED
      BY <1>0, <1>1, <1>2, <2>1, <2>2, Unwritten, SocketsQuiet
  <1>12. QED
    BY <1>4, <1>5, <1>6, <1>7, <1>8, <1>9, <1>10, <1>11 DEF ClientStep

\* A step of the node that leaves sockets, flag and wire alone.
LEMMA SocketsCall ==
  ASSUME ClientTypeOK, SocketsWhole, UNCHANGED shared, NEW p \in Procs,
         \A q \in Procs \ {p} : pc'[q] = pc[q] /\ hold'[q] = hold[q],
         pc'[p] \in {"idle", "disc", "create"} \/ (pc'[p] = "lock" /\ connected)
  PROVE  SocketsWhole'
  <1>1. Len(conn) \in Nat /\ Workers \subseteq Procs
    BY Constants DEF ClientTypeOK
  <1>2. UNCHANGED <<sock, conn, wire>> /\ (connected' <=> connected)
    BY DEF shared
  <1>3. Torn(sock) => ~connected /\ \A w \in Workers : pc'[w] # "lock"
    BY <1>1 DEF SocketsWhole
  <1>4. Torn(sock') => ~connected' /\ \A w \in Workers : pc'[w] # "lock"
    BY <1>2, <1>3
  <1>5. \A w \in Workers : (pc'[w] = pc[w] /\ hold'[w] = hold[w])
                           \/ pc'[w] \in {"idle", "disc", "create", "lock"}
    BY <1>1
  <1>6. QED
    BY <1>1, <1>2, <1>4, <1>5, SocketsQuiet

LEMMA SocketsNext ==
  ASSUME OneWorker, ClientIInv, CallPoints, NodeIInv, Progress, Phases, SocketsWhole,
         [Next]_vars
  PROVE  SocketsWhole'
  <1>0. /\ Main \in Procs /\ Main \notin Workers /\ Workers \subseteq Procs /\ ClientTypeOK
    BY Constants DEF ClientIInv
  <1>1. CASE MainNext
    <2>1. UNCHANGED shared /\ hold' = hold
      BY <1>1 DEF MainNext, MainGoesOn, NodeStart, NodeRetry, NodeUp, NodeGivesUp,
         NodeShutdown, NodeStopped,
         BeginConnect, BeginReconnect, BeginDisconnect, clientVars, shared
    <2>2. /\ \A q \in Procs \ {Main} : pc'[q] = pc[q]
          /\ pc'[Main] \in {"idle", "disc", "create"}
      BY <1>0, <1>1 DEF MainNext, MainGoesOn, NodeStart, NodeRetry, NodeUp, NodeGivesUp,
         NodeShutdown,
         NodeStopped, Answered, BeginConnect, BeginReconnect, BeginDisconnect, Start,
         ClientTypeOK, clientVars
    <2>3. QED
      BY <1>0, <2>1, <2>2, SocketsCall
  <1>2. CASE UNCHANGED clientVars
    BY <1>2 DEF clientVars, SocketsWhole, Used, Torn, LinesWhole
  <1>3. ASSUME NEW w \in Workers, WorkerNext(w) PROVE SocketsWhole'
    BY <1>0, <1>2, <1>3, CallsOfWorker, SocketsCall
  <1>4. QED
    BY <1>1, <1>2, <1>3, SocketsStep DEF Next, Accept, CallStep, Done, vars

LEMMA OneWorkerHolds ==
  ASSUME OneWorker
  PROVE  Spec => []SocketsWhole
  <1>1. Init => SocketsWhole
    <2> SUFFICES ASSUME Init PROVE SocketsWhole
      OBVIOUS
    <2>1. /\ wire = <<>> /\ Len(wire) = 0 /\ ~up /\ Main \in Procs
          /\ \A w \in Workers : at[w] = "idle"
          /\ \A p \in Procs : pc[p] = "idle" /\ op[p] = "none"
      BY Constants DEF Init, ClientInit
    <2>2. QED
      BY <2>1, Constants DEF SocketsWhole, Used, Torn, LinesWhole
  <1>2. /\ ClientIInv /\ CallPoints /\ NodeIInv /\ Progress
        /\ Phases /\ SocketsWhole /\ [Next]_vars
        => SocketsWhole'
    BY SocketsNext
  <1>3. Spec => []CallPoints
    BY DriverUsesClient, ClientCalls, PTL
  <1>4. QED
    BY <1>1, <1>2, <1>3, ClientStrong, Phased, NodeTyped, Progresses, PTL DEF Spec

\* With one worker a line of which only a part was written is the last thing
\* that reaches its socket, however often the connection fails.
THEOREM OneWorkerLinesWhole ==
  ASSUME OneWorker
  PROVE  Spec => []LinesWhole
  <1>1. SocketsWhole => LinesWhole
    BY DEF SocketsWhole
  <1>2. QED
    BY <1>1, OneWorkerHolds, PTL
=============================================================================
