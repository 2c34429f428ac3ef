--------------------------- MODULE MCSharedClient ---------------------------
(***************************************************************************)
(* The client's threads for TLC, in two ways of using it: as the node      *)
(* does, and as class HKTcpClient allows, its operations called in any     *)
(* order by the workers, within bounds on the number of sockets and of     *)
(* lines.  As in the node, connect() itself is called only while there is  *)
(* no connection.                                                          *)
(***************************************************************************)
EXTENDS MCTrajectoryDriver

CONSTANTS MaxSocks,     \* no connect or reconnect begins beyond this
          MaxLines,     \* no send begins beyond this
          AnyAttempts   \* largest max_attempts passed to reconnect

VARIABLE user    \* who uses the client: "node" or "anyone"

mcVars == <<vars, user>>

\* A line of no trajectory of the node: what is in a line makes no difference.
AnyLine == CHOOSE l \in Lines : l[2] > N(l[1])

AnyCall(p) ==
  \/ /\ Len(wire) < MaxLines
     /\ \E wellFormed \in BOOLEAN : BeginSend(p, AnyLine, wellFormed)
  \/ BeginReceive(p)
  \/ Len(conn) < MaxSocks /\ ~connected /\ BeginConnect(p)
  \/ BeginDisconnect(p)
  \/ /\ Len(conn) < MaxSocks
     /\ \E attempts \in 1..AnyAttempts : BeginReconnect(p, attempts)

ByNode(A)   == user = "node" /\ A /\ UNCHANGED user
ByAnyone(A) == user = "anyone" /\ A /\ UNCHANGED <<user, handlerVars>>

MCInit == Init /\ user \in {"node", "anyone"}

MCNext ==
  \/ ByNode(Next)
  \/ \E w \in Workers : ByAnyone(ClientStep(w) \/ AnyCall(w))

MCSpec ==
  /\ MCInit /\ [][MCNext]_mcVars
  /\ \A p \in Procs : WF_mcVars(ByNode(CallStep(p)))
  /\ \A w \in Workers : WF_mcVars(ByNode(WorkerNext(w)))
  /\ WF_mcVars(ByNode(MainGoesOn))
=============================================================================
