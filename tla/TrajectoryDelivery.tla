------------------------- MODULE TrajectoryDelivery -------------------------
(***************************************************************************)
(* What the driver node promises to whoever publishes a trajectory, seen   *)
(* without threads, sockets and reconnections: its points are delivered to *)
(* the connection one after the other, each at most once; a point may be   *)
(* given up, but no later point goes out before that is decided; and the   *)
(* trajectory is reported as executed only when every point is settled.    *)
(***************************************************************************)
EXTENDS Naturals

CONSTANTS Jobs, Size     \* trajectories and their numbers of points

VARIABLES state,         \* per trajectory: "none", "running" or how it ended
          sent, lost     \* per trajectory: points delivered, points given up

dvars == <<state, sent, lost>>

Failures == {"interrupted", "failed", "raised"}

DInit ==
  /\ state = [j \in Jobs |-> "none"]
  /\ sent = [j \in Jobs |-> {}]
  /\ lost = [j \in Jobs |-> {}]

Becomes(j, from, to) ==
  /\ state[j] = from
  /\ state' = [state EXCEPT ![j] = to]
  /\ UNCHANGED <<sent, lost>>

Settled(j) == sent[j] \cup lost[j]

\* The point whose turn it is.
Due(j, i) == state[j] = "running" /\ i \in 1..Size[j] /\ Settled(j) = 1..(i-1)

Deliver(j, i) ==
  /\ Due(j, i)
  /\ sent' = [sent EXCEPT ![j] = @ \cup {i}]
  /\ UNCHANGED <<state, lost>>

GiveUp(j, i) ==
  /\ Due(j, i)
  /\ lost' = [lost EXCEPT ![j] = @ \cup {i}]
  /\ UNCHANGED <<state, sent>>

Succeed(j) ==
  /\ Settled(j) = 1..Size[j]
  /\ Becomes(j, "running", "succeeded")

DNext == \E j \in Jobs :
  \/ Becomes(j, "none", "rejected")
  \/ Becomes(j, "none", "running")
  \/ \E i \in 1..Size[j] : Deliver(j, i) \/ GiveUp(j, i)
  \/ Succeed(j)
  \/ \E failure \in Failures : Becomes(j, "running", failure)

DSpec == DInit /\ [][DNext]_dvars
=============================================================================
