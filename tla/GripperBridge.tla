--------------------------- MODULE GripperBridge ---------------------------
(***************************************************************************)
(* The bridge from joint_states to the Modbus gripper (GUI2Robot_90.py).   *)
(* rospy runs the callback in a thread for each publisher of the topic, so *)
(* with several publishers the two lists of the callback are shared; the   *)
(* lock of the file is held for one register write at a time.              *)
(***************************************************************************)
EXTENDS Naturals, Sequences, SequencesExt

CONSTANTS Publishers,
          Positions,     \* joint positions, converted to those of the gripper
          MaxMessages,   \* bound: messages
          MaxFailures    \* bound: exceptions of minimalmodbus

VARIABLES l1, l2,
          pc, p,      \* callbacks: where they are, and their position
          register,   \* of the gripper: the position register
          target,     \* where it was last triggered to move
          messages, failures,
          lost        \* history: the end of l2 need not be what the gripper was told

vars == <<l1, l2, pc, p, register, target, messages, failures, lost>>

Window == 5
Enough == 3
First  == 1001   \* what l2 starts with; the gripper was told nothing yet

Init ==
  /\ l1 = [i \in 1..Window |-> 0] /\ l2 = <<First>>
  /\ pc = [t \in Publishers |-> "idle"] /\ p = [t \in Publishers |-> 0]
  /\ register = 0 /\ target = 0
  /\ messages = 0 /\ failures = 0 /\ lost = TRUE

Goes(t, from, to) == pc[t] = from /\ pc' = [pc EXCEPT ![t] = to]
Listed == {"compare", "write", "trigger", "pop"}   \* after l2.append
Alone(t) == \A u \in Publishers \ {t} : pc[u] \notin Listed
Count(s, x) == Len(SelectSeq(s, LAMBDA y : y = x))

\* The callback, one access of a list at a time.
Appends(t, x) ==
  /\ Goes(t, "idle", "slide") /\ messages < MaxMessages /\ messages' = messages + 1
  /\ p' = [p EXCEPT ![t] = x] /\ l1' = Append(l1, x)
  /\ UNCHANGED <<l2, register, target, failures, lost>>
Slides(t) ==
  /\ Goes(t, "slide", "count") /\ l1' = Tail(l1)
  /\ UNCHANGED <<l2, p, register, target, messages, failures, lost>>
Counts(t) ==
  /\ Goes(t, "count", IF Count(l1, p[t]) >= Enough THEN "list" ELSE "idle")
  /\ UNCHANGED <<l1, l2, p, register, target, messages, failures, lost>>
Lists(t) ==
  /\ Goes(t, "list", "compare") /\ l2' = Append(l2, p[t])
  /\ lost' = (~Alone(t) \/ (lost /\ p[t] = Last(l2)))
  /\ UNCHANGED <<l1, p, register, target, messages, failures>>
Compares(t) ==
  /\ Goes(t, "compare", IF Last(l2) # l2[Len(l2) - 1] THEN "write" ELSE "pop")
  /\ UNCHANGED <<l1, l2, p, register, target, messages, failures, lost>>
Pops_Last(t) ==   \* mutant: l2.pop()
  /\ Goes(t, "pop", "idle") /\ l2' = Front(l2)
  /\ UNCHANGED <<l1, p, register, target, messages, failures, lost>>
Pops(t) ==
  /\ Goes(t, "pop", "idle") /\ l2' = Tail(l2)
  /\ UNCHANGED <<l1, p, register, target, messages, failures, lost>>

\* A write to the gripper, under the lock.  An exception ends the callback before
\* l2.pop; when it is the answer that was lost, the write was done nevertheless.
Fails(t) ==
  /\ failures < MaxFailures /\ failures' = failures + 1
  /\ pc' = [pc EXCEPT ![t] = "idle"] /\ lost' = TRUE
Succeeds(t, to) == pc' = [pc EXCEPT ![t] = to] /\ UNCHANGED <<failures, lost>>
write_position(t) ==
  /\ pc[t] = "write"
  /\ \/ Succeeds(t, "trigger") /\ register' = p[t]
     \/ Fails(t) /\ register' \in {register, p[t]}
  /\ UNCHANGED <<l1, l2, p, target, messages>>
trigger_motion(t) ==
  /\ pc[t] = "trigger"
  /\ \/ Succeeds(t, "pop") /\ target' = register
     \/ Fails(t) /\ target' \in {target, register}
  /\ UNCHANGED <<l1, l2, p, register, messages>>

callback(t) ==
  \/ \E x \in Positions : Appends(t, x)
  \/ Slides(t) \/ Counts(t) \/ Lists(t) \/ Compares(t) \/ Pops(t)
  \/ write_position(t) \/ trigger_motion(t)

Next == \E t \in Publishers : callback(t)

Spec == Init /\ [][Next]_vars

----------------------------------------------------------------------------
TypeOK ==
  /\ l1 \in Seq(Positions \cup {0}) /\ l2 \in Seq(Positions \cup {First})
  /\ pc \in [Publishers -> {"idle", "slide", "count", "list"} \cup Listed]
  /\ p \in [Publishers -> Positions \cup {0}]
  /\ register \in Positions \cup {0} /\ target \in Positions \cup {0}
  /\ messages \in 0..MaxMessages /\ failures \in 0..MaxFailures /\ lost \in BOOLEAN

\* However the callbacks interleave, and although an exception leaves l2 longer, a
\* callback that compares finds two positions in l2, and l1 ends with its length.
ListsKeepTheirLength ==
  LET in(S) == {t \in Publishers : pc[t] \in S}
  IN /\ \A t \in in({"compare"}) : Len(l2) >= 2
     /\ in(Listed) = {} => Len(l2) = 1 + failures
     /\ in({"slide"}) = {} => Len(l1) = Window

\* When no callback has just failed or overlapped with another, the gripper was
\* told to move to the position that l2 ends with, against which the next is
\* compared: no position is passed over, also after exceptions.
ToldWhatIsListed == ~lost /\ (\A t \in Publishers : pc[t] \notin Listed) => target = Last(l2)

GripperInv == TypeOK /\ ListsKeepTheirLength /\ ToldWhatIsListed
=============================================================================
