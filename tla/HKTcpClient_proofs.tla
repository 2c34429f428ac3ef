------------------------- MODULE HKTcpClient_proofs -------------------------
(***************************************************************************)
(* What HKTcpClient guarantees to any number of threads that call it in    *)
(* any way, for any number of network failures.                            *)
(***************************************************************************)
EXTENDS HKTcpClient, SequenceTheorems, TLAPS

\* What the type invariant needs to be inductive: the line of a send under way
\* is one that a caller handed over, and a thread in a call to the kernel has
\* the socket it is for.
LineHeld ==
  \A p \in Procs : op[p] = "send" => line[p] \in Lines
SockHeld ==
  \A p \in Procs : pc[p] \in {"io", "connecting"} => hold[p] # NoSock

ClientIInv == ClientTypeOK /\ LineHeld /\ SockHeld

\* The initial state is well typed.
LEMMA ClientTypeInit == ClientInit => ClientIInv
  <1> SUFFICES ASSUME ClientInit PROVE ClientIInv
    OBVIOUS
  <1>a. conn = <<>> /\ conn \in Seq(SockStates) /\ Len(conn) = 0
    BY DEF ClientInit
  <1>b. wire \in Seq(Writes)
    BY DEF ClientInit
  <1>c. sock \in Nat /\ sock <= Len(conn) /\ \A p \in Procs : hold[p] <= Len(conn)
    BY <1>a DEF ClientInit, NoSock
  <1>d. faults \in 0..MaxFaults
    BY FaultsAssumption DEF ClientInit
  <1>f. connected \in BOOLEAN /\ lock \in SUBSET Procs
    BY Zenon DEF ClientInit
  <1>e. /\ pc \in [Procs -> Points] /\ op \in [Procs -> Ops]
        /\ line \in [Procs -> Lines \cup {NoLine}]
        /\ tries \in [Procs -> Nat] /\ hold \in [Procs -> Nat]
        /\ ret \in [Procs -> Outcomes]
    BY DEF ClientInit, NoSock, Points, Ops, Outcomes
  <1>1. ClientTypeOK
    BY <1>a, <1>b, <1>c, <1>d, <1>e, <1>f DEF ClientTypeOK
  <1>2. LineHeld /\ SockHeld
    BY DEF ClientInit, LineHeld, SockHeld
  <1>3. QED
    BY <1>1, <1>2 DEF ClientIInv

\* A call that returns leaves the per-thread part well typed.
LEMMA ReturnType ==
  ASSUME ClientIInv, NEW p \in Procs, NEW outcome \in Outcomes, Return(p, outcome)
  PROVE  /\ pc' \in [Procs -> Points] /\ op' \in [Procs -> Ops]
         /\ line' \in [Procs -> Lines \cup {NoLine}]
         /\ tries' \in [Procs -> Nat]
         /\ hold' \in [Procs -> Nat]
         /\ ret' \in [Procs -> Outcomes]
         /\ \A q \in Procs : hold'[q] <= Len(conn)
         /\ LineHeld' /\ SockHeld'
  BY DEF ClientIInv, ClientTypeOK, LineHeld, SockHeld, Return, NoSock, NoLine, Points, Ops

\* Moving on within a call.
LEMMA GotoType ==
  ASSUME ClientIInv, NEW p \in Procs, NEW from \in Points, NEW to \in Points,
         Goto(p, from, to), to \in {"io", "connecting"} => hold'[p] # NoSock,
         \A q \in Procs \ {p} : hold'[q] = hold[q]
  PROVE  /\ pc' \in [Procs -> Points] /\ op' \in [Procs -> Ops]
         /\ line' \in [Procs -> Lines \cup {NoLine}]
         /\ ret' \in [Procs -> Outcomes]
         /\ LineHeld' /\ SockHeld'
  BY DEF ClientIInv, ClientTypeOK, LineHeld, SockHeld, Goto

\* A write appends a well-typed entry to the history.
LEMMA PutType ==
  ASSUME ClientIInv, NEW p \in Procs, NEW whole \in BOOLEAN,
         op[p] = "send", Put(p, whole)
  PROVE  wire' \in Seq(Writes)
  <1>1. [sock |-> hold[p], line |-> line[p], ok |-> whole] \in Writes
    BY DEF ClientIInv, ClientTypeOK, LineHeld, Writes
  <1>2. QED
    BY <1>1, AppendProperties DEF ClientIInv, ClientTypeOK, Put

\* Assigning the state of a socket keeps conn a sequence of the same length.
LEMMA ConnUpdate ==
  ASSUME ClientIInv, NEW s \in 1..Len(conn), NEW state \in SockStates,
         conn' = [conn EXCEPT ![s] = state]
  PROVE  conn' \in Seq(SockStates) /\ Len(conn') = Len(conn)
  BY ExceptSeq DEF ClientIInv, ClientTypeOK

\* A failure counts against the bound.
LEMMA FaultType ==
  ASSUME ClientIInv, NEW usable \in BOOLEAN, Fault(usable)
  PROVE  faults' \in 0..MaxFaults
  BY FaultsAssumption DEF ClientIInv, ClientTypeOK, Fault

\* A refused connection attempt leaves the per-thread part well typed.
LEMMA ConnectFailsType ==
  ASSUME ClientIInv, NEW p \in Procs, ConnectFails(p)
  PROVE  /\ pc' \in [Procs -> Points] /\ op' \in [Procs -> Ops]
         /\ line' \in [Procs -> Lines \cup {NoLine}]
         /\ tries' \in [Procs -> Nat]
         /\ hold' \in [Procs -> Nat]
         /\ ret' \in [Procs -> Outcomes]
         /\ \A q \in Procs : hold'[q] <= Len(conn)
         /\ connected' \in BOOLEAN
         /\ LineHeld' /\ SockHeld'
  <1>1. CASE /\ op[p] = "reconnect" /\ tries[p] > 1
             /\ pc' = [pc EXCEPT ![p] = "create"]
             /\ tries' = [tries EXCEPT ![p] = @ - 1]
             /\ hold' = [hold EXCEPT ![p] = NoSock]
             /\ UNCHANGED <<op, line, ret>>
    <2>1. tries' \in [Procs -> Nat]
      BY <1>1 DEF ClientIInv, ClientTypeOK
    <2>2. /\ hold' \in [Procs -> Nat]
          /\ \A q \in Procs : hold'[q] <= Len(conn)
      BY <1>1 DEF ClientIInv, ClientTypeOK, NoSock
    <2>3. pc' \in [Procs -> Points]
      BY <1>1 DEF ClientIInv, ClientTypeOK, Points
    <2>4. connected' \in BOOLEAN
      BY DEF ConnectFails
    <2>5. QED
      BY <1>1, <2>1, <2>2, <2>3, <2>4 DEF ClientIInv, ClientTypeOK, LineHeld, SockHeld
  <1>2. CASE Return(p, "false")
    BY <1>2, ReturnType DEF Outcomes, ConnectFails
  <1>3. QED
    BY <1>1, <1>2 DEF ConnectFails

\* One lemma per group of steps: each keeps the invariant.
LEMMA SendTypes ==
  ASSUME ClientIInv, NEW p \in Procs, SendOk(p) \/ SendError(p)
  PROVE  ClientIInv'
  <1>1. CASE SendOk(p)
    <2>1. wire' \in Seq(Writes)
      BY <1>1, PutType DEF SendOk
    <2>2. Return(p, "true") /\ "true" \in Outcomes
      BY <1>1 DEF SendOk, Outcomes
    <2>3. QED
      BY <1>1, <2>1, <2>2, ReturnType DEF SendOk, ClientIInv, ClientTypeOK
  <1>2. CASE SendError(p)
    <2>1. wire' \in Seq(Writes)
      BY <1>2, PutType DEF SendError, ClientIInv, ClientTypeOK
    <2>2. Return(p, "false") /\ "false" \in Outcomes
      BY <1>2 DEF SendError, Outcomes
    <2>3. faults' \in 0..MaxFaults
      BY <1>2, FaultType DEF SendError
    <2>4. connected' \in BOOLEAN
      BY <1>2, Zenon DEF SendError
    <2>5. QED
      BY <1>2, <2>1, <2>2, <2>3, <2>4, ReturnType
         DEF SendError, ClientIInv, ClientTypeOK
  <1>3. QED
    BY <1>1, <1>2

LEMMA UseTypes ==
  ASSUME ClientIInv, NEW p \in Procs, UseSocket(p)
  PROVE  ClientIInv'
  <1>1. CASE sock = NoSock
    BY <1>1, ReturnType DEF UseSocket, ClientIInv, ClientTypeOK, Outcomes, shared
  <1>2. CASE sock # NoSock
    <2>1. Goto(p, "lock", "io") /\ hold' = [hold EXCEPT ![p] = sock] /\ lock' = {p}
      BY <1>2 DEF UseSocket
    <2>2. "lock" \in Points /\ "io" \in Points
      BY DEF Points
    <2>3. hold' \in [Procs -> Nat] /\ \A q \in Procs : hold'[q] <= Len(conn)
      BY <2>1 DEF ClientIInv, ClientTypeOK
    <2>4. \A q \in Procs \ {p} : hold'[q] = hold[q]
      BY <2>1 DEF ClientIInv, ClientTypeOK
    <2>5. QED
      BY <1>2, <2>1, <2>2, <2>3, <2>4, GotoType DEF UseSocket, ClientIInv, ClientTypeOK
  <1>3. QED
    BY <1>1, <1>2

LEMMA ReceiveTypes ==
  ASSUME ClientIInv, NEW p \in Procs, ReceiveEnds(p) \/ ReceiveError(p)
  PROVE  ClientIInv'
  <1>1. CASE ReceiveEnds(p)
    BY <1>1, ReturnType DEF ReceiveEnds, ClientIInv, ClientTypeOK, Outcomes
  <1>2. CASE ReceiveError(p)
    <2>1. Return(p, "false") /\ "false" \in Outcomes
      BY <1>2 DEF ReceiveError, Outcomes
    <2>2. faults' \in 0..MaxFaults
      BY <1>2, FaultType DEF ReceiveError
    <2>3. connected' \in BOOLEAN
      BY <1>2, Zenon DEF ReceiveError
    <2>4. QED
      BY <1>2, <2>1, <2>2, <2>3, ReturnType DEF ReceiveError, ClientIInv, ClientTypeOK
  <1>3. QED
    BY <1>1, <1>2

LEMMA DisconnectTypes ==
  ASSUME ClientIInv, NEW p \in Procs,
         \/ DisconnectLock(p) \/ DisconnectClose(p)
         \/ DisconnectDrop(p) \/ DisconnectEnd(p)
  PROVE  ClientIInv'
  <1> USE DEF Points
  <1>1. CASE DisconnectLock(p)
    BY <1>1, GotoType DEF DisconnectLock, ClientIInv, ClientTypeOK
  <1>2. CASE DisconnectClose(p)
    <2>1. conn' \in Seq(SockStates) /\ Len(conn') = Len(conn)
      <3>1. CASE sock = NoSock
        BY <1>2, <3>1 DEF DisconnectClose, ClientIInv, ClientTypeOK
      <3>2. CASE sock # NoSock
        <4>1. sock \in 1..Len(conn) /\ "closed" \in SockStates
          BY <3>2 DEF ClientIInv, ClientTypeOK, NoSock, SockStates
        <4>2. conn' = [conn EXCEPT ![sock] = "closed"]
          BY <1>2, <3>2 DEF DisconnectClose
        <4>3. QED
          BY <4>1, <4>2, ConnUpdate
      <3>3. QED
        BY <3>1, <3>2
    <2>2. CASE Goto(p, "closing", "clearing")
      BY <1>2, <2>1, <2>2, GotoType DEF DisconnectClose, ClientIInv, ClientTypeOK
    <2>3. CASE Goto(p, "closing", "dropping")
      BY <1>2, <2>1, <2>3, GotoType DEF DisconnectClose, ClientIInv, ClientTypeOK
    <2>4. QED
      BY <1>2, <2>2, <2>3 DEF DisconnectClose
  <1>3. CASE DisconnectEnd(p)
    <2>1. connected' \in BOOLEAN
      BY <1>3, Zenon DEF DisconnectEnd
    <2>2. CASE Goto(p, "clearing", "create") /\ UNCHANGED <<tries, hold>>
      BY <1>3, <2>1, <2>2, GotoType DEF DisconnectEnd, ClientIInv, ClientTypeOK
    <2>3. CASE Return(p, "true")
      BY <1>3, <2>1, <2>3, ReturnType DEF DisconnectEnd, ClientIInv, ClientTypeOK, Outcomes
    <2>4. QED
      BY <1>3, <2>2, <2>3 DEF DisconnectEnd
  <1>4. CASE DisconnectDrop(p)
    <2>1. sock' \in Nat /\ sock' <= Len(conn')
      BY <1>4 DEF DisconnectDrop, NoSock, ClientIInv, ClientTypeOK
    <2>2. QED
      BY <1>4, <2>1, GotoType DEF DisconnectDrop, ClientIInv, ClientTypeOK
  <1>5. QED
    BY <1>1, <1>2, <1>3, <1>4

LEMMA ConnectTypes ==
  ASSUME ClientIInv, NEW p \in Procs,
         \/ ConnectCreate(p) \/ ConnectStart(p) \/ ConnectOk(p)
         \/ ConnectError(p) \/ ConnectMark(p) \/ ConnectReady(p)
  PROVE  ClientIInv'
  <1> USE DEF Points
  <1>1. CASE ConnectCreate(p)
    <2>1. "fresh" \in SockStates
      BY DEF SockStates
    <2>2. conn' \in Seq(SockStates) /\ Len(conn') = Len(conn) + 1
      BY <1>1, <2>1, AppendProperties DEF ConnectCreate, ClientIInv, ClientTypeOK
    <2>3. sock' \in Nat /\ sock' <= Len(conn') /\ \A q \in Procs : hold[q] <= Len(conn')
      BY <1>1, <2>2, LenProperties DEF ConnectCreate, ClientIInv, ClientTypeOK
    <2>4. Goto(p, "create", "connect") /\ hold' = hold
      BY <1>1 DEF ConnectCreate
    <2>5. QED
      BY <1>1, <2>2, <2>3, <2>4, GotoType DEF ConnectCreate, ClientIInv, ClientTypeOK
  <1>2. CASE ConnectStart(p)
    <2>1. CASE sock = NoSock
      BY <1>2, <2>1, ReturnType DEF ConnectStart, ClientIInv, ClientTypeOK, Outcomes
    <2>2. CASE sock # NoSock /\ conn[sock] # "fresh"
      BY <1>2, <2>2, ConnectFailsType DEF ConnectStart, ClientIInv, ClientTypeOK
    <2>3. CASE sock # NoSock /\ conn[sock] = "fresh"
      <3>1. sock \in 1..Len(conn) /\ "connecting" \in SockStates
        BY <2>3 DEF ClientIInv, ClientTypeOK, NoSock, SockStates
      <3>2. /\ Goto(p, "connect", "connecting") /\ UNCHANGED <<connected, tries>>
            /\ hold' = [hold EXCEPT ![p] = sock]
            /\ conn' = [conn EXCEPT ![sock] = "connecting"]
            /\ UNCHANGED <<sock, lock, wire, faults>>
        BY <1>2, <2>3 DEF ConnectStart
      <3>3. conn' \in Seq(SockStates) /\ Len(conn') = Len(conn)
        BY <3>1, <3>2, ConnUpdate
      <3>4. hold' \in [Procs -> Nat] /\ \A q \in Procs : hold'[q] <= Len(conn)
        BY <3>2 DEF ClientIInv, ClientTypeOK
      <3>5. hold'[p] # NoSock /\ \A q \in Procs \ {p} : hold'[q] = hold[q]
        BY <2>3, <3>2 DEF ClientIInv, ClientTypeOK
      <3>6. QED
        BY <3>2, <3>3, <3>4, <3>5, GotoType DEF ClientIInv, ClientTypeOK
    <2>4. QED
      BY <2>1, <2>2, <2>3
  <1>3. CASE ConnectOk(p)
    <2>1. hold[p] \in 1..Len(conn) /\ "open" \in SockStates
      BY <1>3 DEF ConnectOk, Goto, ClientIInv, ClientTypeOK, SockHeld, NoSock, SockStates
    <2>2. conn' \in Seq(SockStates) /\ Len(conn') = Len(conn)
      BY <1>3, <2>1, ConnUpdate DEF ConnectOk
    <2>3. Goto(p, "connecting", "mark") /\ hold' = hold
      BY <1>3 DEF ConnectOk
    <2>4. QED
      BY <1>3, <2>2, <2>3, GotoType DEF ConnectOk, ClientIInv, ClientTypeOK
  <1>4. CASE ConnectError(p)
    <2>1. hold[p] \in 1..Len(conn) /\ "fresh" \in SockStates
      BY <1>4 DEF ConnectError, ClientIInv, ClientTypeOK, SockHeld, NoSock, SockStates
    <2>2. conn' \in Seq(SockStates) /\ Len(conn') = Len(conn)
      BY <1>4, <2>1, ConnUpdate DEF ConnectError, ClientIInv, ClientTypeOK
    <2>3. faults' \in 0..MaxFaults
      BY <1>4, FaultType DEF ConnectError
    <2>4. QED
      BY <1>4, <2>2, <2>3, ConnectFailsType DEF ConnectError, ClientIInv, ClientTypeOK
  <1>5. CASE ConnectMark(p)
    <2>1. connected' \in BOOLEAN
      BY <1>5, Zenon DEF ConnectMark
    <2>2. QED
      BY <1>5, <2>1, GotoType DEF ConnectMark, ClientIInv, ClientTypeOK
  <1>6. CASE ConnectReady(p)
    BY <1>6, ReturnType DEF ConnectReady, shared, ClientIInv, ClientTypeOK, Outcomes
  <1>7. QED
    BY <1>1, <1>2, <1>3, <1>4, <1>5, <1>6

LEMMA CallTypes ==
  ASSUME ClientIInv, NEW p \in Procs, ClientCall(p)
  PROVE  ClientIInv'
  <1> USE DEF Points, Ops, Outcomes
  <1>1. ASSUME NEW l \in Lines, NEW wellFormed \in BOOLEAN, BeginSend(p, l, wellFormed)
        PROVE  ClientIInv'
    <2>1. CASE Refuse(p)
      BY <2>1, ReturnType DEF Refuse, shared, ClientIInv, ClientTypeOK
    <2>2. CASE /\ Start(p, "send", "lock")
               /\ line' = [line EXCEPT ![p] = l]
               /\ UNCHANGED <<shared, tries, hold>>
      BY <2>2 DEF Start, shared, ClientIInv, ClientTypeOK, LineHeld, SockHeld
    <2>3. QED
      BY <1>1, <2>1, <2>2, Zenon DEF BeginSend
  <1>2. CASE BeginReceive(p)
    <2>1. CASE Refuse(p)
      BY <2>1, ReturnType DEF Refuse, shared, ClientIInv, ClientTypeOK
    <2>2. CASE ~Refuse(p)
      BY <1>2, <2>2 DEF BeginReceive, Start, shared, ClientIInv, ClientTypeOK, LineHeld, SockHeld
    <2>3. QED
      BY <2>1, <2>2
  <1>3. CASE BeginConnect(p)
    BY <1>3 DEF BeginConnect, Start, shared, ClientIInv, ClientTypeOK, LineHeld, SockHeld
  <1>4. CASE BeginDisconnect(p)
    BY <1>4 DEF BeginDisconnect, Start, shared, ClientIInv, ClientTypeOK, LineHeld, SockHeld
  <1>5. ASSUME NEW attempts \in Nat \ {0}, BeginReconnect(p, attempts)
        PROVE  ClientIInv'
    BY <1>5 DEF BeginReconnect, Start, shared, ClientIInv, ClientTypeOK, LineHeld, SockHeld
  <1>6. QED
    BY <1>1, <1>2, <1>3, <1>4, <1>5 DEF ClientCall

\* Every step of every thread keeps the invariant.
LEMMA ClientTypeStep == ClientIInv /\ [ClientNext]_clientVars => ClientIInv'
  <1> SUFFICES ASSUME ClientIInv, [ClientNext]_clientVars PROVE ClientIInv'
    OBVIOUS
  <1>1. ASSUME NEW p \in Procs, ClientStep(p) PROVE ClientIInv'
    BY <1>1, UseTypes, SendTypes, ReceiveTypes, DisconnectTypes, ConnectTypes
       DEF ClientStep
  <1>2. ASSUME NEW p \in Procs, ClientCall(p) PROVE ClientIInv'
    BY <1>2, CallTypes
  <1>3. CASE UNCHANGED clientVars
    BY <1>3 DEF clientVars, ClientIInv, ClientTypeOK, LineHeld, SockHeld
  <1>4. QED
    BY <1>1, <1>2, <1>3 DEF ClientNext

\* The client object and the calls on it stay well typed, whatever threads
\* call which operations in whatever order.
THEOREM ClientTyped == ClientSpec => []ClientTypeOK
  <1>1. ClientIInv => ClientTypeOK
    BY DEF ClientIInv
  <1>2. QED
    BY <1>1, ClientTypeInit, ClientTypeStep, PTL DEF ClientSpec

-----------------------------------------------------------------------------
\* The lock.

\* Leaving a call, or moving within it, changes the position of one thread.
LEMMA PositionType ==
  ASSUME ClientTypeOK, NEW p \in Procs, NEW to, pc' = [pc EXCEPT ![p] = to]
  PROVE  pc'[p] = to /\ \A q \in Procs \ {p} : pc'[q] = pc[q]
  BY DEF ClientTypeOK

\* A step by which a thread neither takes nor releases the lock.
LEMMA LockKept ==
  ASSUME ClientTypeOK, LockDiscipline, NEW p \in Procs, NEW to,
         pc' = [pc EXCEPT ![p] = to], lock' = lock,
         (to \in {"io", "closing", "dropping", "clearing"}) <=> InLock(p)
  PROVE  LockDiscipline'
  BY PositionType DEF LockDiscipline, InLock

\* A step by which the holder releases it.
LEMMA LockReleased ==
  ASSUME ClientTypeOK, LockDiscipline, NEW p \in Procs, NEW to, InLock(p),
         pc' = [pc EXCEPT ![p] = to], lock' = {},
         to \notin {"io", "closing", "dropping", "clearing"}
  PROVE  LockDiscipline'
  <1>1. lock = {p}
    BY DEF LockDiscipline
  <1>2. \A q \in Procs \ {p} : ~InLock(q)
    BY <1>1 DEF LockDiscipline
  <1>3. QED
    BY <1>2, PositionType DEF LockDiscipline, InLock

\* A step by which a thread takes it while it is free.
LEMMA LockTaken ==
  ASSUME ClientTypeOK, LockDiscipline, NEW p \in Procs, NEW to, lock = {},
         pc' = [pc EXCEPT ![p] = to], lock' = {p},
         to \in {"io", "closing", "dropping", "clearing"}
  PROVE  LockDiscipline'
  <1>1. \A q \in Procs : ~InLock(q)
    BY DEF LockDiscipline
  <1>2. QED
    BY <1>1, PositionType DEF LockDiscipline, InLock

LEMMA LockStep ==
  ASSUME ClientTypeOK, LockDiscipline, NEW p \in Procs, ClientStep(p)
  PROVE  LockDiscipline'
  <1> USE DEF InLock
  <1>1. CASE UseSocket(p)
    <2>1. CASE sock = NoSock
      BY <1>1, <2>1, LockKept DEF UseSocket, Return, shared
    <2>2. CASE sock # NoSock
      BY <1>1, <2>2, LockTaken DEF UseSocket, Goto
    <2>3. QED
      BY <2>1, <2>2
  <1>2. CASE SendOk(p) \/ SendError(p)
    <2>1. pc[p] = "io" /\ lock' = {} /\ pc' = [pc EXCEPT ![p] = "idle"]
      BY <1>2 DEF SendOk, SendError, Return
    <2>2. lock = {p} /\ \A q \in Procs \ {p} : pc[q] \notin {"io", "closing", "dropping", "clearing"}
      BY <2>1 DEF LockDiscipline
    <2>3. pc'[p] = "idle" /\ \A q \in Procs \ {p} : pc'[q] = pc[q]
      BY <2>1, PositionType
    <2>4. QED
      BY <2>1, <2>2, <2>3 DEF LockDiscipline
  <1>3. CASE ReceiveEnds(p) \/ ReceiveError(p)
    BY <1>3, LockReleased DEF ReceiveEnds, ReceiveError, Return
  <1>4. CASE DisconnectLock(p)
    BY <1>4, LockTaken DEF DisconnectLock, Goto
  <1>5. CASE DisconnectClose(p) \/ DisconnectDrop(p)
    BY <1>5, LockKept DEF DisconnectClose, DisconnectDrop, Goto
  <1>6. CASE DisconnectEnd(p)
    BY <1>6, LockReleased DEF DisconnectEnd, Goto, Return
  <1>7. CASE ConnectCreate(p) \/ ConnectOk(p) \/ ConnectMark(p) \/ ConnectReady(p)
    BY <1>7, LockKept DEF ConnectCreate, ConnectOk, ConnectMark, ConnectReady,
                          Goto, Return, shared
  <1>8. CASE ConnectStart(p) \/ ConnectError(p)
    BY <1>8, LockKept DEF ConnectStart, ConnectError, ConnectFails, Goto, Return
  <1>9. QED
    BY <1>1, <1>2, <1>3, <1>4, <1>5, <1>6, <1>7, <1>8 DEF ClientStep

LEMMA LockCall ==
  ASSUME ClientTypeOK, LockDiscipline, NEW p \in Procs, ClientCall(p)
  PROVE  LockDiscipline'
  <1>1. pc[p] = "idle" /\ lock' = lock
    BY DEF ClientCall, BeginSend, BeginReceive, BeginConnect, BeginDisconnect,
           BeginReconnect, Start, Refuse, shared
  <1>2. \E to \in {"idle", "lock", "create", "disc"} : pc' = [pc EXCEPT ![p] = to]
    BY DEF ClientCall, BeginSend, BeginReceive, BeginConnect, BeginDisconnect,
           BeginReconnect, Start, Refuse, Return
  <1>3. QED
    BY <1>1, <1>2, LockKept DEF InLock

\* At most one thread is inside sendall, recv or the closing of the socket, and
\* it holds the lock: for any number of threads and any calls.
THEOREM ClientLocked == ClientSpec => []LockDiscipline
  <1>1. ClientInit => LockDiscipline
    BY DEF ClientInit, LockDiscipline, InLock
  <1>2. ClientTypeOK /\ LockDiscipline /\ [ClientNext]_clientVars => LockDiscipline'
    <2> SUFFICES ASSUME ClientTypeOK, LockDiscipline, [ClientNext]_clientVars
                 PROVE  LockDiscipline'
      OBVIOUS
    <2>1. CASE ClientNext
      BY <2>1, LockStep, LockCall DEF ClientNext
    <2>2. CASE UNCHANGED clientVars
      BY <2>2 DEF clientVars, LockDiscipline, InLock
    <2>3. QED
      BY <2>1, <2>2
  <1>3. QED
    BY <1>1, <1>2, ClientTyped, PTL DEF ClientSpec

-----------------------------------------------------------------------------
\* The socket in use.

\* What NeverClosedInUse says of one step.
SparedInUse ==
  \A p \in Procs : pc[p] = "io" /\ conn'[hold[p]] = "closed" => conn[hold[p]] = "closed"

\* A step that moves one socket to a state other than closed closes none.
LEMMA OtherUpdate ==
  ASSUME ClientIInv, NEW t \in Socks, NEW state \in SockStates \ {"closed"},
         conn' = [conn EXCEPT ![t] = state]
  PROVE  SparedInUse
  <1>1. \A s \in Socks : conn'[s] = IF s = t THEN state ELSE conn[s]
    BY ExceptSeq DEF ClientIInv, ClientTypeOK, Socks
  <1>2. \A p \in Procs : pc[p] = "io" => hold[p] \in Socks
    BY DEF ClientIInv, ClientTypeOK, SockHeld, Socks, NoSock
  <1>3. QED
    BY <1>1, <1>2 DEF SparedInUse

LEMMA StepSpares ==
  ASSUME ClientIInv, LockDiscipline, NEW p \in Procs, ClientStep(p)
  PROVE  SparedInUse
  <1>1. CASE conn' = conn
    BY <1>1 DEF SparedInUse
  <1>2. CASE DisconnectClose(p)
    \* p holds the lock, so nobody is inside sendall or recv.
    BY <1>2 DEF DisconnectClose, Goto, LockDiscipline, InLock, SparedInUse
  <1>3. CASE ConnectCreate(p)
    <2>1. conn' = Append(conn, "fresh")
      BY <1>3 DEF ConnectCreate
    <2>2. \A s \in Socks : conn'[s] = conn[s]
      BY <2>1, AppendProperties DEF ClientIInv, ClientTypeOK, Socks, SockStates
    <2>3. \A q \in Procs : pc[q] = "io" => hold[q] \in Socks
      BY DEF ClientIInv, ClientTypeOK, SockHeld, Socks, NoSock
    <2>4. QED
      BY <2>2, <2>3 DEF SparedInUse
  <1>4. CASE ConnectStart(p) \/ ConnectOk(p) \/ ConnectError(p)
    <2>1. conn' = conn \/ \E t \in Socks, state \in SockStates \ {"closed"} :
                            conn' = [conn EXCEPT ![t] = state]
      <3>1. sock # NoSock => sock \in Socks
        BY DEF ClientIInv, ClientTypeOK, Socks, NoSock
      <3>2. pc[p] = "connecting" => hold[p] \in Socks
        BY DEF ClientIInv, ClientTypeOK, SockHeld, Socks, NoSock
      <3>3. QED
        BY <1>4, <3>1, <3>2
        DEF ConnectStart, ConnectOk, ConnectError, Goto, SockStates
    <2>2. QED
      BY <2>1, <1>1, OtherUpdate
  <1>5. QED
    BY <1>1, <1>2, <1>3, <1>4
    DEF ClientStep, UseSocket, SendOk, SendError, ReceiveEnds, ReceiveError,
        DisconnectLock, DisconnectDrop, DisconnectEnd, ConnectMark, ConnectReady, shared

\* disconnect() never closes a socket under a sendall or recv that is using it,
\* for any number of threads and any calls.
THEOREM ClientNeverClosedInUse == ClientSpec => NeverClosedInUse
  <1>1. ClientIInv /\ LockDiscipline /\ [ClientNext]_clientVars => SparedInUse
    <2> SUFFICES ASSUME ClientIInv, LockDiscipline, [ClientNext]_clientVars
                 PROVE  SparedInUse
      OBVIOUS
    <2>1. CASE UNCHANGED conn
      BY <2>1 DEF SparedInUse
    <2>2. ASSUME NEW p \in Procs, ClientStep(p) PROVE SparedInUse
      BY <2>2, StepSpares
    <2>3. ASSUME NEW p \in Procs, ClientCall(p) PROVE SparedInUse
      BY <2>1, <2>3
      DEF ClientCall, BeginSend, BeginReceive, BeginConnect, BeginDisconnect,
          BeginReconnect, Refuse, shared
    <2>4. QED
      BY <2>1, <2>2, <2>3 DEF ClientNext, clientVars
  <1>2. ClientSpec => []ClientIInv
    BY ClientTypeInit, ClientTypeStep, PTL DEF ClientSpec
  <1>3. QED
    BY <1>1, <1>2, ClientLocked, PTL DEF ClientSpec, NeverClosedInUse, SparedInUse

-----------------------------------------------------------------------------
\* What one step of a call does, seen from the caller.

\* The points of a call agree with the operation.
CallPoints ==
  \A p \in Procs :
    /\ op[p] = "none" <=> pc[p] = "idle"
    /\ op[p] \in {"send", "receive"} <=> pc[p] \in {"lock", "io"}

\* The other threads' calls are left alone.
Alone(p) ==
  \A q \in Procs \ {p} :
    pc'[q] = pc[q] /\ op'[q] = op[q] /\ line'[q] = line[q] /\ ret'[q] = ret[q]

\* A call goes on, or it returns; a line is written only when a send returns,
\* and whole exactly when it returns True.
CallGoesOn(p) ==
  /\ pc'[p] # "idle" /\ op'[p] = op[p] /\ line'[p] = line[p] /\ wire' = wire
  /\ op[p] \in {"send", "receive"} <=> pc'[p] \in {"lock", "io"}
CallReturns(p) ==
  /\ pc'[p] = "idle" /\ op'[p] = "none"
  /\ \/ wire' = wire /\ (op[p] = "send" => ret'[p] # "true")
     \/ op[p] = "send" /\ Put(p, TRUE) /\ ret'[p] = "true"
     \/ op[p] = "send" /\ Put(p, FALSE) /\ ret'[p] # "true"

LEMMA ReturnEffect ==
  ASSUME ClientTypeOK, NEW p \in Procs, NEW outcome, Return(p, outcome)
  PROVE  Alone(p) /\ pc'[p] = "idle" /\ op'[p] = "none" /\ ret'[p] = outcome
  BY DEF ClientTypeOK, Return, Alone

LEMMA GotoEffect ==
  ASSUME ClientTypeOK, NEW p \in Procs, NEW from, NEW to, Goto(p, from, to)
  PROVE  Alone(p) /\ pc'[p] = to /\ op'[p] = op[p] /\ line'[p] = line[p]
  BY DEF ClientTypeOK, Goto, Alone

LEMMA StepEffect ==
  ASSUME ClientTypeOK, CallPoints, NEW p \in Procs, ClientStep(p)
  PROVE  pc[p] # "idle" /\ Alone(p) /\ (CallGoesOn(p) \/ CallReturns(p))
  <1>0. op[p] \in {"send", "receive"} <=> pc[p] \in {"lock", "io"}
    BY DEF CallPoints
  <1>1. ASSUME NEW outcome \in Outcomes, Return(p, outcome),
               \/ wire' = wire /\ (op[p] = "send" => outcome # "true")
               \/ op[p] = "send" /\ Put(p, TRUE) /\ outcome = "true"
               \/ op[p] = "send" /\ Put(p, FALSE) /\ outcome # "true"
        PROVE  Alone(p) /\ CallReturns(p)
    BY <1>1, ReturnEffect DEF CallReturns
  <1>2. ASSUME NEW from, NEW to \in Points \ {"idle"}, Goto(p, from, to), wire' = wire,
               op[p] \in {"send", "receive"} <=> to \in {"lock", "io"}
        PROVE  Alone(p) /\ CallGoesOn(p)
    BY <1>2, GotoEffect DEF CallGoesOn
  <1>3. CASE UseSocket(p)
    <2>1. pc[p] = "lock" /\ wire' = wire
      BY <1>3 DEF UseSocket, shared
    <2>2. CASE Return(p, "raised")
      BY <1>1, <2>1, <2>2 DEF Outcomes
    <2>3. CASE Goto(p, "lock", "io")
      BY <1>0, <1>2, <2>1, <2>3 DEF Points
    <2>4. QED
      BY <1>3, <2>1, <2>2, <2>3 DEF UseSocket
  <1>4. CASE SendOk(p)
    BY <1>1, <1>4 DEF SendOk, Outcomes
  <1>5. CASE SendError(p)
    BY <1>1, <1>5 DEF SendError, Outcomes
  <1>6. CASE ReceiveEnds(p) \/ ReceiveError(p)
    <2>1. pc[p] = "io" /\ op[p] # "send" /\ wire' = wire
      BY <1>6 DEF ReceiveEnds, ReceiveError
    <2>2. PICK outcome \in Outcomes : Return(p, outcome)
      BY <1>6 DEF ReceiveEnds, ReceiveError, Outcomes
    <2>3. QED
      BY <1>1, <2>1, <2>2
  <1>7. CASE \/ DisconnectLock(p) \/ DisconnectClose(p)
             \/ DisconnectDrop(p) \/ DisconnectEnd(p)
    <2> USE DEF DisconnectLock, DisconnectClose, DisconnectDrop, DisconnectEnd, Goto
    <2>1. pc[p] \in {"disc", "closing", "dropping", "clearing"} /\ wire' = wire
      BY <1>7
    <2>2. \/ \E to \in {"closing", "dropping", "clearing", "create"} : Goto(p, pc[p], to)
          \/ Return(p, "true")
      BY <1>7
    <2> HIDE DEF Goto
    <2>3. op[p] \notin {"send", "receive"}
      BY <1>0, <2>1
    <2>4. CASE Return(p, "true")
      BY <1>1, <2>1, <2>3, <2>4 DEF Outcomes
    <2>5. ASSUME NEW to \in {"closing", "dropping", "clearing", "create"}, Goto(p, pc[p], to)
          PROVE  Alone(p) /\ CallGoesOn(p)
      BY <1>2, <2>1, <2>3, <2>5 DEF Points
    <2>6. QED
      BY <2>1, <2>2, <2>4, <2>5
  <1>8. CASE ConnectCreate(p) \/ ConnectOk(p) \/ ConnectMark(p) \/ ConnectReady(p)
    <2>1. pc[p] \in {"create", "connecting", "mark", "wait"} /\ wire' = wire
      BY <1>8 DEF ConnectCreate, ConnectOk, ConnectMark, ConnectReady, Goto, shared
    <2>2. \/ \E to \in {"connect", "mark", "wait"} : Goto(p, pc[p], to)
          \/ Return(p, "true")
      BY <1>8 DEF ConnectCreate, ConnectOk, ConnectMark, ConnectReady, Goto
    <2>3. op[p] \notin {"send", "receive"}
      BY <1>0, <2>1
    <2>4. CASE Return(p, "true")
      BY <1>1, <2>1, <2>3, <2>4 DEF Outcomes
    <2>5. ASSUME NEW to \in {"connect", "mark", "wait"}, Goto(p, pc[p], to)
          PROVE  Alone(p) /\ CallGoesOn(p)
      BY <1>2, <2>1, <2>3, <2>5 DEF Points
    <2>6. QED
      BY <2>1, <2>2, <2>4, <2>5
  <1>9. CASE ConnectStart(p) \/ ConnectError(p)
    <2>1. pc[p] \in {"connect", "connecting"} /\ wire' = wire
      BY <1>9 DEF ConnectStart, ConnectError
    <2>2. op[p] \notin {"send", "receive"}
      BY <1>0, <2>1
    <2>3. ConnectFails(p) \/ Return(p, "raised") \/ Goto(p, "connect", "connecting")
      BY <1>9 DEF ConnectStart, ConnectError
    <2>4. CASE Return(p, "raised") \/ Return(p, "false")
      BY <1>1, <2>1, <2>2, <2>4 DEF Outcomes
    <2>5. CASE Goto(p, "connect", "connecting")
      BY <1>2, <2>1, <2>2, <2>5 DEF Points
    <2>6. CASE pc' = [pc EXCEPT ![p] = "create"] /\ UNCHANGED <<op, line, ret>>
      BY <2>1, <2>2, <2>6 DEF ClientTypeOK, Alone, CallGoesOn
    <2>7. QED
      BY <2>1, <2>3, <2>4, <2>5, <2>6 DEF ConnectFails
  <1>10. QED
    BY <1>3, <1>4, <1>5, <1>6, <1>7, <1>8, <1>9
    DEF ClientStep, UseSocket, SendOk, SendError, ReceiveEnds, ReceiveError,
        DisconnectLock, DisconnectClose, DisconnectDrop, DisconnectEnd,
        ConnectCreate, ConnectStart,
        ConnectOk, ConnectError, ConnectMark, ConnectReady, Goto

\* How a call begins, or is refused at once.
LEMMA StartEffect ==
  ASSUME ClientTypeOK, NEW p \in Procs, NEW o, NEW first, Start(p, o, first)
  PROVE  /\ pc[p] = "idle" /\ pc'[p] = first /\ op'[p] = o /\ ret'[p] = "none"
         /\ \A q \in Procs \ {p} : pc'[q] = pc[q] /\ op'[q] = op[q] /\ ret'[q] = ret[q]
  BY DEF ClientTypeOK, Start

LEMMA SendEffect ==
  ASSUME ClientTypeOK, NEW p \in Procs, NEW l, NEW wellFormed,
         BeginSend(p, l, wellFormed)
  PROVE  /\ pc[p] = "idle" /\ Alone(p) /\ wire' = wire
         /\ \/ op'[p] = "send" /\ pc'[p] = "lock" /\ ret'[p] = "none" /\ line'[p] = l
            \/ op'[p] = "none" /\ pc'[p] = "idle" /\ ret'[p] = "false"
  <1>1. CASE Refuse(p)
    BY <1>1, ReturnEffect DEF Refuse, shared
  <1>2. CASE Start(p, "send", "lock") /\ line' = [line EXCEPT ![p] = l] /\ UNCHANGED shared
    BY <1>2, StartEffect DEF shared, ClientTypeOK, Alone
  <1>3. QED
    BY <1>1, <1>2 DEF BeginSend

\* The calls other than a send.
LEMMA OtherEffect ==
  ASSUME ClientTypeOK, NEW p \in Procs, NEW attempts,
         \/ BeginReceive(p) \/ BeginConnect(p) \/ BeginDisconnect(p)
         \/ BeginReconnect(p, attempts)
  PROVE  /\ pc[p] = "idle" /\ Alone(p) /\ wire' = wire
         /\ \/ op'[p] = "none" /\ pc'[p] = "idle"
            \/ op'[p] = "receive" /\ pc'[p] = "lock"
            \/ /\ op'[p] \in {"connect", "disconnect", "reconnect"}
               /\ pc'[p] \in {"create", "disc"}
         /\ ret'[p] # "true"
         /\ BeginReconnect(p, attempts) => op'[p] = "reconnect"
  <1>1. CASE Refuse(p) /\ BeginReceive(p)
    <2>1. pc[p] = "idle" /\ Return(p, "false") /\ wire' = wire
      BY <1>1 DEF Refuse, shared
    <2>2. ~BeginReconnect(p, attempts)
      BY <2>1 DEF BeginReconnect, Start, Return, ClientTypeOK
    <2>3. QED
      BY <2>1, <2>2, ReturnEffect
  <1>2. ASSUME NEW o \in {"receive", "connect", "disconnect", "reconnect"},
               NEW first \in Points, Start(p, o, first), UNCHANGED <<shared, line>>
        PROVE  /\ pc[p] = "idle" /\ Alone(p) /\ wire' = wire
               /\ op'[p] = o /\ pc'[p] = first /\ ret'[p] = "none"
    BY <1>2, StartEffect DEF shared, Alone
  <1>3. CASE BeginReceive(p) /\ ~Refuse(p)
    BY <1>2, <1>3 DEF BeginReceive, BeginReconnect, Start, Points, ClientTypeOK
  <1>4. CASE BeginConnect(p)
    BY <1>2, <1>4 DEF BeginConnect, BeginReconnect, Start, Points, ClientTypeOK
  <1>5. CASE BeginDisconnect(p)
    BY <1>2, <1>5 DEF BeginDisconnect, BeginReconnect, Start, Points, ClientTypeOK
  <1>6. CASE BeginReconnect(p, attempts)
    BY <1>2, <1>6 DEF BeginReconnect, Points
  <1>7. QED
    BY <1>1, <1>3, <1>4, <1>5, <1>6

THEOREM ClientCalls == ClientSpec => []CallPoints
  <1>1. ClientInit => CallPoints
    BY DEF ClientInit, CallPoints
  <1>2. ClientTypeOK /\ CallPoints /\ [ClientNext]_clientVars => CallPoints'
    <2> SUFFICES ASSUME ClientTypeOK, CallPoints, [ClientNext]_clientVars
                 PROVE  CallPoints'
      OBVIOUS
    <2>1. ASSUME NEW p \in Procs, ClientStep(p) PROVE CallPoints'
      BY <2>1, StepEffect DEF CallPoints, Alone, CallGoesOn, CallReturns
    <2>2. ASSUME NEW p \in Procs, ClientCall(p) PROVE CallPoints'
      BY <2>2, SendEffect, OtherEffect DEF ClientCall, CallPoints, Alone
    <2>3. QED
      BY <2>1, <2>2 DEF ClientNext, clientVars, CallPoints
  <1>3. QED
    BY <1>1, <1>2, ClientTyped, PTL DEF ClientSpec
=============================================================================
