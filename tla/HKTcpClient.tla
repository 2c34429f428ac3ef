---------------------------- MODULE HKTcpClient ----------------------------
(***************************************************************************)
(* class HKTcpClient of probot_driver/tcp_client.py: the TCP connection to *)
(* the Hikrobot arm, used by several threads of the driver node.           *)
(*                                                                         *)
(* A step of this module is what a thread does between two points at which *)
(* another thread can observe or change the object: every read or write of *)
(* self.socket and self.connected outside self.lock, the acquisition of    *)
(* the lock, and every call into the kernel that can block.  A call ends   *)
(* with pc[p] = "idle" and its outcome in ret[p].                          *)
(***************************************************************************)
EXTENDS Integers, Sequences

CONSTANTS
  Procs,      \* threads that share the client object
  Lines,      \* what a caller hands over to be sent as one text line
  MaxFaults   \* bound: network failures that are not caused by the driver

ASSUME FaultsAssumption == MaxFaults \in Nat

VARIABLES
  sock,       \* self.socket: index in conn, or NoSock for None
  connected,  \* self.connected
  lock,       \* holders of self.lock ({} when it is free)
  conn,       \* kernel state of every socket created so far
  wire,       \* history: everything written, over all sockets, in order
  faults,     \* number of network failures so far
  pc,         \* per thread: the point reached in the current call
  op,         \* per thread: the current call
  line,       \* per thread: the line to send
  tries,      \* per thread: connection attempts reconnect() has left
  hold,       \* per thread: the socket object its current step refers to
  ret         \* per thread: outcome of the last call

shared  == <<sock, connected, lock, conn, wire, faults>>
callers == <<pc, op, line, tries, hold, ret>>
clientVars == <<sock, connected, lock, conn, wire, faults,
                pc, op, line, tries, hold, ret>>

NoSock == 0
NoLine == <<>>
Socks  == 1..Len(conn)

SockStates == {"fresh", "connecting", "open", "closed"}
Points     == {"idle", "lock", "io", "disc", "closing", "dropping", "clearing",
               "create", "connect", "connecting", "mark", "wait"}
Ops        == {"none", "send", "receive", "connect", "disconnect", "reconnect"}
Outcomes   == {"none", "true", "false", "raised"}

\* One write: ok says that sendall wrote the whole line; otherwise it raised
\* after a proper, non-empty prefix of it.
Writes == [sock : Nat, line : Lines, ok : BOOLEAN]

ClientInit ==
  /\ sock = NoSock /\ connected = FALSE /\ lock = {}
  /\ conn = <<>> /\ wire = <<>> /\ faults = 0
  /\ pc = [p \in Procs |-> "idle"]
  /\ op = [p \in Procs |-> "none"]
  /\ line = [p \in Procs |-> NoLine]
  /\ tries = [p \in Procs |-> 0]
  /\ hold = [p \in Procs |-> NoSock]
  /\ ret = [p \in Procs |-> "none"]

-----------------------------------------------------------------------------
\* Control of one call.

Start(p, o, first) ==
  /\ pc[p] = "idle"
  /\ pc' = [pc EXCEPT ![p] = first]
  /\ op' = [op EXCEPT ![p] = o]
  /\ ret' = [ret EXCEPT ![p] = "none"]

Goto(p, from, to) ==
  /\ pc[p] = from
  /\ pc' = [pc EXCEPT ![p] = to]
  /\ UNCHANGED <<op, line, ret>>

\* The call returns (or raises) and drops its references.
Return(p, outcome) ==
  /\ pc' = [pc EXCEPT ![p] = "idle"]
  /\ op' = [op EXCEPT ![p] = "none"]
  /\ line' = [line EXCEPT ![p] = NoLine]
  /\ tries' = [tries EXCEPT ![p] = 0]
  /\ hold' = [hold EXCEPT ![p] = NoSock]
  /\ ret' = [ret EXCEPT ![p] = outcome]

\* A guard at the top of an operation answers False without any other effect.
Refuse(p) ==
  /\ pc[p] = "idle"
  /\ Return(p, "false")
  /\ UNCHANGED shared

\* The network may fail a call on a healthy socket as long as the bound of
\* the model allows it; a call on an unusable socket fails by itself.
Fault(usable) ==
  IF usable THEN faults < MaxFaults /\ faults' = faults + 1
            ELSE UNCHANGED faults

-----------------------------------------------------------------------------
\* send_joint_positions and send_command: the connected test is made before
\* the lock is taken.  wellFormed: the line has the six joint values.

BeginSend(p, l, wellFormed) ==
  \/ /\ ~(connected /\ wellFormed)
     /\ Refuse(p)
  \/ /\ connected /\ wellFormed
     /\ Start(p, "send", "lock")
     /\ line' = [line EXCEPT ![p] = l]
     /\ UNCHANGED <<shared, tries, hold>>

BeginReceive(p) ==
  \/ /\ ~connected
     /\ Refuse(p)
  \/ /\ connected
     /\ Start(p, "receive", "lock")
     /\ UNCHANGED <<shared, line, tries, hold>>

\* with self.lock: self.socket.sendall / recv.  self.socket may have become
\* None since the test: the AttributeError is no socket.error and escapes.
UseSocket(p) ==
  /\ pc[p] = "lock" /\ lock = {}
  /\ \/ /\ sock = NoSock
        /\ Return(p, "raised")
        /\ UNCHANGED shared
     \/ /\ sock # NoSock
        /\ Goto(p, "lock", "io")
        /\ lock' = {p}
        /\ hold' = [hold EXCEPT ![p] = sock]
        /\ UNCHANGED <<sock, connected, conn, wire, faults, tries>>

Put(p, whole) ==
  wire' = Append(wire, [sock |-> hold[p], line |-> line[p], ok |-> whole])

SendOk(p) ==
  /\ pc[p] = "io" /\ op[p] = "send"
  /\ conn[hold[p]] = "open"
  /\ Put(p, TRUE)
  /\ lock' = {}
  /\ Return(p, "true")
  /\ UNCHANGED <<sock, connected, conn, faults>>

\* Mutant: the exception is swallowed, the call reports success.
SendError_Swallowed(p) ==
  /\ pc[p] = "io" /\ op[p] = "send"
  /\ Fault(conn[hold[p]] = "open")
  /\ \/ UNCHANGED wire
     \/ conn[hold[p]] = "open" /\ Put(p, FALSE)
  /\ lock' = {}
  /\ Return(p, "true")
  /\ UNCHANGED <<sock, connected, conn>>

\* Mutant: the lock is acquired without "with" and not released on an error.
SendError_KeepsLock(p) ==
  /\ pc[p] = "io" /\ op[p] = "send"
  /\ Fault(conn[hold[p]] = "open")
  /\ connected' = FALSE
  /\ Return(p, "false")
  /\ UNCHANGED <<sock, lock, conn, wire>>

\* except socket.error (timeouts included): some of the line may be out.
SendError(p) ==
  /\ pc[p] = "io" /\ op[p] = "send"
  /\ Fault(conn[hold[p]] = "open")
  /\ \/ UNCHANGED wire
     \/ conn[hold[p]] = "open" /\ Put(p, FALSE)
  /\ connected' = FALSE
  /\ lock' = {}
  /\ Return(p, "false")
  /\ UNCHANGED <<sock, conn>>

\* Data or a receive timeout: the connection is left as it is.
ReceiveEnds(p) ==
  /\ pc[p] = "io" /\ op[p] = "receive"
  /\ conn[hold[p]] = "open"
  /\ lock' = {}
  /\ \E outcome \in {"true", "false"} : Return(p, outcome)
  /\ UNCHANGED <<sock, connected, conn, wire, faults>>

ReceiveError(p) ==
  /\ pc[p] = "io" /\ op[p] = "receive"
  /\ Fault(conn[hold[p]] = "open")
  /\ connected' = FALSE
  /\ lock' = {}
  /\ Return(p, "false")
  /\ UNCHANGED <<sock, conn, wire>>

-----------------------------------------------------------------------------
\* disconnect, and the disconnect() with which reconnect starts.

BeginDisconnect(p) ==
  /\ Start(p, "disconnect", "disc")
  /\ UNCHANGED <<shared, line, tries, hold>>

\* Mutant: disconnect does not wait for the lock.
DisconnectLock_NoWait(p) ==
  /\ Goto(p, "disc", "closing")
  /\ UNCHANGED <<sock, connected, lock, conn, wire, faults, tries, hold>>

BeginReconnect(p, attempts) ==
  /\ Start(p, "reconnect", "disc")
  /\ tries' = [tries EXCEPT ![p] = attempts]
  /\ UNCHANGED <<shared, line, hold>>

DisconnectLock(p) ==
  /\ Goto(p, "disc", "closing")
  /\ lock = {} /\ lock' = {p}
  /\ UNCHANGED <<sock, connected, conn, wire, faults, tries, hold>>

\* if self.socket: shutdown, sleep and close act on whatever self.socket is by
\* then, and what they raise is ignored.
DisconnectClose(p) ==
  /\ \/ /\ sock = NoSock
        /\ Goto(p, "closing", "clearing")
        /\ UNCHANGED conn
     \/ /\ sock # NoSock
        /\ Goto(p, "closing", "dropping")
        /\ conn' = [conn EXCEPT ![sock] = "closed"]
  /\ UNCHANGED <<sock, connected, lock, wire, faults, tries, hold>>

\* self.socket = None, which may by now be a socket another thread created.
DisconnectDrop(p) ==
  /\ Goto(p, "dropping", "clearing")
  /\ sock' = NoSock
  /\ UNCHANGED <<connected, lock, conn, wire, faults, tries, hold>>

DisconnectEnd(p) ==
  /\ pc[p] = "clearing"
  /\ connected' = FALSE
  /\ lock' = {}
  /\ \/ /\ op[p] = "reconnect"
        /\ Goto(p, "clearing", "create")
        /\ UNCHANGED <<tries, hold>>
     \/ /\ op[p] = "disconnect"
        /\ Return(p, "true")
  /\ UNCHANGED <<sock, conn, wire, faults>>

-----------------------------------------------------------------------------
\* connect: nothing in it is protected by the lock.

BeginConnect(p) ==
  /\ Start(p, "connect", "create")
  /\ UNCHANGED <<shared, line, tries, hold>>

\* self.socket = socket.socket(...).  A socket object that is overwritten here
\* is closed by the interpreter once no thread refers to it.
ConnectCreate(p) ==
  /\ Goto(p, "create", "connect")
  /\ conn' = Append(conn, "fresh")
  /\ sock' = Len(conn) + 1
  /\ UNCHANGED <<connected, lock, wire, faults, tries, hold>>

\* Mutant: the count of attempts runs past zero.
ConnectFails_OneMore(p) ==
  /\ connected' = FALSE
  /\ \/ /\ op[p] = "reconnect" /\ tries[p] >= 0
        /\ pc' = [pc EXCEPT ![p] = "create"]
        /\ tries' = [tries EXCEPT ![p] = @ - 1]
        /\ hold' = [hold EXCEPT ![p] = NoSock]
        /\ UNCHANGED <<op, line, ret>>
     \/ /\ op[p] = "connect"
        /\ Return(p, "false")

\* Mutant: a failed connect leaves the flag as it is.
ConnectFails_KeepsFlag(p) ==
  /\ \/ /\ op[p] = "reconnect" /\ tries[p] > 1
        /\ pc' = [pc EXCEPT ![p] = "create"]
        /\ tries' = [tries EXCEPT ![p] = @ - 1]
        /\ hold' = [hold EXCEPT ![p] = NoSock]
        /\ UNCHANGED <<op, line, ret>>
     \/ /\ op[p] = "connect" \/ tries[p] <= 1
        /\ Return(p, "false")
  /\ UNCHANGED connected

\* except socket.error of connect(), then the loop of reconnect().
ConnectFails(p) ==
  /\ connected' = FALSE
  /\ \/ /\ op[p] = "reconnect" /\ tries[p] > 1
        /\ pc' = [pc EXCEPT ![p] = "create"]
        /\ tries' = [tries EXCEPT ![p] = @ - 1]
        /\ hold' = [hold EXCEPT ![p] = NoSock]
        /\ UNCHANGED <<op, line, ret>>
     \/ /\ op[p] = "connect" \/ tries[p] <= 1
        /\ Return(p, "false")

\* setsockopt, settimeout and connect each read self.socket again: it may be
\* None (AttributeError) or a socket that another thread is connecting.
ConnectStart(p) ==
  /\ pc[p] = "connect"
  /\ \/ /\ sock = NoSock
        /\ Return(p, "raised")
        /\ UNCHANGED <<connected, conn>>
     \/ /\ sock # NoSock /\ conn[sock] # "fresh"
        /\ ConnectFails(p)
        /\ UNCHANGED conn
     \/ /\ sock # NoSock /\ conn[sock] = "fresh"
        /\ Goto(p, "connect", "connecting")
        /\ conn' = [conn EXCEPT ![sock] = "connecting"]
        /\ hold' = [hold EXCEPT ![p] = sock]
        /\ UNCHANGED <<connected, tries>>
  /\ UNCHANGED <<sock, lock, wire, faults>>

ConnectOk(p) ==
  /\ Goto(p, "connecting", "mark")
  /\ conn[hold[p]] = "connecting"
  /\ conn' = [conn EXCEPT ![hold[p]] = "open"]
  /\ UNCHANGED <<sock, connected, lock, wire, faults, tries, hold>>

ConnectError(p) ==
  /\ pc[p] = "connecting"
  /\ Fault(conn[hold[p]] = "connecting")
  /\ conn' = IF conn[hold[p]] = "connecting"
               THEN [conn EXCEPT ![hold[p]] = "fresh"] ELSE conn
  /\ ConnectFails(p)
  /\ UNCHANGED <<sock, lock, wire>>

\* self.connected = True comes before the pause for the robot's SocketAccept.
ConnectMark(p) ==
  /\ Goto(p, "mark", "wait")
  /\ connected' = TRUE
  /\ UNCHANGED <<sock, lock, conn, wire, faults, tries, hold>>

ConnectReady(p) ==
  /\ pc[p] = "wait"
  /\ Return(p, "true")
  /\ UNCHANGED shared

-----------------------------------------------------------------------------
\* The steps of calls under way, and the calls a thread can make.

ClientStep(p) ==
  \/ UseSocket(p) \/ SendOk(p) \/ SendError(p)
  \/ ReceiveEnds(p) \/ ReceiveError(p)
  \/ DisconnectLock(p) \/ DisconnectClose(p)
  \/ DisconnectDrop(p) \/ DisconnectEnd(p)
  \/ ConnectCreate(p) \/ ConnectStart(p) \/ ConnectOk(p) \/ ConnectError(p)
  \/ ConnectMark(p) \/ ConnectReady(p)

ClientCall(p) ==
  \/ \E l \in Lines, wellFormed \in BOOLEAN : BeginSend(p, l, wellFormed)
  \/ BeginReceive(p)
  \/ BeginConnect(p)
  \/ BeginDisconnect(p)
  \/ \E attempts \in Nat \ {0} : BeginReconnect(p, attempts)

ClientNext == \E p \in Procs : ClientStep(p) \/ ClientCall(p)

ClientSpec == ClientInit /\ [][ClientNext]_clientVars

-----------------------------------------------------------------------------
\* Properties.

\* Type invariant of the client object and of the calls made on it.
ClientTypeOK ==
  /\ sock \in Nat /\ sock <= Len(conn)
  /\ connected \in BOOLEAN
  /\ lock \in SUBSET Procs
  /\ conn \in Seq(SockStates)
  /\ wire \in Seq(Writes)
  /\ faults \in 0..MaxFaults
  /\ pc \in [Procs -> Points]
  /\ op \in [Procs -> Ops]
  /\ line \in [Procs -> Lines \cup {NoLine}]
  /\ tries \in [Procs -> Nat]
  /\ hold \in [Procs -> Nat]
  /\ ret \in [Procs -> Outcomes]
  /\ \A p \in Procs : hold[p] <= Len(conn)

\* self.lock does its work: at any time at most one thread is inside sendall,
\* recv or the closing part of disconnect, and it is the holder of the lock.
InLock(p) == pc[p] \in {"io", "closing", "dropping", "clearing"}
LockDiscipline == \A p \in Procs : InLock(p) <=> lock = {p}

\* The robot reads lines.  A line of which sendall wrote only a part is the
\* last thing written to its socket, so that it never merges with the next
\* line into one that nobody sent (joint values of two points in one command).
\* So it is with one sender; a second one whose test of `connected` came before
\* the failure appends to the unfinished line.
LinesWhole ==
  \A k \in 1..Len(wire) : \A m \in (k+1)..Len(wire) :
    wire[m].sock = wire[k].sock => wire[k].ok

\* "等待海康端 SocketAccept 就绪 ... 可以发送数据" (tcp_client.py:37-39): data is
\* sent over a connection only after the pause that follows its opening.  The
\* code does not keep this promise: `connected` is set before the pause, and a
\* second thread tests nothing else (run ReadyShared).
ReadyBeforeData ==
  [][\A m \in Len(wire)+1..Len(wire') : \A p \in Procs :
       pc[p] \in {"mark", "wait"} => hold[p] # wire'[m].sock]_clientVars

\* What the lock in disconnect() is for: however threads are scheduled, no
\* socket is closed while a thread is inside sendall or recv on it.
NeverClosedInUse ==
  [][\A p \in Procs : pc[p] = "io" /\ conn'[hold[p]] = "closed" =>
       conn[hold[p]] = "closed"]_clientVars
=============================================================================
