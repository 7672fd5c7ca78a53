------------------------------- MODULE Sockets -------------------------------
(***************************************************************************)
(* The platform under the two endpoints of the intercom, as the code uses  *)
(* it: java.net.Socket / ServerSocket over TCP, the process of a device    *)
(* and the message queue of its main Looper.  None of it is code of the    *)
(* repository: TcpClient, TcpServer and MainActivity only call it.         *)
(*                                                                         *)
(* A connection has a client end ("cli") and a server end ("srv").  inbox  *)
(* holds the commands that an end has not read yet; TCP keeps their order  *)
(* and may hand several of them to one read.  isConnected() of a Java      *)
(* socket stays true after a close, so it is not part of the state.        *)
(***************************************************************************)
EXTENDS Naturals, Sequences, FiniteSets

CONSTANTS
  Device,     \* the door stations and indoor units
  NoDevice,   \* "no address": a Java null
  Cmd,        \* what one write puts on a connection
  MaxConn,    \* bound: connections ever established
  Coalesce    \* may one read return several commands?

ASSUME SocketsAssumption ==
  /\ NoDevice \notin Device
  /\ MaxConn \in Nat
  /\ Coalesce \in BOOLEAN

VARIABLES
  conns,      \* the connections ever established
  alive,      \* alive[d]: the process of d has not died of an uncaught exception
  uiQueue     \* uiQueue[d]: messages posted to the main Looper of d

sockVars == <<conns, alive, uiQueue>>

None == 0                       \* a null Socket or stream field
Conn == 1 .. MaxConn
ConnRef == Conn \cup {None}
Side == {"cli", "srv"}
Other(s) == CHOOSE o \in Side : o # s

ConnRec == [from : Device \cup {NoDevice}, to : Device \cup {NoDevice},
            inbox : [Side -> Seq(Cmd)], open : [Side -> BOOLEAN],
            accepted : BOOLEAN, reset : BOOLEAN]

Unused == [from |-> NoDevice, to |-> NoDevice,
           inbox |-> [s \in Side |-> <<>>], open |-> [s \in Side |-> FALSE],
           accepted |-> FALSE, reset |-> FALSE]

Established(d, e) == [Unused EXCEPT !.from = d, !.to = e,
                                    !.open = [s \in Side |-> TRUE]]

\* A message of the main Looper: who posted it (the TcpClient or the TcpServer
\* handler), its `what`, and for what = 100 the commands of one read.
Message == [src : {"client", "server"}, what : {"fail", "success", "data"},
            cmds : Seq(Cmd)]

SocketsInit ==
  /\ conns = [c \in Conn |-> Unused]
  /\ alive = [d \in Device |-> TRUE]
  /\ uiQueue = [d \in Device |-> <<>>]

SocketsTypeOK ==
  /\ conns \in [Conn -> ConnRec]
  /\ alive \in [Device -> BOOLEAN]
  /\ uiQueue \in [Device -> Seq(Message)]
-----------------------------------------------------------------------------
\* The first connection not used yet: new connections take their numbers in order.
NextConn(c) ==
  /\ conns[c].from = NoDevice
  /\ \A b \in Conn : b < c => conns[b].from # NoDevice

\* A close() of the ends s of the connections C.  TCP answers a close that
\* leaves unread input behind with a reset instead of an orderly end.
Closed(C, s) ==
  [c \in Conn |->
    IF c \in C /\ conns[c].open[s]
    THEN [conns[c] EXCEPT !.open[s] = FALSE,
                          !.reset = @ \/ conns[c].inbox[s] # <<>>]
    ELSE conns[c]]

\* A write of one command at end s of c.  A closed or reset connection throws
\* (every caller swallows that), a peer that is gone answers with a reset.
Written(c, s, m) ==
  IF c = None \/ ~conns[c].open[s] \/ conns[c].reset
  THEN conns
  ELSE IF conns[c].open[Other(s)]
       THEN [conns EXCEPT ![c].inbox[Other(s)] = Append(@, m)]
       ELSE [conns EXCEPT ![c].reset = TRUE]

\* The outcomes of a blocking read at end s of c.
ReadReturns(c, s, n) ==
  /\ conns[c].open[s]
  /\ n \in 1 .. Len(conns[c].inbox[s])
  /\ Coalesce \/ n = 1

ReadSeesEnd(c, s) ==
  /\ conns[c].open[s]
  /\ ~conns[c].reset
  /\ conns[c].inbox[s] = <<>>
  /\ ~conns[c].open[Other(s)]

ReadThrows(c, s) == ~conns[c].open[s] \/ conns[c].reset

Taken(c, s, n) ==
  [conns EXCEPT ![c].inbox[s] = SubSeq(@, n + 1, Len(@))]

\* sendMessage / sendEmptyMessage to the main Looper of d.
Posted(d, src, what, cmds) ==
  [uiQueue EXCEPT ![d] = Append(@, [src |-> src, what |-> what, cmds |-> cmds])]

\* The positions of m in the sequence s, tagged with where s is.
Marks(where, s, m) == {<<where, i>> : i \in {j \in DOMAIN s : s[j] = m}}

\* An uncaught exception ends the process; the kernel closes its sockets.
Crash(d) ==
  /\ alive' = [alive EXCEPT ![d] = FALSE]
  /\ conns' = [c \in Conn |->
       [conns[c] EXCEPT !.open = [s \in Side |-> @[s] /\ ~(IF s = "cli"
                                     THEN conns[c].from = d ELSE conns[c].to = d)]]]
  /\ UNCHANGED uiQueue

\* The network loses the connection.
LinkReset(c) ==
  /\ conns[c].from # NoDevice
  /\ ~conns[c].reset
  /\ conns' = [conns EXCEPT ![c].reset = TRUE]
  /\ UNCHANGED <<alive, uiQueue>>
=============================================================================
