------------------------------ MODULE ServerUse ------------------------------
(***************************************************************************)
(* TcpServer on its own, closed by arbitrary callers and by an arbitrary   *)
(* application on the UI thread, which handles its messages as TcpServer's *)
(* mHandler does, sends replies and calls disconnect() when it likes.      *)
(* Callers write numbered commands and may close; the network may lose a   *)
(* connection.                                                             *)
(*                                                                         *)
(* inTurn is chosen once: if TRUE, a caller connects only after the former *)
(* one has closed and all it wrote has been read.                          *)
(***************************************************************************)
EXTENDS TcpServer

CONSTANTS
  MaxSent,     \* bound: commands written by the callers
  MaxPending,  \* bound: replies waiting for serverSendThread
  MaxReplies   \* bound: calls of sendMsg()

ASSUME ServerUseAssumption ==
  /\ MaxSent \in Nat /\ MaxPending \in Nat /\ MaxReplies \in Nat
  /\ Cmd = 1 .. MaxSent

VARIABLES
  origin,      \* origin[m]: the connection command m was written to
  handed,      \* what the listener was handed, all commands of a read
  inTurn,      \* do callers wait for each other?
  asked        \* calls of sendMsg() so far

useVars == <<origin, handed, inTurn, asked>>
vars == <<sockVars, serverVars, useVars>>

Init ==
  /\ SocketsInit
  /\ ServerInit
  /\ origin = <<>>
  /\ handed = [d \in Device |-> <<>>]
  /\ inTurn \in BOOLEAN
  /\ asked = 0

TypeOK ==
  /\ SocketsTypeOK
  /\ ServerTypeOK
  /\ origin \in Seq(Conn)
  /\ handed \in [Device -> Seq(Cmd)]
  /\ inTurn \in BOOLEAN
-----------------------------------------------------------------------------
CallerConnect(d, c) ==
  /\ alive[d]
  /\ NextConn(c)
  /\ inTurn => \A b \in Conn : b < c => /\ ~conns[b].open["cli"]
                                        /\ conns[b].inbox["srv"] = <<>>
  /\ conns' = [conns EXCEPT ![c] = Established(d, d)]
  /\ UNCHANGED <<alive, uiQueue, serverVars, useVars>>

CallerSend(c) ==
  /\ Len(origin) < MaxSent
  /\ conns[c].from # NoDevice /\ conns[c].open["cli"]
  /\ conns' = Written(c, "cli", Len(origin) + 1)
  /\ origin' = IF conns[c].open["srv"] /\ ~conns[c].reset
               THEN Append(origin, c) ELSE origin
  /\ UNCHANGED <<alive, uiQueue, serverVars, handed, inTurn, asked>>

CallerRead(c) ==
  /\ conns[c].open["cli"] /\ conns[c].inbox["cli"] # <<>>
  /\ conns' = [conns EXCEPT ![c].inbox["cli"] = <<>>]
  /\ UNCHANGED <<alive, uiQueue, serverVars, useVars>>

CallerClose(c) ==
  /\ conns[c].open["cli"]
  /\ conns' = Closed({c}, "cli")
  /\ UNCHANGED <<alive, uiQueue, serverVars, useVars>>

LinkLoss(c) == LinkReset(c) /\ UNCHANGED <<serverVars, useVars>>

AppReply(d) ==
  /\ alive[d]
  /\ asked < MaxReplies /\ Len(serverHandler[d]) < MaxPending
  /\ \E m \in Cmd : sendMsg(d, m)
  /\ asked' = asked + 1
  /\ UNCHANGED <<sockVars, origin, handed, inTurn>>

AppDisconnect(d) ==
  /\ alive[d]
  /\ srvDisconnect(d)
  /\ UNCHANGED <<alive, uiQueue, useVars>>

\* mHandler.handleMessage, what = -1
HandleFail(d) ==
  /\ alive[d]
  /\ uiQueue[d] # <<>> /\ Head(uiQueue[d]).what = "fail"
  /\ uiQueue' = [uiQueue EXCEPT ![d] = Tail(@)]
  /\ srvDisconnect(d)
  /\ UNCHANGED <<alive, useVars>>

\* what = 100
HandleData(d) ==
  /\ alive[d]
  /\ uiQueue[d] # <<>> /\ Head(uiQueue[d]).what = "data"
  /\ uiQueue' = [uiQueue EXCEPT ![d] = Tail(@)]
  /\ handed' = [handed EXCEPT ![d] = @ \o Head(uiQueue[d]).cmds]
  /\ UNCHANGED <<conns, alive, serverVars, origin, inTurn, asked>>

AcceptStep(d) == ServerThread(d) /\ UNCHANGED useVars
ReceiveStep(d, r) == ReceiveThread(d, r) /\ UNCHANGED useVars
SendStep(d) == SendThread(d) /\ UNCHANGED useVars

Next ==
  \/ \E d \in Device :
       \/ \E c \in Conn : CallerConnect(d, c) \/ ReceiveStep(d, c)
       \/ AppReply(d) \/ AppDisconnect(d) \/ HandleFail(d) \/ HandleData(d)
       \/ AcceptStep(d) \/ SendStep(d)
  \/ \E c \in Conn : CallerSend(c) \/ CallerRead(c) \/ CallerClose(c) \/ LinkLoss(c)

Spec == Init /\ [][Next]_vars

\* The threads of the server and the Looper run; callers, users and the network
\* owe nothing.
Fairness ==
  \A d \in Device :
    /\ WF_vars(AcceptStep(d)) /\ WF_vars(SendStep(d))
    /\ WF_vars(HandleFail(d) \/ HandleData(d))
    /\ \A r \in Conn : WF_vars(ReceiveStep(d, r))

FairSpec == Spec /\ Fairness
-----------------------------------------------------------------------------
\* Where command m is: unread, in the buffer of a ServerReceiveThread, in a
\* message of the Looper, or handed to the listener.
Whereabouts(m) ==
  (UNION {Marks(<<"unread", c, 0>>, conns[c].inbox["srv"], m) : c \in Conn})
  \cup (UNION {UNION {Marks(<<"read", d, r>>, receiver[d][r].chunk, m) : r \in Conn} :
                d \in Device})
  \cup (UNION {UNION {Marks(<<"posted", d, k>>, uiQueue[d][k].cmds, m) :
                         k \in DOMAIN uiQueue[d]} : d \in Device})
  \cup (UNION {Marks(<<"handed", d, 0>>, handed[d], m) : d \in Device})

\* A command that reached the server's host is in one place: it is neither lost
\* nor handed over twice, though the receive threads of replaced connections
\* live on and share one stream field.
CommandInOnePlace ==
  \A m \in 1 .. Len(origin) : Cardinality(Whereabouts(m)) = 1

\* The process dies of nothing but a disconnect() between the accept of a caller and
\* its receive thread (TcpServer.java:124-129), so with isConnect false: no receive
\* thread of an earlier caller goes on meanwhile.
DiesOnlyDisconnected ==
  \A d \in Device : ~alive[d] => acceptor[d] # "accept" /\ ~isConnectFlag[d]

\* When callers come one after the other, every command is handed to the listener
\* in the end, also what a caller wrote just before it closed; unless some
\* connection was lost, the server closed that one, or the process died.
CommandsHanded ==
  \A m \in Cmd :
    (inTurn /\ m <= Len(origin)) ~>
       \E d \in Device :
         \/ m \in {handed[d][i] : i \in DOMAIN handed[d]}
         \/ ~alive[d]
         \/ \E c \in Conn : conns[c].reset
         \/ m <= Len(origin) /\ ~conns[origin[m]].open["srv"]
=============================================================================
