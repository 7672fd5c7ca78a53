--------------------------- MODULE ServerUse_proof ---------------------------
(***************************************************************************)
(* Theorems about ServerUse, for every value of its constants: the types,  *)
(* and that no command is lost or doubled.                                 *)
(*                                                                         *)
(* TypeOK is not inductive: a receive thread must not read from a null     *)
(* stream (ServerStreams).  Nor is CommandInOnePlace: a command that is    *)
(* moved must not find one of its kind in the new place, a command yet to  *)
(* be written must be nowhere, and what is overwritten must be empty; the  *)
(* record of a receive thread is, because a connection is accepted once    *)
(* and its thread is started after that (Born).                            *)
(***************************************************************************)
EXTENDS ServerUse, SocketsTheorems

ServerStreams ==
  \A d \in Device :
    /\ isConnectFlag[d] => inputStream[d] # None
    /\ \A r \in Conn : receiver[d][r].pc = "read" => receiver[d][r].stream # None

Born ==
  /\ \A c \in Conn : conns[c].from = NoDevice => conns[c].to = NoDevice /\ ~conns[c].accepted
  /\ \A d \in Device, c \in Conn : receiver[d][c].pc # "unborn" => conns[c].accepted
  /\ \A d \in Device : acceptor[d] # "accept" /\ clientScoket[d] # None =>
       receiver[d][clientScoket[d]].pc = "unborn" /\ conns[clientScoket[d]].accepted

ServerInv == TypeOK /\ ServerStreams /\ Born
-----------------------------------------------------------------------------
LEMMA ServerTypes ==
  ASSUME TypeOK
  PROVE  /\ conns \in [Conn -> ConnRec] /\ alive \in [Device -> BOOLEAN]
         /\ uiQueue \in [Device -> Seq(Message)] /\ handed \in [Device -> Seq(Cmd)]
         /\ origin \in Seq(Conn) /\ inTurn \in BOOLEAN
         /\ clientScoket \in [Device -> ConnRef] /\ inputStream \in [Device -> ConnRef]
         /\ outputStream \in [Device -> ConnRef] /\ isConnectFlag \in [Device -> BOOLEAN]
         /\ srvAddress \in [Device -> Device \cup {NoDevice}]
         /\ acceptor \in [Device -> {"accept", "address", "receive"}]
         /\ receiver \in [Device -> [Conn -> ReceiverRec]]
         /\ serverHandler \in [Device -> Seq(Cmd)]
         /\ "cli" \in Side /\ "srv" \in Side
BY DEF TypeOK, SocketsTypeOK, ServerTypeOK, Side

LEMMA ServerInvInit == Init => ServerInv
<1> SUFFICES ASSUME Init PROVE ServerInv
  OBVIOUS
<1>1. Unused \in ConnRec /\ NoReceiver \in ReceiverRec
  BY DEF Unused, ConnRec, NoReceiver, ReceiverRec, ConnRef, Side
<1>2. TypeOK
  BY <1>1 DEF Init, SocketsInit, ServerInit, TypeOK, SocketsTypeOK, ServerTypeOK, ConnRef
<1>3. ServerStreams /\ Born
  BY DEF Init, SocketsInit, ServerInit, ServerStreams, Born, Unused, NoReceiver
<1> QED
  BY <1>2, <1>3 DEF ServerInv

\* What changes no thread of the server, makes no connection and accepts none.
LEMMA OutsideStep ==
  ASSUME ServerInv, ConnsNamed, UNCHANGED <<inputStream, acceptor, receiver>>,
         \A d \in Device : isConnectFlag'[d] => isConnectFlag[d],
         \A d \in Device : clientScoket'[d] # None => clientScoket'[d] = clientScoket[d]
  PROVE  ServerStreams' /\ Born'
<1>1. ServerStreams'
  BY DEF ServerInv, ServerStreams
<1>2. \A d \in Device : clientScoket[d] # None => clientScoket[d] \in Conn
  BY ServerTypes DEF ServerInv, ConnRef
<1>3. Born'
  BY <1>2 DEF ServerInv, Born, ConnsNamed
<1> QED
  BY <1>1, <1>3

\* A receive thread goes on.
LEMMA ReceiverStep ==
  ASSUME ServerInv, ConnsNamed, NEW d \in Device, NEW r \in Conn,
         receiver[d][r].pc # "unborn", NEW q, receiver' = [receiver EXCEPT ![d][r] = q],
         q.pc = "read" => q.stream # None,
         UNCHANGED <<inputStream, isConnectFlag, clientScoket, acceptor>>
  PROVE  ServerStreams' /\ Born'
<1>1. receiver \in [Device -> [Conn -> ReceiverRec]] /\ clientScoket \in [Device -> ConnRef]
  BY ServerTypes DEF ServerInv
<1>2. \A e \in Device, c \in Conn :
        receiver'[e][c] = IF e = d /\ c = r THEN q ELSE receiver[e][c]
  BY <1>1
<1>3. ServerStreams'
  BY <1>2 DEF ServerInv, ServerStreams
<1>4. Born'
  <2>1. \A e \in Device, c \in Conn : receiver'[e][c].pc # "unborn" => conns'[c].accepted
    BY <1>2 DEF ServerInv, Born, ConnsNamed
  <2>2. ASSUME NEW e \in Device, acceptor'[e] # "accept", clientScoket'[e] # None
        PROVE  /\ receiver'[e][clientScoket'[e]].pc = "unborn"
               /\ conns'[clientScoket'[e]].accepted
    <3>1. /\ clientScoket[e] \in Conn /\ receiver[e][clientScoket[e]].pc = "unborn"
          /\ conns[clientScoket[e]].accepted
      BY <1>1, <2>2 DEF ServerInv, Born, ConnRef
    <3> QED
      BY <1>2, <3>1 DEF ConnsNamed
  <2> QED
    BY <2>1, <2>2 DEF ServerInv, Born, ConnsNamed
<1> QED
  BY <1>3, <1>4

\* srvDisconnect() and what it does to the server.
LEMMA DisconnectStep ==
  ASSUME ServerInv, NEW d \in Device, srvDisconnect(d)
  PROVE  /\ conns' \in [Conn -> ConnRec] /\ ServerTypeOK' /\ ServerStreams' /\ Born'
         /\ ConnsQuiet /\ UNCHANGED receiver
<1>a. TypeOK
  BY DEF ServerInv
<1>1. conns' \in [Conn -> ConnRec] /\ ConnsQuiet /\ ConnsNamed
  BY <1>a, ServerTypes, ClosedType, ClosedQuiet, ClosedNamed DEF srvDisconnect
<1>2. ServerTypeOK'
  BY <1>a, ServerTypes DEF srvDisconnect, ServerTypeOK, ConnRef
<1>3. /\ \A e \in Device : isConnectFlag'[e] => isConnectFlag[e]
      /\ \A e \in Device : clientScoket'[e] # None => clientScoket'[e] = clientScoket[e]
  BY <1>a, ServerTypes DEF srvDisconnect
<1> QED
  BY <1>1, <1>2, <1>3, OutsideStep DEF srvDisconnect

LEMMA AcceptType ==
  ASSUME ServerInv, NEW d \in Device, AcceptStep(d)
  PROVE  ServerInv'
<1>a. TypeOK /\ UNCHANGED useVars
  BY DEF ServerInv, AcceptStep
<1>1. CASE Accept(d)
  <2>1. PICK c \in Conn : /\ conns[c].to = d /\ ~conns[c].accepted
                          /\ clientScoket' = [clientScoket EXCEPT ![d] = c]
                          /\ conns' = [conns EXCEPT ![c].accepted = TRUE]
    BY <1>1 DEF Accept
  <2>0. conns[c] \in ConnRec /\ [conns[c] EXCEPT !.accepted = TRUE] \in ConnRec
    BY <1>a, ServerTypes DEF ConnRec
  <2>2. conns' \in [Conn -> ConnRec]
    BY <1>a, <2>0, <2>1, ServerTypes
  <2>3. /\ clientScoket' \in [Device -> ConnRef]
        /\ acceptor' \in [Device -> {"accept", "address", "receive"}]
    BY <1>1, <1>a, <2>1, ServerTypes DEF Accept, ConnRef
  <2>4. TypeOK'
    BY <1>1, <1>a, <2>2, <2>3 DEF Accept, TypeOK, SocketsTypeOK, ServerTypeOK, useVars
  <2>5. ServerStreams'
    BY <1>1 DEF Accept, ServerInv, ServerStreams
  <2>6. /\ \A b \in Conn : /\ conns'[b].from = conns[b].from /\ conns'[b].to = conns[b].to
                           /\ (conns'[b].accepted <=> conns[b].accepted \/ b = c)
        /\ conns[c].from # NoDevice
    <3>1. \A b \in Conn : b # c => conns'[b] = conns[b]
      BY <2>1
    <3>2. conns'[c] = [conns[c] EXCEPT !.accepted = TRUE]
      BY <1>a, <2>1, ServerTypes
    <3>3. conns[c].from # NoDevice
      BY <2>1, SocketsAssumption DEF ServerInv, Born
    <3> QED
      BY <2>0, <3>1, <3>2, <3>3 DEF ConnRec
  <2>7. Born'
    <3>1. ASSUME NEW e \in Device, acceptor'[e] # "accept", clientScoket'[e] # None
          PROVE  /\ receiver'[e][clientScoket'[e]].pc = "unborn"
                 /\ conns'[clientScoket'[e]].accepted
      <4>1. CASE e = d
        BY <1>1, <1>a, <2>1, <2>6, <4>1, ServerTypes DEF Accept, ServerInv, Born
      <4>2. CASE e # d
        <5>1. acceptor[e] # "accept" /\ clientScoket'[e] = clientScoket[e]
          BY <1>1, <1>a, <2>1, <3>1, <4>2, ServerTypes DEF Accept
        <5>2. clientScoket[e] \in Conn
          BY <1>a, <3>1, <5>1, ServerTypes DEF ConnRef
        <5> QED
          BY <1>1, <2>6, <3>1, <5>1, <5>2 DEF Accept, ServerInv, Born
      <4> QED
        BY <4>1, <4>2
    <3> QED
      BY <1>1, <2>6, <3>1 DEF Accept, ServerInv, Born
  <2> QED
    BY <2>4, <2>5, <2>7 DEF ServerInv
<1>2. ASSUME Crash(d), UNCHANGED <<srvAddress, acceptor, inputStream, isConnectFlag, receiver,
                                   clientScoket, outputStream, serverHandler>>
      PROVE  ServerInv'
  <2>1. SocketsTypeOK' /\ ConnsNamed
    BY <1>a, <1>2, ServerTypes, CrashType, CrashNamed DEF TypeOK
  <2>2. TypeOK'
    BY <1>a, <1>2, <2>1 DEF TypeOK, ServerTypeOK, useVars
  <2> QED
    BY <1>2, <2>1, <2>2, OutsideStep DEF ServerInv
<1>3. CASE SetAddress(d) /\ clientScoket[d] # None
  <2>1. conns[clientScoket[d]].from \in Device \cup {NoDevice}
    BY <1>a, <1>3, ServerTypes DEF ConnRef, ConnRec
  <2>2. TypeOK'
    BY <1>a, <1>3, <2>1, ServerTypes
       DEF SetAddress, TypeOK, SocketsTypeOK, ServerTypeOK, sockVars, useVars
  <2>3. ServerStreams'
    BY <1>3 DEF SetAddress, ServerInv, ServerStreams
  <2>4. \A e \in Device : acceptor'[e] # "accept" => acceptor[e] # "accept"
    BY <1>a, <1>3, ServerTypes DEF SetAddress
  <2>5. Born'
    BY <1>3, <2>4 DEF SetAddress, ServerInv, Born, sockVars
  <2> QED
    BY <2>2, <2>3, <2>5 DEF ServerInv
<1>4. CASE StartReceiver(d) /\ clientScoket[d] # None
  <2> DEFINE c == clientScoket[d]
             q == [receiver[d][c] EXCEPT !.pc = "loop"]
  <2>1. /\ c \in Conn /\ receiver[d][c].pc = "unborn" /\ receiver[d][c] \in ReceiverRec
        /\ conns[c].accepted
    BY <1>a, <1>4, ServerTypes DEF StartReceiver, ServerInv, Born, ConnRef
  <2>2. q \in ReceiverRec /\ q.pc = "loop"
    BY <2>1 DEF ReceiverRec
  <2>3. /\ receiver' = [receiver EXCEPT ![d][c] = q] /\ inputStream' = [inputStream EXCEPT ![d] = c]
        /\ isConnectFlag' = [isConnectFlag EXCEPT ![d] = TRUE]
        /\ acceptor' = [acceptor EXCEPT ![d] = "accept"]
        /\ UNCHANGED <<conns, alive, uiQueue, clientScoket>>
    BY <1>4 DEF StartReceiver, Raised, sockVars
  <2>4. c # None
    BY <1>4
  <2> HIDE DEF c, q
  <2>5. TypeOK'
    BY <1>a, <1>4, <2>1, <2>2, <2>3, ServerTypes
       DEF StartReceiver, TypeOK, SocketsTypeOK, ServerTypeOK, useVars, ConnRef
  <2>6. \A e \in Device, b \in Conn :
          receiver'[e][b] = IF e = d /\ b = c THEN q ELSE receiver[e][b]
    BY <1>a, <2>3, ServerTypes
  <2>7. ServerStreams'
    BY <1>a, <2>2, <2>3, <2>4, <2>6, ServerTypes DEF ServerInv, ServerStreams
  <2>8. Born'
    <3>1. \A e \in Device : acceptor'[e] # "accept" => e # d /\ acceptor[e] # "accept"
      BY <1>a, <2>3, ServerTypes
    <3> QED
      BY <1>a, <2>1, <2>3, <2>6, <3>1, ServerTypes DEF ServerInv, Born, ConnRef
  <2> QED
    BY <2>5, <2>7, <2>8 DEF ServerInv
<1> QED
  BY <1>1, <1>2, <1>3, <1>4 DEF AcceptStep, ServerThread, SetAddress, StartReceiver

LEMMA ReceiveType ==
  ASSUME ServerInv, NEW d \in Device, NEW r \in Conn, ReceiveStep(d, r)
  PROVE  ServerInv'
<1>a. /\ TypeOK /\ UNCHANGED useVars /\ receiver[d][r] \in ReceiverRec
      /\ UNCHANGED <<alive, clientScoket, inputStream, outputStream, isConnectFlag,
                     srvAddress, acceptor, serverHandler>>
      /\ receiver[d][r].pc # "unborn"
  BY ServerTypes DEF ServerInv, ReceiveStep, ReceiveThread, RcvLoop, RcvRead, RcvPost, sockVars
\* All that a step leaves to show.
<1>b. ASSUME NEW q \in ReceiverRec, receiver' = [receiver EXCEPT ![d][r] = q],
             q.pc = "read" => q.stream # None, ConnsNamed,
             conns' \in [Conn -> ConnRec], uiQueue' \in [Device -> Seq(Message)]
      PROVE  ServerInv'
  <2>1. receiver' \in [Device -> [Conn -> ReceiverRec]]
    BY <1>a, <1>b, ServerTypes
  <2>2. TypeOK'
    BY <1>a, <1>b, <2>1 DEF TypeOK, SocketsTypeOK, ServerTypeOK, useVars
  <2>3. ServerStreams' /\ Born'
    BY <1>a, <1>b, ReceiverStep
  <2> QED
    BY <2>2, <2>3 DEF ServerInv
<1>c. /\ NoReceiver \in ReceiverRec
      /\ \A pc \in {"loop", "done"} : /\ [NoReceiver EXCEPT !.pc = pc] \in ReceiverRec
                                      /\ [NoReceiver EXCEPT !.pc = pc].pc = pc
  <2>1. NoReceiver = [pc |-> "unborn", stream |-> None, chunk |-> <<>>] /\ <<>> \in Seq(Cmd)
    BY DEF NoReceiver
  <2>2. \A pc : [NoReceiver EXCEPT !.pc = pc] = [pc |-> pc, stream |-> None, chunk |-> <<>>]
    BY <2>1
  <2> QED
    BY <2>1, <2>2 DEF ReceiverRec, ConnRef
<1>d. UNCHANGED conns => ConnsNamed /\ conns' \in [Conn -> ConnRec]
  BY <1>a, ServerTypes DEF ConnsNamed
<1>e. UNCHANGED uiQueue => uiQueue' \in [Device -> Seq(Message)]
  BY <1>a, ServerTypes
<1>1. CASE RcvLoop(d, r)
  <2> DEFINE q == IF isConnectFlag[d] /\ srvIsConnect(d)
                  THEN [receiver[d][r] EXCEPT !.pc = "read", !.stream = inputStream[d]]
                  ELSE [NoReceiver EXCEPT !.pc = "done"]
  <2>1. q \in ReceiverRec /\ (q.pc = "read" => q.stream # None)
    <3>1. CASE isConnectFlag[d] /\ srvIsConnect(d)
      BY <1>a, <3>1, ServerTypes DEF ReceiverRec, ServerInv, ServerStreams
    <3>2. CASE ~(isConnectFlag[d] /\ srvIsConnect(d))
      BY <1>c, <3>2
    <3> QED
      BY <3>1, <3>2
  <2>2. receiver' = [receiver EXCEPT ![d][r] = q] /\ UNCHANGED <<conns, uiQueue>>
    BY <1>1 DEF RcvLoop, sockVars
  <2> HIDE DEF q
  <2> QED
    BY <1>b, <1>d, <1>e, <2>1, <2>2
<1>2. CASE RcvRead(d, r)
  <2> DEFINE c == receiver[d][r].stream
  <2>0. c \in Conn /\ "srv" \in Side
    BY <1>a, <1>2, ServerTypes DEF RcvRead, ServerInv, ServerStreams, ReceiverRec, ConnRef
  <2>1. ASSUME NEW n \in 1 .. Len(conns[c].inbox["srv"]), conns' = Taken(c, "srv", n),
               receiver' = [receiver EXCEPT ![d][r] =
                  [pc |-> "post", stream |-> None,
                   chunk |-> RcvCopy(conns[c].inbox["srv"], n)]],
               UNCHANGED uiQueue
        PROVE  ServerInv'
    <3> HIDE DEF c
    <3>1. PICK b \in Conn : b = c
      BY <2>0
    <3>2. n \in 1 .. Len(conns[b].inbox["srv"]) /\ conns' = Taken(b, "srv", n)
      BY <2>1, <3>1
    <3>3. /\ conns' \in [Conn -> ConnRec] /\ ConnsNamed
          /\ SubSeq(conns[b].inbox["srv"], 1, n) \in Seq(Cmd)
      BY <1>a, <2>0, <3>2, ServerTypes, TakenType, TakenNamed
    <3> DEFINE q == [pc |-> "post", stream |-> None, chunk |-> SubSeq(conns[b].inbox["srv"], 1, n)]
    <3>4. q \in ReceiverRec /\ q.pc # "read" /\ receiver' = [receiver EXCEPT ![d][r] = q]
      BY <2>1, <3>1, <3>3 DEF ReceiverRec, ConnRef, RcvCopy
    <3> HIDE DEF q
    <3> QED
      BY <1>b, <1>e, <2>1, <3>3, <3>4
  <2>2. CASE /\ receiver' = [receiver EXCEPT ![d][r] = [NoReceiver EXCEPT !.pc = "loop"]]
             /\ UNCHANGED <<conns, uiQueue>>
    BY <1>b, <1>c, <1>d, <1>e, <2>2
  <2>3. CASE /\ receiver' = [receiver EXCEPT ![d][r] = [NoReceiver EXCEPT !.pc = "done"]]
             /\ uiQueue' = Posted(d, "server", "fail", <<>>) /\ UNCHANGED conns
    <3>0. <<>> \in Seq(Cmd)
      OBVIOUS
    <3>1. uiQueue' \in [Device -> Seq(Message)]
      BY <1>a, <2>3, <3>0, ServerTypes, PostedType
    <3> QED
      BY <1>b, <1>c, <1>d, <2>3, <3>1
  <2> QED
    BY <1>2, <2>1, <2>2, <2>3 DEF RcvRead
<1>3. CASE RcvPost(d, r)
  <2>1. receiver[d][r].chunk \in Seq(Cmd)
    BY <1>a DEF ReceiverRec
  <2>2. uiQueue' \in [Device -> Seq(Message)]
    BY <1>a, <1>3, <2>1, ServerTypes, PostedType DEF RcvPost, RcvWhat
  <2> QED
    BY <1>b, <1>c, <1>d, <1>3, <2>2 DEF RcvPost
<1> QED
  BY <1>1, <1>2, <1>3 DEF ReceiveStep, ReceiveThread

LEMMA ServerInvStep == ServerInv /\ [Next]_vars => ServerInv'
<1> SUFFICES ASSUME ServerInv, [Next]_vars PROVE ServerInv'
  OBVIOUS
<1>a. TypeOK
  BY DEF ServerInv
\* A step of the callers or of the network.
<1>b. ASSUME ConnsNamed, conns' \in [Conn -> ConnRec], origin' \in Seq(Conn),
             UNCHANGED <<alive, uiQueue, serverVars, handed, inTurn>>
      PROVE  ServerInv'
  <2>1. TypeOK'
    BY <1>a, <1>b DEF TypeOK, SocketsTypeOK, ServerTypeOK, serverVars
  <2>2. ServerStreams' /\ Born'
    BY <1>b, OutsideStep DEF serverVars
  <2> QED
    BY <2>1, <2>2 DEF ServerInv
<1>1. ASSUME NEW d \in Device, NEW c \in Conn, CallerConnect(d, c) PROVE ServerInv'
  <2> DEFINE e == Established(d, d)
  <2>0. Unused \in ConnRec /\ [s \in Side |-> TRUE] \in [Side -> BOOLEAN]
    BY DEF Unused, ConnRec
  <2>1. /\ e \in ConnRec /\ e.from = d /\ d # NoDevice
        /\ conns[c].from = NoDevice /\ ~conns[c].accepted
    BY <1>1, <2>0, SocketsAssumption
       DEF Established, ConnRec, CallerConnect, NextConn, ServerInv, Born
  <2>2. conns' = [conns EXCEPT ![c] = e]
    BY <1>1 DEF CallerConnect
  <2> HIDE DEF e
  <2>3. conns'[c] = e /\ \A b \in Conn : b # c => conns'[b] = conns[b]
    BY <1>a, <2>2, ServerTypes
  <2>4. TypeOK'
    BY <1>a, <1>1, <2>1, <2>2, ServerTypes
       DEF CallerConnect, TypeOK, SocketsTypeOK, ServerTypeOK, serverVars, useVars
  <2>5. ServerStreams'
    BY <1>1 DEF CallerConnect, serverVars, ServerInv, ServerStreams
  <2>6. Born'
    <3>1. \A x \in Device, b \in Conn : receiver[x][b].pc # "unborn" => b # c
      BY <2>1 DEF ServerInv, Born
    <3>2. \A x \in Device : acceptor[x] # "accept" /\ clientScoket[x] # None =>
            clientScoket[x] # c /\ clientScoket[x] \in Conn
      BY <1>a, <2>1, ServerTypes DEF ServerInv, Born, ConnRef
    <3> QED
      BY <1>1, <2>1, <2>3, <3>1, <3>2 DEF CallerConnect, serverVars, ServerInv, Born
  <2> QED
    BY <2>4, <2>5, <2>6 DEF ServerInv
<1>2. ASSUME NEW d \in Device, NEW c \in Conn, ReceiveStep(d, c) PROVE ServerInv'
  BY <1>2, ReceiveType
<1>3. ASSUME NEW d \in Device, AppReply(d) PROVE ServerInv'
  <2>1. PICK m \in Cmd : sendMsg(d, m)
    BY <1>3 DEF AppReply
  <2>2. serverHandler' \in [Device -> Seq(Cmd)]
    BY <1>a, <2>1, ServerTypes DEF sendMsg
  <2>3. TypeOK'
    BY <1>a, <1>3, <2>1, <2>2
       DEF AppReply, sendMsg, TypeOK, SocketsTypeOK, ServerTypeOK, sockVars
  <2>4. ConnsNamed
    BY <1>3 DEF AppReply, sockVars, ConnsNamed
  <2> QED
    BY <2>1, <2>3, <2>4, OutsideStep DEF sendMsg, ServerInv
<1>4. ASSUME NEW d \in Device, AppDisconnect(d) PROVE ServerInv'
  <2>1. srvDisconnect(d) /\ UNCHANGED <<alive, uiQueue, useVars>>
    BY <1>4 DEF AppDisconnect
  <2> QED
    BY <1>a, <2>1, DisconnectStep DEF TypeOK, SocketsTypeOK, useVars, ServerInv
<1>5. ASSUME NEW d \in Device, HandleFail(d) PROVE ServerInv'
  <2>1. srvDisconnect(d) /\ UNCHANGED <<alive, useVars>>
    BY <1>5 DEF HandleFail
  <2>2. uiQueue' \in [Device -> Seq(Message)]
    BY <1>a, <1>5, ServerTypes, QueueTail DEF HandleFail
  <2> QED
    BY <1>a, <2>1, <2>2, DisconnectStep DEF TypeOK, SocketsTypeOK, useVars, ServerInv
<1>6. ASSUME NEW d \in Device, HandleData(d) PROVE ServerInv'
  <2>1. uiQueue' \in [Device -> Seq(Message)] /\ Head(uiQueue[d]) \in Message
    BY <1>a, <1>6, ServerTypes, QueueTail DEF HandleData
  <2>2. handed[d] \o Head(uiQueue[d]).cmds \in Seq(Cmd)
    BY <1>a, <2>1, ServerTypes DEF Message
  <2>3. handed' \in [Device -> Seq(Cmd)]
    BY <1>a, <1>6, <2>2, ServerTypes DEF HandleData
  <2>4. TypeOK'
    BY <1>a, <1>6, <2>1, <2>3
       DEF HandleData, TypeOK, SocketsTypeOK, ServerTypeOK, serverVars
  <2>5. ConnsNamed
    BY <1>6 DEF HandleData, ConnsNamed
  <2> QED
    BY <1>6, <2>4, <2>5, OutsideStep DEF HandleData, serverVars, ServerInv
<1>7. ASSUME NEW d \in Device, AcceptStep(d) PROVE ServerInv'
  BY <1>7, AcceptType
<1>8. ASSUME NEW d \in Device, SendStep(d) PROVE ServerInv'
  <2>1. /\ clientScoket[d] \in ConnRef /\ serverHandler[d] \in Seq(Cmd)
        /\ serverHandler[d] # <<>>
    BY <1>a, <1>8, ServerTypes DEF SendStep, SendThread
  <2>2. Head(serverHandler[d]) \in Cmd /\ Tail(serverHandler[d]) \in Seq(Cmd)
    BY <2>1
  <2>3. conns' \in [Conn -> ConnRec] /\ ConnsNamed
    BY <1>a, <1>8, <2>1, <2>2, ServerTypes, WrittenType, WrittenNamed DEF SendStep, SendThread
  <2>4. outputStream' \in [Device -> ConnRef] /\ serverHandler' \in [Device -> Seq(Cmd)]
    BY <1>a, <1>8, <2>1, <2>2, ServerTypes DEF SendStep, SendThread
  <2>5. TypeOK'
    BY <1>a, <1>8, <2>3, <2>4
       DEF SendStep, SendThread, TypeOK, SocketsTypeOK, ServerTypeOK, useVars
  <2> QED
    BY <1>8, <2>3, <2>5, OutsideStep DEF SendStep, SendThread, ServerInv
<1>9. ASSUME NEW c \in Conn, CallerSend(c) PROVE ServerInv'
  <2>1. Len(origin) + 1 \in Cmd /\ c \in ConnRef
    BY <1>a, <1>9, ServerTypes, ServerUseAssumption DEF CallerSend, ConnRef
  <2>2. conns' \in [Conn -> ConnRec] /\ ConnsNamed
    BY <1>a, <1>9, <2>1, ServerTypes, WrittenType, WrittenNamed DEF CallerSend
  <2>3. origin' \in Seq(Conn)
    BY <1>a, <1>9, ServerTypes DEF CallerSend
  <2> QED
    BY <1>b, <1>9, <2>2, <2>3 DEF CallerSend
<1>10. ASSUME NEW c \in Conn, CallerRead(c) PROVE ServerInv'
  <2>0. <<>> \in Seq(Cmd)
    OBVIOUS
  <2>1. conns' \in [Conn -> ConnRec] /\ ConnsNamed
    <3>1. conns[c] \in ConnRec
      BY <1>a, ServerTypes
    <3> DEFINE k == [conns[c] EXCEPT !.inbox = [@ EXCEPT !["cli"] = <<>>]]
    <3>2. k \in ConnRec
      BY <2>0, <3>1 DEF ConnRec
    <3>3. /\ k.from = conns[c].from /\ k.to = conns[c].to
          /\ k.accepted = conns[c].accepted
      BY <3>1 DEF ConnRec
    <3>4. conns' = [conns EXCEPT ![c] = k]
      BY <1>10 DEF CallerRead
    <3>5. conns \in [Conn -> ConnRec]
      BY <1>a, ServerTypes
    <3> HIDE DEF k
    <3> QED
      BY <3>2, <3>3, <3>4, <3>5 DEF ConnsNamed
  <2> QED
    BY <1>a, <1>b, <1>10, <2>1, ServerTypes DEF CallerRead, useVars
<1>11. ASSUME NEW c \in Conn, CallerClose(c) PROVE ServerInv'
  <2>1. conns' \in [Conn -> ConnRec] /\ ConnsNamed
    BY <1>a, <1>11, ServerTypes, ClosedType, ClosedNamed DEF CallerClose
  <2> QED
    BY <1>a, <1>b, <1>11, <2>1, ServerTypes DEF CallerClose, useVars
<1>12. ASSUME NEW c \in Conn, LinkLoss(c) PROVE ServerInv'
  <2>1. conns' \in [Conn -> ConnRec] /\ ConnsNamed
    BY <1>a, <1>12, ServerTypes, ResetNamed DEF LinkLoss, LinkReset, ConnRec
  <2> QED
    BY <1>a, <1>b, <1>12, <2>1, ServerTypes DEF LinkLoss, LinkReset, useVars
<1>13. CASE UNCHANGED vars
  BY <1>a, <1>b, <1>13, ServerTypes DEF vars, sockVars, useVars, ConnsNamed
<1> QED
  BY <1>1, <1>2, <1>3, <1>4, <1>5, <1>6, <1>7, <1>8, <1>9, <1>10, <1>11, <1>12, <1>13 DEF Next

\* Every state of the server, its connections and its queues is well formed,
\* whatever the callers and the application do; no receive thread reads from a
\* null stream (TcpServer.java:48-182).
THEOREM ServerTypeCorrect == Spec => []TypeOK
<1>1. ServerInv => TypeOK
  BY DEF ServerInv
<1> QED
  BY <1>1, ServerInvInit, ServerInvStep, PTL DEF Spec
-----------------------------------------------------------------------------
\* What the process dies of: between the accept of a caller and its receive thread,
\* only a disconnect() can have cleared the field, and isConnect is still what it left.
DisconnectSeen(d) ==
  /\ acceptor[d] # "accept" /\ clientScoket[d] = None => ~isConnectFlag[d]
  /\ ~alive[d] => acceptor[d] # "accept" /\ ~isConnectFlag[d]

DeathInv == \A d \in Device : DisconnectSeen(d)

LEMMA DeathInit == Init => DeathInv
BY DEF Init, SocketsInit, ServerInit, DeathInv, DisconnectSeen

\* What leaves the process, its acceptor and the two fields alone.
LEMMA DeathQuiet ==
  ASSUME DeathInv, UNCHANGED <<alive, acceptor, clientScoket, isConnectFlag>>
  PROVE  DeathInv'
BY DEF DeathInv, DisconnectSeen

LEMMA DeathDisconnect ==
  ASSUME TypeOK, DeathInv, NEW d \in Device, alive[d], srvDisconnect(d), UNCHANGED alive
  PROVE  DeathInv'
<1>1. /\ ~isConnectFlag'[d] /\ acceptor' = acceptor
      /\ \A e \in Device : e # d => /\ isConnectFlag'[e] = isConnectFlag[e]
                                    /\ clientScoket'[e] = clientScoket[e]
  BY ServerTypes DEF srvDisconnect
<1> QED
  BY <1>1 DEF DeathInv, DisconnectSeen

LEMMA DeathAccept ==
  ASSUME TypeOK, DeathInv, NEW d \in Device, ServerThread(d)
  PROVE  DeathInv'
<1>a. DisconnectSeen(d) /\ alive[d]
  BY DEF DeathInv, ServerThread, Accept, SetAddress, StartReceiver
\* The other devices.
<1>b. ASSUME NEW e \in Device, e # d PROVE DisconnectSeen(e)'
  <2>1. /\ acceptor'[e] = acceptor[e] /\ clientScoket'[e] = clientScoket[e]
        /\ isConnectFlag'[e] = isConnectFlag[e]
    BY <1>b, ServerTypes DEF ServerThread, Accept, SetAddress, StartReceiver, Raised
  <2>2. alive'[e] = alive[e]
    BY <1>b, ServerTypes
       DEF ServerThread, Accept, SetAddress, StartReceiver, Crash, sockVars
  <2> QED
    BY <2>1, <2>2 DEF DeathInv, DisconnectSeen
<1> SUFFICES DisconnectSeen(d)'
  BY <1>b DEF DeathInv
<1>1. CASE Accept(d)
  <2>1. PICK c \in Conn : clientScoket' = [clientScoket EXCEPT ![d] = c]
    BY <1>1 DEF Accept
  <2>2. clientScoket'[d] # None /\ alive'[d]
    BY <1>a, <1>1, <2>1, ServerTypes DEF Accept, Conn, None
  <2> QED
    BY <2>2 DEF DisconnectSeen
<1>2. CASE SetAddress(d)
  <2>1. CASE clientScoket[d] = None
    BY <1>a, <1>2, <2>1 DEF SetAddress, DisconnectSeen
  <2>2. CASE clientScoket[d] # None
    BY <1>a, <1>2, <2>2 DEF SetAddress, DisconnectSeen, sockVars
  <2> QED
    BY <2>1, <2>2
<1>3. CASE StartReceiver(d)
  <2>1. CASE clientScoket[d] = None
    BY <1>a, <1>3, <2>1 DEF StartReceiver, DisconnectSeen
  <2>2. CASE clientScoket[d] # None
    <3>1. acceptor'[d] = "accept" /\ alive'[d]
      BY <1>a, <1>3, <2>2, ServerTypes DEF StartReceiver, sockVars
    <3> QED
      BY <3>1 DEF DisconnectSeen
  <2> QED
    BY <2>1, <2>2
<1> QED
  BY <1>1, <1>2, <1>3 DEF ServerThread

LEMMA DeathStep == TypeOK /\ DeathInv /\ [Next]_vars => DeathInv'
<1> SUFFICES ASSUME TypeOK, DeathInv, [Next]_vars PROVE DeathInv'
  OBVIOUS
<1>1. ASSUME NEW d \in Device, AppDisconnect(d) \/ HandleFail(d) PROVE DeathInv'
  BY <1>1, DeathDisconnect DEF AppDisconnect, HandleFail
<1>2. ASSUME NEW d \in Device, AcceptStep(d) PROVE DeathInv'
  BY <1>2, DeathAccept DEF AcceptStep
<1>3. ASSUME NEW d \in Device, NEW r \in Conn, ReceiveStep(d, r) PROVE DeathInv'
  BY <1>3, DeathQuiet DEF ReceiveStep, ReceiveThread, RcvLoop, RcvRead, RcvPost, sockVars
<1>4. ASSUME NEW d \in Device, SendStep(d) \/ AppReply(d) \/ HandleData(d) PROVE DeathInv'
  BY <1>4, DeathQuiet
     DEF SendStep, SendThread, AppReply, sendMsg, HandleData, serverVars, sockVars
<1>5. ASSUME NEW d \in Device, NEW c \in Conn, CallerConnect(d, c) PROVE DeathInv'
  BY <1>5, DeathQuiet DEF CallerConnect, serverVars
<1>6. ASSUME NEW c \in Conn, CallerSend(c) \/ CallerRead(c) \/ CallerClose(c) \/ LinkLoss(c)
      PROVE  DeathInv'
  BY <1>6, DeathQuiet
     DEF CallerSend, CallerRead, CallerClose, LinkLoss, LinkReset, serverVars
<1>7. CASE UNCHANGED vars
  BY <1>7, DeathQuiet DEF vars, sockVars, serverVars
<1> QED
  BY <1>1, <1>2, <1>3, <1>4, <1>5, <1>6, <1>7 DEF Next

\* The process dies of nothing but a disconnect() between the accept of a caller and
\* its receive thread, for any number of devices, callers and commands
\* (TcpServer.java:69-88,124-129).
THEOREM DeathIsADisconnect == Spec => []DiesOnlyDisconnected
<1>1. DeathInv => DiesOnlyDisconnected
  BY DEF DeathInv, DisconnectSeen, DiesOnlyDisconnected
<1>2. ServerInv => TypeOK
  BY DEF ServerInv
<1> QED
  BY <1>1, <1>2, ServerInvInit, ServerInvStep, DeathInit, DeathStep, PTL DEF Spec
-----------------------------------------------------------------------------
(***************************************************************************)
(* No command is lost or doubled.  The commands that a holder has are what *)
(* Hold of SocketsTheorems makes of the state; Tidy makes the moves whole: *)
(* a buffer that is overwritten is empty, and so is a message that tells   *)
(* of no data.                                                             *)
(***************************************************************************)
Inbox == [c \in Conn |-> conns[c].inbox["srv"]]
Chunks == [d \in Device |-> [t \in Conn |-> receiver[d][t].chunk]]
Held == Hold(Conn, Inbox, Chunks, uiQueue, handed)

Tidy ==
  /\ UnusedEmpty
  /\ \A d \in Device, t \in Conn : receiver[d][t].pc # "post" => receiver[d][t].chunk = <<>>
  /\ \A d \in Device : \A k \in DOMAIN uiQueue[d] :
       uiQueue[d][k].what # "data" => uiQueue[d][k].cmds = <<>>

Custody ==
  /\ \A r \in 1 .. Len(origin) : Once(Held, r)
  /\ \A r \in Nat : r > Len(origin) => Nowhere(Held, r)

PlaceInv == Tidy /\ Custody

\* What the steps that write no command come to.
Carried == Tidy' /\ \A r \in Nat : Kept(Held, Held', r)

InboxStays == UnusedEmpty' /\ \A c \in Conn : conns'[c].inbox["srv"] = conns[c].inbox["srv"]
ThreadsStay ==
  \A d \in Device, t \in Conn :
    /\ receiver'[d][t].chunk = receiver[d][t].chunk
    /\ receiver[d][t].pc = "post" => receiver'[d][t].pc = "post"

LEMMA HeldTypes ==
  ASSUME ServerInv
  PROVE  /\ Inbox \in [Conn -> Seq(Cmd)] /\ Chunks \in [Device -> [Conn -> Seq(Cmd)]]
         /\ uiQueue \in [Device -> Seq(Message)] /\ handed \in [Device -> Seq(Cmd)]
         /\ conns \in [Conn -> ConnRec] /\ "cli" \in Side /\ "srv" \in Side
         /\ receiver \in [Device -> [Conn -> ReceiverRec]]
<1>1. /\ conns \in [Conn -> ConnRec] /\ uiQueue \in [Device -> Seq(Message)]
      /\ receiver \in [Device -> [Conn -> ReceiverRec]] /\ handed \in [Device -> Seq(Cmd)]
      /\ "cli" \in Side /\ "srv" \in Side
  BY ServerTypes DEF ServerInv
<1>2. \A c \in Conn : conns[c].inbox["srv"] \in Seq(Cmd)
  BY <1>1 DEF ConnRec
<1>3. \A d \in Device, t \in Conn : receiver[d][t].chunk \in Seq(Cmd)
  BY <1>1 DEF ReceiverRec
<1> QED
  BY <1>1, <1>2, <1>3 DEF Inbox, Chunks

LEMMA InboxSame == InboxStays => Inbox' = Inbox
BY DEF InboxStays, Inbox

LEMMA ChunksSame == ThreadsStay => Chunks' = Chunks
<1> SUFFICES ASSUME ThreadsStay PROVE Chunks' = Chunks
  OBVIOUS
<1>1. \A d \in Device, t \in Conn : receiver'[d][t].chunk = receiver[d][t].chunk
  BY DEF ThreadsStay
<1> QED
  BY <1>1 DEF Chunks

\* One buffer gets q.
LEMMA ChunksSet ==
  ASSUME NEW d \in Device, NEW t \in Conn, NEW q,
         \A x \in Device, y \in Conn :
           receiver'[x][y].chunk = IF x = d /\ y = t THEN q ELSE receiver[x][y].chunk
  PROVE  Chunks' = [Chunks EXCEPT ![d][t] = q]
<1> DEFINE C == [Chunks EXCEPT ![d][t] = q]
<1>1. /\ \A x \in Device : x # d => C[x] = Chunks[x]
      /\ C[d] = [Chunks[d] EXCEPT ![t] = q]
      /\ \A x \in Device : Chunks[x] = [y \in Conn |-> receiver[x][y].chunk]
      /\ C = [x \in Device |-> C[x]]
  BY DEF Chunks
<1>2. \A x \in Device : x # d => [y \in Conn |-> receiver'[x][y].chunk] = C[x]
  BY <1>1
<1>3. [y \in Conn |-> receiver'[d][y].chunk] = C[d]
  <2> DEFINE L == [y \in Conn |-> receiver'[d][y].chunk]
             R == [y \in Conn |-> IF y = t THEN q ELSE receiver[d][y].chunk]
  <2>1. C[d] = R
    <3>1. C[d] = [Chunks[d] EXCEPT ![t] = q]
      BY <1>1
    <3>2. Chunks[d] = [y \in Conn |-> receiver[d][y].chunk]
      BY <1>1
    <3> HIDE DEF C
    <3> QED
      BY <3>1, <3>2
  <2>2. \A y \in Conn : L[y] = R[y]
    OBVIOUS
  <2>3. L = [y \in Conn |-> L[y]] /\ R = [y \in Conn |-> R[y]]
    OBVIOUS
  <2> HIDE DEF C, R
  <2>4. L = R
    <3> HIDE DEF L
    <3> QED
      BY <2>2, <2>3
  <2> QED
    BY <2>1, <2>4
<1> HIDE DEF C
<1>4. Chunks' = [x \in Device |-> [y \in Conn |-> receiver'[x][y].chunk]]
  BY DEF Chunks
<1>5. Chunks' = C
  BY <1>1, <1>2, <1>3, <1>4
<1> QED
  BY <1>5 DEF C

LEMMA QuietInbox ==
  ASSUME ServerInv, Tidy, ConnsQuiet
  PROVE  InboxStays
<1>1. \A c \in Conn : conns'[c].inbox["srv"] = conns[c].inbox["srv"]
  BY DEF ConnsQuiet
<1>2. UnusedEmpty'
  BY QuietUnused DEF Tidy
<1> QED
  BY <1>1, <1>2 DEF InboxStays

LEMMA StayCarried ==
  ASSUME ServerInv, Tidy, InboxStays, ThreadsStay, UNCHANGED <<uiQueue, handed>>
  PROVE  Carried
<1>1. Held' = Held
  BY InboxSame, ChunksSame DEF Held
<1>2. Tidy'
  BY DEF Tidy, ThreadsStay, InboxStays
<1> QED
  BY <1>1, <1>2 DEF Carried, Kept

\* Thread t posts what its buffer has, be it nothing.
LEMMA PostCarried ==
  ASSUME ServerInv, Tidy, InboxStays, UNCHANGED handed,
         NEW d \in Device, NEW t \in Conn, NEW what \in {"fail", "success", "data"},
         what # "data" => receiver[d][t].chunk = <<>>,
         uiQueue' = Posted(d, "server", what, receiver[d][t].chunk),
         NEW r2, receiver' = [receiver EXCEPT ![d][t] = r2], r2.chunk = <<>>
  PROVE  Carried
<1> DEFINE m == [src |-> "server", what |-> what, cmds |-> receiver[d][t].chunk]
<1>1. receiver[d][t].chunk \in Seq(Cmd) /\ uiQueue[d] \in Seq(Message)
  BY HeldTypes DEF ReceiverRec
<1>2. m \in Message /\ m.cmds = receiver[d][t].chunk /\ m.what = what
  BY <1>1 DEF Message
<1>3. uiQueue' = [uiQueue EXCEPT ![d] = Append(uiQueue[d], m)]
  BY DEF Posted
<1> HIDE DEF m
<1>4. Chunks' = [Chunks EXCEPT ![d][t] = <<>>] /\ Chunks[d][t] = receiver[d][t].chunk
  <2>1. \A x \in Device, y \in Conn :
          receiver'[x][y].chunk = IF x = d /\ y = t THEN <<>> ELSE receiver[x][y].chunk
    BY HeldTypes
  <2> QED
    BY <2>1, ChunksSet DEF Chunks
<1>5. ASSUME NEW r \in Nat PROVE Kept(Held, Held', r)
  <2>1. Kept(Hold(Conn, Inbox, Chunks, uiQueue, handed),
             Hold(Conn, Inbox, [Chunks EXCEPT ![d][t] = <<>>],
                  [uiQueue EXCEPT ![d] = Append(uiQueue[d], m)], handed), r)
    BY <1>2, <1>4, HeldTypes, PostKeeps
  <2> QED
    BY <1>3, <1>4, <2>1, InboxSame DEF Held
<1>6. Tidy'
  <2>1. \A x \in Device, y \in Conn : receiver'[x][y].pc # "post" => receiver'[x][y].chunk = <<>>
    BY HeldTypes DEF Tidy
  <2>2. ASSUME NEW x \in Device, NEW k \in DOMAIN uiQueue'[x], uiQueue'[x][k].what # "data"
        PROVE  uiQueue'[x][k].cmds = <<>>
    <3>1. CASE x # d
      BY <1>3, <2>2, <3>1, HeldTypes DEF Tidy
    <3>2. CASE x = d /\ k \in DOMAIN uiQueue[d]
      <4>1. uiQueue'[d] = Append(uiQueue[d], m)
        BY <1>3, HeldTypes
      <4>2. uiQueue'[d][k] = uiQueue[d][k]
        BY <1>1, <3>2, <4>1
      <4> QED
        BY <2>2, <3>2, <4>2 DEF Tidy
    <3>3. CASE x = d /\ k \notin DOMAIN uiQueue[d]
      <4>1. uiQueue'[d][k] = m
        BY <1>1, <1>3, <2>2, <3>3, HeldTypes
      <4> QED
        BY <1>2, <2>2, <3>3, <4>1
    <3> QED
      BY <3>1, <3>2, <3>3
  <2> QED
    BY <2>1, <2>2 DEF Tidy, InboxStays
<1> QED
  BY <1>5, <1>6 DEF Carried

\* The Looper takes a message; handed gets what is in it, be it nothing.
LEMMA HandleCarried ==
  ASSUME ServerInv, Tidy, InboxStays, ThreadsStay, NEW d \in Device, uiQueue[d] # <<>>,
         uiQueue' = [uiQueue EXCEPT ![d] = Tail(@)],
         \/ handed' = [handed EXCEPT ![d] = @ \o Head(uiQueue[d]).cmds]
         \/ UNCHANGED handed /\ Head(uiQueue[d]).what # "data"
  PROVE  Carried
<1>1. /\ uiQueue[d] \in Seq(Message) /\ Head(uiQueue[d]) = uiQueue[d][1]
      /\ 1 \in DOMAIN uiQueue[d] /\ handed[d] \in Seq(Cmd) /\ Len(uiQueue[d]) \in Nat
  BY HeldTypes
<1>2. handed' = [handed EXCEPT ![d] = handed[d] \o Head(uiQueue[d]).cmds]
  <2>1. CASE handed' = [handed EXCEPT ![d] = @ \o Head(uiQueue[d]).cmds]
    BY <2>1
  <2>2. CASE UNCHANGED handed /\ Head(uiQueue[d]).what # "data"
    <3>1. Head(uiQueue[d]).cmds = <<>>
      BY <1>1, <2>2 DEF Tidy
    <3>2. handed[d] \o <<>> = handed[d]
      BY <1>1
    <3> QED
      BY <2>2, <3>1, <3>2, HeldTypes
  <2> QED
    BY <2>1, <2>2
<1>3. ASSUME NEW r \in Nat PROVE Kept(Held, Held', r)
  <2>1. Kept(Hold(Conn, Inbox, Chunks, uiQueue, handed),
             Hold(Conn, Inbox, Chunks, [uiQueue EXCEPT ![d] = Tail(uiQueue[d])],
                  [handed EXCEPT ![d] = handed[d] \o Head(uiQueue[d]).cmds]), r)
    BY HeldTypes, HandleKeeps
  <2> QED
    BY <1>2, <2>1, InboxSame, ChunksSame DEF Held
<1>4. Tidy'
  <2>1. ASSUME NEW x \in Device, NEW k \in DOMAIN uiQueue'[x], uiQueue'[x][k].what # "data"
        PROVE  uiQueue'[x][k].cmds = <<>>
    <3>1. CASE x # d
      BY <2>1, <3>1, HeldTypes DEF Tidy
    <3>2. CASE x = d
      <4>1. k + 1 \in DOMAIN uiQueue[d] /\ uiQueue'[d][k] = uiQueue[d][k + 1]
        BY <1>1, <2>1, <3>2, HeldTypes
      <4> QED
        BY <2>1, <3>2, <4>1 DEF Tidy
    <3> QED
      BY <3>1, <3>2
  <2> QED
    BY <2>1 DEF Tidy, InboxStays, ThreadsStay
<1> QED
  BY <1>3, <1>4 DEF Carried

\* Thread t reads n commands of connection c.
LEMMA ReadCarried ==
  ASSUME ServerInv, Tidy, UNCHANGED <<uiQueue, handed>>,
         NEW d \in Device, NEW t \in Conn, receiver[d][t].pc = "read",
         NEW c \in Conn, NEW n \in 1 .. Len(conns[c].inbox["srv"]),
         conns' = Taken(c, "srv", n),
         NEW r2, receiver' = [receiver EXCEPT ![d][t] = r2], r2.pc = "post",
         r2.chunk = SubSeq(conns[c].inbox["srv"], 1, n)
  PROVE  Carried
<1>1. receiver[d][t].chunk = <<>>
  BY DEF Tidy
<1>2. /\ UnusedEmpty'
      /\ \A b \in Conn :
           conns'[b].inbox["srv"] =
             IF b = c THEN SubSeq(conns[c].inbox["srv"], n + 1, Len(conns[c].inbox["srv"]))
                      ELSE conns[b].inbox["srv"]
  BY HeldTypes, TakenInbox DEF Tidy
<1>3. /\ Inbox[c] = conns[c].inbox["srv"]
      /\ Inbox' = [Inbox EXCEPT ![c] = SubSeq(Inbox[c], n + 1, Len(Inbox[c]))]
  BY <1>2 DEF Inbox
<1>4. /\ Chunks[d][t] = <<>>
      /\ Chunks' = [Chunks EXCEPT ![d][t] = SubSeq(Inbox[c], 1, n)]
  <2>0. PICK q : q = SubSeq(Inbox[c], 1, n)
    OBVIOUS
  <2>1. r2.chunk = q
    BY <1>3, <2>0
  <2>2. \A x \in Device, y \in Conn :
          receiver'[x][y].chunk = IF x = d /\ y = t THEN q ELSE receiver[x][y].chunk
    BY <2>1, HeldTypes
  <2>3. Chunks' = [Chunks EXCEPT ![d][t] = q]
    BY ONLY <2>2, ChunksSet
  <2>4. Chunks[d][t] = <<>>
    BY <1>1 DEF Chunks
  <2> QED
    BY <2>0, <2>3, <2>4
<1>5. ASSUME NEW r \in Nat PROVE Kept(Held, Held', r)
  <2>1. Kept(Hold(Conn, Inbox, Chunks, uiQueue, handed),
             Hold(Conn, [Inbox EXCEPT ![c] = SubSeq(Inbox[c], n + 1, Len(Inbox[c]))],
                  [Chunks EXCEPT ![d][t] = SubSeq(Inbox[c], 1, n)], uiQueue, handed), r)
    BY <1>3, <1>4, HeldTypes, ReadKeeps
  <2> QED
    BY <1>3, <1>4, <2>1 DEF Held
<1>6. Tidy'
  BY <1>2, HeldTypes DEF Tidy
<1> QED
  BY <1>5, <1>6 DEF Carried

\* Thread t gets the record r2, its buffer as it is.
LEMMA OneThreadStays ==
  ASSUME ServerInv, NEW d \in Device, NEW t \in Conn, receiver[d][t].pc # "post",
         NEW r2, receiver' = [receiver EXCEPT ![d][t] = r2], r2.chunk = receiver[d][t].chunk
  PROVE  ThreadsStay
BY HeldTypes DEF ThreadsStay

LEMMA SameConns == Tidy /\ UNCHANGED conns => InboxStays
BY DEF Tidy, InboxStays, UnusedEmpty

\* srvDisconnect() touches no command.
LEMMA DisconnectStays ==
  ASSUME ServerInv, Tidy, NEW d \in Device, srvDisconnect(d)
  PROVE  InboxStays /\ ThreadsStay
<1>1. ConnsQuiet /\ UNCHANGED receiver
  BY DisconnectStep
<1> QED
  BY <1>1, QuietInbox DEF ThreadsStay

LEMMA AcceptCarried ==
  ASSUME ServerInv, Tidy, NEW d \in Device, AcceptStep(d)
  PROVE  Carried
<1>a. UNCHANGED handed /\ (UNCHANGED conns => InboxStays)
  BY SameConns DEF AcceptStep, useVars
<1>1. CASE Accept(d)
  <2>1. ConnsQuiet
    BY <1>1, HeldTypes DEF Accept, ConnsQuiet, ConnRec
  <2>2. InboxStays /\ ThreadsStay
    BY <1>1, <2>1, QuietInbox DEF Accept, ThreadsStay
  <2> QED
    BY <1>a, <1>1, <2>2, StayCarried DEF Accept
<1>2. ASSUME Crash(d), UNCHANGED receiver PROVE Carried
  <2>1. InboxStays /\ ThreadsStay /\ UNCHANGED uiQueue
    BY <1>2, HeldTypes, CrashQuiet, QuietInbox DEF Crash, ThreadsStay
  <2> QED
    BY <1>a, <2>1, StayCarried
<1>3. CASE SetAddress(d) /\ clientScoket[d] # None
  BY <1>a, <1>3, StayCarried DEF SetAddress, sockVars, ThreadsStay
<1>4. CASE StartReceiver(d) /\ clientScoket[d] # None
  <2> DEFINE c == clientScoket[d]
             q == [receiver[d][c] EXCEPT !.pc = "loop"]
  <2>1. c \in Conn /\ receiver[d][c].pc = "unborn"
    BY <1>4, ServerTypes DEF StartReceiver, ServerInv, Born, ConnRef
  <2>2. q.chunk = receiver[d][c].chunk
    BY <2>1, HeldTypes DEF ReceiverRec
  <2>3. receiver' = [receiver EXCEPT ![d][c] = q] /\ UNCHANGED <<conns, uiQueue>>
    BY <1>4 DEF StartReceiver, sockVars
  <2> HIDE DEF c, q
  <2> QED
    BY <1>a, <2>1, <2>2, <2>3, OneThreadStays, StayCarried
<1> QED
  BY <1>1, <1>2, <1>3, <1>4 DEF AcceptStep, ServerThread, SetAddress, StartReceiver

LEMMA ReceiveCarried ==
  ASSUME ServerInv, Tidy, NEW d \in Device, NEW t \in Conn, ReceiveStep(d, t)
  PROVE  Carried
<1>a. UNCHANGED handed /\ (UNCHANGED conns => InboxStays)
  BY SameConns DEF ReceiveStep, useVars
<1>b. \A pc : [NoReceiver EXCEPT !.pc = pc].chunk = <<>>
  BY DEF NoReceiver
<1>c. receiver[d][t].pc # "post" => receiver[d][t].chunk = <<>>
  BY DEF Tidy
\* A thread with an empty buffer that goes on with an empty buffer.
<1>d. ASSUME receiver[d][t].pc # "post", UNCHANGED <<conns, uiQueue>>,
             NEW q, receiver' = [receiver EXCEPT ![d][t] = q], q.chunk = <<>>
      PROVE  Carried
  BY <1>a, <1>c, <1>d, OneThreadStays, StayCarried
<1>1. CASE RcvLoop(d, t)
  <2> DEFINE q == IF isConnectFlag[d] /\ srvIsConnect(d)
                  THEN [receiver[d][t] EXCEPT !.pc = "read", !.stream = inputStream[d]]
                  ELSE [NoReceiver EXCEPT !.pc = "done"]
  <2>1. receiver[d][t].pc # "post" /\ UNCHANGED <<conns, uiQueue>>
        /\ receiver' = [receiver EXCEPT ![d][t] = q]
    BY <1>1 DEF RcvLoop, sockVars
  <2>2. q.chunk = <<>>
    BY <1>b, <1>c, <2>1, HeldTypes DEF ReceiverRec
  <2> HIDE DEF q
  <2> QED
    BY <1>d, <2>1, <2>2
<1>2. CASE RcvRead(d, t)
  <2> DEFINE c == receiver[d][t].stream
  <2>0. c \in Conn /\ receiver[d][t].pc = "read"
    BY <1>2, HeldTypes DEF RcvRead, ServerInv, ServerStreams, ReceiverRec, ConnRef
  <2>1. ASSUME NEW n \in 1 .. Len(conns[c].inbox["srv"]), conns' = Taken(c, "srv", n),
               receiver' = [receiver EXCEPT ![d][t] =
                  [pc |-> "post", stream |-> None,
                   chunk |-> RcvCopy(conns[c].inbox["srv"], n)]],
               UNCHANGED uiQueue
        PROVE  Carried
    <3> HIDE DEF c
    <3>1. PICK b \in Conn : b = c
      BY <2>0
    <3> DEFINE q == [pc |-> "post", stream |-> None,
                     chunk |-> SubSeq(conns[b].inbox["srv"], 1, n)]
    <3>2. /\ conns' = Taken(b, "srv", n) /\ n \in 1 .. Len(conns[b].inbox["srv"])
          /\ receiver' = [receiver EXCEPT ![d][t] = q] /\ q.pc = "post"
          /\ q.chunk = SubSeq(conns[b].inbox["srv"], 1, n)
          /\ UNCHANGED <<uiQueue, handed>>
      BY <1>a, <2>1, <3>1 DEF RcvCopy
    <3> HIDE DEF q
    <3> QED
      BY <2>0, <3>2, ReadCarried
  <2>2. CASE /\ receiver' = [receiver EXCEPT ![d][t] = [NoReceiver EXCEPT !.pc = "loop"]]
             /\ UNCHANGED <<conns, uiQueue>>
    BY <1>b, <1>d, <2>0, <2>2
  <2>3. CASE /\ receiver' = [receiver EXCEPT ![d][t] = [NoReceiver EXCEPT !.pc = "done"]]
             /\ uiQueue' = Posted(d, "server", "fail", <<>>) /\ UNCHANGED conns
    <3> DEFINE q == [NoReceiver EXCEPT !.pc = "done"]
    <3>1. /\ receiver[d][t].chunk = <<>> /\ q.chunk = <<>>
          /\ receiver' = [receiver EXCEPT ![d][t] = q]
          /\ uiQueue' = Posted(d, "server", "fail", receiver[d][t].chunk)
      BY <1>b, <1>c, <2>0, <2>3
    <3>2. InboxStays /\ UNCHANGED handed
      BY <1>a, <2>3
    <3> HIDE DEF q, c
    <3> QED
      BY <3>1, <3>2, PostCarried
  <2> QED
    BY <1>2, <2>1, <2>2, <2>3 DEF RcvRead
<1>3. CASE RcvPost(d, t)
  <2> DEFINE q == [NoReceiver EXCEPT !.pc = "loop"]
  <2>1. /\ q.chunk = <<>> /\ receiver' = [receiver EXCEPT ![d][t] = q] /\ UNCHANGED conns
        /\ uiQueue' = Posted(d, "server", "data", receiver[d][t].chunk)
    BY <1>3, <1>b DEF RcvPost, RcvWhat
  <2>2. InboxStays /\ UNCHANGED handed
    BY <1>a, <2>1
  <2> HIDE DEF q
  <2> QED
    BY <2>1, <2>2, PostCarried
<1> QED
  BY <1>1, <1>2, <1>3 DEF ReceiveStep, ReceiveThread

\* A reply of the server adds to what its caller has to read.
LEMMA SendCarried ==
  ASSUME ServerInv, Tidy, NEW d \in Device, SendStep(d)
  PROVE  Carried
<1>1. /\ clientScoket[d] \in ConnRef /\ serverHandler[d] \in Seq(Cmd)
      /\ serverHandler[d] # <<>>
  BY ServerTypes DEF SendStep, SendThread, ServerInv
<1>2. Head(serverHandler[d]) \in Cmd
  BY <1>1
<1>3. InboxStays
  BY <1>1, <1>2, HeldTypes, WrittenInbox DEF SendStep, SendThread, Tidy, InboxStays
<1> QED
  BY <1>3, StayCarried DEF SendStep, SendThread, ThreadsStay, useVars

\* Whatever writes no command moves the commands that are there, and no more.
LEMMA StepCarried ==
  ASSUME ServerInv, Tidy, [Next]_vars, ~\E c \in Conn : CallerSend(c)
  PROVE  Carried /\ UNCHANGED origin
<1>a. UNCHANGED conns => InboxStays
  BY SameConns
<1>b. UNCHANGED receiver => ThreadsStay
  BY DEF ThreadsStay
<1>c. ASSUME InboxStays, UNCHANGED <<uiQueue, serverVars, useVars>>
      PROVE  Carried /\ UNCHANGED origin
  BY <1>b, <1>c, StayCarried DEF serverVars, useVars
<1>1. ASSUME NEW d \in Device, NEW c \in Conn, CallerConnect(d, c)
      PROVE  Carried /\ UNCHANGED origin
  <2>1. InboxStays
    BY <1>1, HeldTypes, EstablishedInbox DEF CallerConnect, NextConn, InboxStays, Tidy
  <2> QED
    BY <1>1, <1>c, <2>1 DEF CallerConnect
<1>2. ASSUME NEW d \in Device, NEW c \in Conn, ReceiveStep(d, c)
      PROVE  Carried /\ UNCHANGED origin
  BY <1>2, ReceiveCarried DEF ReceiveStep, useVars
<1>3. ASSUME NEW d \in Device, AppReply(d) PROVE Carried /\ UNCHANGED origin
  BY <1>3, <1>a, <1>b, StayCarried DEF AppReply, sendMsg, sockVars
<1>4. ASSUME NEW d \in Device, AppDisconnect(d) PROVE Carried /\ UNCHANGED origin
  BY <1>4, DisconnectStays, StayCarried DEF AppDisconnect, useVars
<1>5. ASSUME NEW d \in Device, HandleFail(d) PROVE Carried /\ UNCHANGED origin
  BY <1>5, DisconnectStays, HandleCarried DEF HandleFail, useVars
<1>6. ASSUME NEW d \in Device, HandleData(d) PROVE Carried /\ UNCHANGED origin
  BY <1>6, <1>a, <1>b, HandleCarried DEF HandleData, serverVars
<1>7. ASSUME NEW d \in Device, AcceptStep(d) PROVE Carried /\ UNCHANGED origin
  BY <1>7, AcceptCarried DEF AcceptStep, useVars
<1>8. ASSUME NEW d \in Device, SendStep(d) PROVE Carried /\ UNCHANGED origin
  BY <1>8, SendCarried DEF SendStep, useVars
<1>9. ASSUME NEW c \in Conn, CallerRead(c) PROVE Carried /\ UNCHANGED origin
  <2>1. /\ \A b \in Conn : /\ conns'[b].inbox["srv"] = conns[b].inbox["srv"]
                           /\ conns'[b].from = conns[b].from /\ conns'[b].open = conns[b].open
        /\ \A b \in Conn : b # c => conns'[b] = conns[b]
        /\ conns[c].open["cli"]
    BY <1>9, HeldTypes DEF CallerRead, ConnRec
  <2>2. conns[c].from # NoDevice
    BY <2>1, HeldTypes DEF Tidy, UnusedEmpty
  <2>3. UnusedEmpty'
    BY <2>1, <2>2 DEF Tidy, UnusedEmpty
  <2>4. InboxStays
    BY <2>1, <2>3 DEF InboxStays
  <2> QED
    BY <1>9, <1>c, <2>4 DEF CallerRead
<1>10. ASSUME NEW c \in Conn, CallerClose(c) PROVE Carried /\ UNCHANGED origin
  <2>1. InboxStays
    BY <1>10, HeldTypes, ClosedQuiet, QuietInbox DEF CallerClose
  <2> QED
    BY <1>10, <1>c, <2>1 DEF CallerClose
<1>11. ASSUME NEW c \in Conn, LinkLoss(c) PROVE Carried /\ UNCHANGED origin
  <2>1. InboxStays
    BY <1>11, HeldTypes, ResetQuiet, QuietInbox DEF LinkLoss
  <2> QED
    BY <1>11, <1>c, <2>1 DEF LinkLoss, LinkReset
<1>12. CASE UNCHANGED vars
  BY <1>a, <1>c, <1>12 DEF vars, sockVars
<1> QED
  BY <1>1, <1>2, <1>3, <1>4, <1>5, <1>6, <1>7, <1>8, <1>9, <1>10, <1>11, <1>12 DEF Next

\* A caller writes command Len(origin) + 1, or nothing gets through.
LEMMA CallerSendPlaces ==
  ASSUME ServerInv, PlaceInv, NEW c \in Conn, CallerSend(c)
  PROVE  PlaceInv'
<1> DEFINE m == Len(origin) + 1
<1>a. origin \in Seq(Conn) /\ Len(origin) \in Nat /\ m \in Cmd /\ c \in ConnRef
  BY ServerUseAssumption, ServerTypes DEF ServerInv, CallerSend, ConnRef
<1>b. "cli" \in Side /\ Other("cli") = "srv"
  BY OtherSide DEF Side
<1>c. UNCHANGED <<uiQueue, receiver, handed>> /\ Chunks' = Chunks
  BY DEF CallerSend, serverVars, Chunks
<1>1. /\ UnusedEmpty'
      /\ \A b \in Conn :
           conns'[b].inbox["srv"] =
             IF b = c /\ conns[c].open["cli"] /\ ~conns[c].reset /\ conns[c].open["srv"]
             THEN Append(conns[c].inbox["srv"], m) ELSE conns[b].inbox["srv"]
  <2>1. conns' = Written(c, "cli", m)
    BY DEF CallerSend
  <2> HIDE DEF m
  <2> QED
    BY <1>a, <1>b, <2>1, HeldTypes, WrittenInbox DEF PlaceInv, Tidy
<1>2. Tidy'
  BY <1>c, <1>1 DEF PlaceInv, Tidy
<1>3. CASE conns[c].open["srv"] /\ ~conns[c].reset
  <2>1. Inbox' = [Inbox EXCEPT ![c] = Append(Inbox[c], m)]
    BY <1>1, <1>3 DEF CallerSend, Inbox
  <2>2. origin' = Append(origin, c) /\ Len(origin') = m
    BY <1>3, <1>a DEF CallerSend
  <2>3. /\ \A r : r # m => Kept(Held, Held', r)
        /\ Nowhere(Held, m) => Once(Held', m)
    <3> HIDE DEF m
    <3>1. LET S2 == Hold(Conn, [Inbox EXCEPT ![c] = Append(Inbox[c], m)], Chunks,
                         uiQueue, handed)
          IN  (\A r : r # m => Kept(Held, S2, r)) /\ (Nowhere(Held, m) => Once(S2, m))
      BY HeldTypes, WriteKeeps DEF Held
    <3>2. Held' = Hold(Conn, [Inbox EXCEPT ![c] = Append(Inbox[c], m)], Chunks,
                       uiQueue, handed)
      BY <1>c, <2>1 DEF Held
    <3> QED
      BY <3>1, <3>2
  <2>4. m \in Nat /\ m > Len(origin) /\ Nowhere(Held, m) /\ Once(Held', m)
    BY <1>a, <2>3 DEF PlaceInv, Custody
  <2>5. ASSUME NEW r \in 1 .. Len(origin') PROVE Once(Held', r)
    <3>1. r = m \/ (r # m /\ r \in 1 .. Len(origin))
      BY <1>a, <2>2
    <3> QED
      BY <2>3, <2>4, <3>1 DEF PlaceInv, Custody, Kept
  <2>6. ASSUME NEW r \in Nat, r > Len(origin') PROVE Nowhere(Held', r)
    <3>1. r # m /\ r > Len(origin)
      BY <1>a, <2>2, <2>6
    <3> QED
      BY <2>3, <3>1 DEF PlaceInv, Custody, Kept
  <2> QED
    BY <1>2, <2>5, <2>6 DEF PlaceInv, Custody
<1>4. CASE ~(conns[c].open["srv"] /\ ~conns[c].reset)
  <2>1. Inbox' = Inbox /\ UNCHANGED origin
    BY <1>1, <1>4 DEF CallerSend, Inbox
  <2>2. Held' = Held
    BY <1>c, <2>1 DEF Held
  <2> QED
    BY <1>2, <2>1, <2>2 DEF PlaceInv, Custody
<1> QED
  BY <1>3, <1>4

LEMMA PlaceStep == ServerInv /\ PlaceInv /\ [Next]_vars => PlaceInv'
<1> SUFFICES ASSUME ServerInv, PlaceInv, [Next]_vars PROVE PlaceInv'
  OBVIOUS
<1>1. CASE \E c \in Conn : CallerSend(c)
  BY <1>1, CallerSendPlaces
<1>2. CASE ~\E c \in Conn : CallerSend(c)
  <2>1. Carried /\ UNCHANGED origin
    BY <1>2, StepCarried DEF PlaceInv
  <2>2. Len(origin) \in Nat
    BY ServerTypes DEF ServerInv
  <2> QED
    BY <2>1, <2>2 DEF PlaceInv, Custody, Carried, Kept
<1> QED
  BY <1>1, <1>2

LEMMA PlaceInit == Init => PlaceInv
<1> SUFFICES ASSUME Init PROVE PlaceInv
  OBVIOUS
<1>1. /\ \A c \in Conn : \A s \in Side : conns[c].inbox[s] = <<>> /\ ~conns[c].open[s]
      /\ \A d \in Device, t \in Conn : receiver[d][t].chunk = <<>>
      /\ \A d \in Device : uiQueue[d] = <<>> /\ handed[d] = <<>>
      /\ origin = <<>>
  BY DEF Init, SocketsInit, ServerInit, NoReceiver, Unused
<1>2. Tidy
  BY <1>1 DEF Tidy, UnusedEmpty
<1>3. ASSUME NEW r PROVE Nowhere(Held, r)
  <2>1. /\ \A c \in Conn : Inbox[c] = <<>>
        /\ \A d \in Device, t \in Conn : Chunks[d][t] = <<>>
    BY <1>1 DEF Inbox, Chunks, Side
  <2>2. ASSUME NEW h \in Holder(Conn) PROVE Held[h] = <<>>
    BY <1>1, <2>1, HolderIs, HoldIs DEF Held
  <2>3. DOMAIN Held = Holder(Conn)
    BY HoldIs DEF Held
  <2> QED
    BY <2>2, <2>3 DEF Nowhere, Placed
<1> QED
  BY <1>1, <1>2, <1>3 DEF PlaceInv, Custody

\* What stands in one place of the holders is in one place of the state.
LEMMA OnceIsOne ==
  ASSUME ServerInv, NEW r, Once(Held, r)
  PROVE  Cardinality(Whereabouts(r)) = 1
<1>a. \A d \in Device : DOMAIN uiQueue[d] \subseteq Nat \ {0}
  BY HeldTypes
<1>b. /\ DOMAIN Held = Holder(Conn)
      /\ \A c \in Conn : Held[<<"unread", c, 0>>] = conns[c].inbox["srv"]
      /\ \A d \in Device, t \in Conn : Held[<<"read", d, t>>] = receiver[d][t].chunk
      /\ \A d \in Device, k \in Nat \ {0} :
           Held[<<"posted", d, k>>] =
             IF k \in DOMAIN uiQueue[d] THEN uiQueue[d][k].cmds ELSE <<>>
      /\ \A d \in Device : Held[<<"handed", d, 0>>] = handed[d]
  <2>1. /\ \A c \in Conn : Inbox[c] = conns[c].inbox["srv"]
        /\ \A d \in Device, t \in Conn : Chunks[d][t] = receiver[d][t].chunk
    BY DEF Inbox, Chunks
  <2> QED
    BY <2>1, HoldIs DEF Held
<1>c. \A x : x \in Whereabouts(r) <=>
        \/ \E c \in Conn : x \in Marks(<<"unread", c, 0>>, conns[c].inbox["srv"], r)
        \/ \E d \in Device, t \in Conn :
             x \in Marks(<<"read", d, t>>, receiver[d][t].chunk, r)
        \/ \E d \in Device : \E k \in DOMAIN uiQueue[d] :
             x \in Marks(<<"posted", d, k>>, uiQueue[d][k].cmds, r)
        \/ \E d \in Device : x \in Marks(<<"handed", d, 0>>, handed[d], r)
  <2> DEFINE A == UNION {Marks(<<"unread", c, 0>>, conns[c].inbox["srv"], r) : c \in Conn}
             Q(d) == UNION {Marks(<<"read", d, t>>, receiver[d][t].chunk, r) : t \in Conn}
             B == UNION {Q(d) : d \in Device}
             P(d) == UNION {Marks(<<"posted", d, k>>, uiQueue[d][k].cmds, r) :
                              k \in DOMAIN uiQueue[d]}
             C == UNION {P(d) : d \in Device}
             D == UNION {Marks(<<"handed", d, 0>>, handed[d], r) : d \in Device}
  <2>1. Whereabouts(r) = A \cup B \cup C \cup D
    BY DEF Whereabouts
  <2>2. ASSUME NEW x PROVE /\ x \in A <=> \E c \in Conn :
                                  x \in Marks(<<"unread", c, 0>>, conns[c].inbox["srv"], r)
                           /\ x \in D <=> \E d \in Device :
                                  x \in Marks(<<"handed", d, 0>>, handed[d], r)
    OBVIOUS
  <2>3. ASSUME NEW x, NEW d PROVE x \in Q(d) <=> \E t \in Conn :
                             x \in Marks(<<"read", d, t>>, receiver[d][t].chunk, r)
    OBVIOUS
  <2>4. ASSUME NEW x, NEW d PROVE x \in P(d) <=> \E k \in DOMAIN uiQueue[d] :
                             x \in Marks(<<"posted", d, k>>, uiQueue[d][k].cmds, r)
    OBVIOUS
  <2> HIDE DEF A, D, P, Q
  <2>5. ASSUME NEW x PROVE /\ x \in B <=> \E d \in Device : x \in Q(d)
                           /\ x \in C <=> \E d \in Device : x \in P(d)
    OBVIOUS
  <2> HIDE DEF B, C
  <2> QED
    BY <2>1, <2>2, <2>3, <2>4, <2>5
<1>1. ASSUME NEW x \in Whereabouts(r)
      PROVE  \E h, i : x = <<h, i>> /\ Placed(Held, h, i, r)
  <2>1. CASE \E c \in Conn : x \in Marks(<<"unread", c, 0>>, conns[c].inbox["srv"], r)
    BY <1>b, <2>1, HolderIs DEF Marks, Placed
  <2>2. CASE \E d \in Device, t \in Conn :
               x \in Marks(<<"read", d, t>>, receiver[d][t].chunk, r)
    BY <1>b, <2>2, HolderIs DEF Marks, Placed
  <2>3. CASE \E d \in Device : \E k \in DOMAIN uiQueue[d] :
               x \in Marks(<<"posted", d, k>>, uiQueue[d][k].cmds, r)
    BY <1>a, <1>b, <2>3, HolderIs DEF Marks, Placed
  <2>4. CASE \E d \in Device : x \in Marks(<<"handed", d, 0>>, handed[d], r)
    BY <1>b, <2>4, HolderIs DEF Marks, Placed
  <2> QED
    BY <1>1, <1>c, <2>1, <2>2, <2>3, <2>4
<1>2. ASSUME NEW h, NEW i, Placed(Held, h, i, r) PROVE <<h, i>> \in Whereabouts(r)
  <2>0. h \in Holder(Conn) /\ i \in DOMAIN Held[h] /\ Held[h][i] = r
    BY <1>b, <1>2 DEF Placed
  <2>1. <<h, i>> \in Marks(h, Held[h], r)
    BY <2>0 DEF Marks
  <2>2. CASE \E c \in Conn : h = <<"unread", c, 0>>
    BY <1>b, <1>c, <2>1, <2>2
  <2>3. CASE \E d \in Device, t \in Conn : h = <<"read", d, t>>
    BY <1>b, <1>c, <2>1, <2>3
  <2>4. CASE \E d \in Device, k \in Nat \ {0} : h = <<"posted", d, k>>
    <3>1. PICK d \in Device, k \in Nat \ {0} : h = <<"posted", d, k>>
      BY <2>4
    <3>2. k \in DOMAIN uiQueue[d] /\ Held[h] = uiQueue[d][k].cmds
      BY <1>b, <2>0, <3>1
    <3> QED
      BY <1>c, <2>1, <3>1, <3>2
  <2>5. CASE \E d \in Device : h = <<"handed", d, 0>>
    BY <1>b, <1>c, <2>1, <2>5
  <2> QED
    BY <2>0, <2>2, <2>3, <2>4, <2>5, HolderIs
<1> QED
  BY <1>1, <1>2, OnceCounts

\* A command that reached the server's host is neither lost nor handed to the
\* listener twice, though the receive threads of replaced connections live on and
\* read the stream the shared field holds (TcpServer.java:141-164, 55-63).
THEOREM NoCommandLost == Spec => []CommandInOnePlace
<1>1. ServerInv /\ PlaceInv => CommandInOnePlace
  BY OnceIsOne DEF PlaceInv, Custody, CommandInOnePlace
<1> QED
  BY <1>1, ServerInvInit, ServerInvStep, PlaceInit, PlaceStep, PTL DEF Spec
=============================================================================
