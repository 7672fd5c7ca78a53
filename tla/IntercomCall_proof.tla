------------------------- MODULE IntercomCall_proof -------------------------
(***************************************************************************)
(* Theorems about IntercomCall, for any devices, threads and connections:  *)
(* the types, and that no camera starts by itself.                         *)
(*                                                                         *)
(* The inductive invariant of the first is CallInv: with the types, that   *)
(* the dialog an activity remembers is on its screen and that no receive   *)
(* thread reads from a stream field that is null.  The counters of         *)
(* CausalChain say too little to be inductive, since what will be counted  *)
(* is on its way: CausalInv adds an injection of every request that is     *)
(* under way into the connects no dialog came of, of every accept into the *)
(* presses no start came of, and of every dialog into the rings no press   *)
(* came of.  A step that moves, loses or answers a command yields the next *)
(* injection from the last one.                                            *)
(***************************************************************************)
EXTENDS IntercomCall, SocketsTheorems

\* No receive thread of a server reads from a stream field that is null.
ServerStreams ==
  \A d \in Device :
    /\ isConnectFlag[d] => inputStream[d] # None
    /\ \A r \in Conn : receiver[d][r].pc = "read" => receiver[d][r].stream # None

ServerOK == ServerTypeOK /\ ServerStreams

\* alertDialog2 is a dialog on the screen.
TopShows == \A d \in Device : dialogTop[d] => dialogs[d] > 0

CallOK ==
  /\ views \in [Device -> SUBSET View]
  /\ room \in [Device -> Device \cup {NoDevice}]
  /\ address \in [Device -> Device \cup {NoDevice}]
  /\ isStart \in [Device -> BOOLEAN] /\ destCall \in [Device -> BOOLEAN]
  /\ dialogs \in [Device -> Nat] /\ dialogTop \in [Device -> BOOLEAN]
  /\ stopping \in [Device -> {"no", "client", "server"}]
  /\ videoTo \in [Device -> Device \cup {NoDevice}]
  /\ dials \in Nat /\ rings \in Nat /\ accepts \in Nat /\ starts \in Nat /\ stops \in Nat
  /\ hungUp \in [Device -> BOOLEAN]

CallInv == ClientOK /\ ServerOK /\ CallOK /\ TopShows
-----------------------------------------------------------------------------
LEMMA CallInvTypes == CallInv => TypeOK
BY DEF CallInv, ClientOK, ServerOK, CallOK, TypeOK

LEMMA Commands ==
  {"request", "accept", "refuse", "hangup"} = Cmd /\ "cli" \in Side /\ "srv" \in Side
BY IntercomAssumption DEF Side

LEMMA ClientSame ==
  ASSUME ClientOK, SocketsTypeOK', UNCHANGED clientVars
  PROVE  ClientOK'
BY DEF ClientOK, ClientTypeOK, StreamsSet, clientVars

LEMMA ServerSame == ServerOK /\ UNCHANGED serverVars => ServerOK'
BY DEF ServerOK, ServerTypeOK, ServerStreams, serverVars

LEMMA SocketsSame == SocketsTypeOK /\ UNCHANGED sockVars => SocketsTypeOK'
BY DEF SocketsTypeOK, sockVars

LEMMA CallSame == CallOK /\ TopShows /\ UNCHANGED <<callVars, histVars>> => CallOK' /\ TopShows'
BY DEF CallOK, TopShows, callVars, histVars
-----------------------------------------------------------------------------
\* The server.

LEMMA ServerInitType == ServerInit => ServerOK
<1>1. NoReceiver \in ReceiverRec
  BY DEF NoReceiver, ReceiverRec, ConnRef
<1> QED
  BY <1>1 DEF ServerInit, ServerOK, ServerTypeOK, ServerStreams, ConnRef, NoReceiver

LEMMA SrvDisconnectType ==
  ASSUME SocketsTypeOK, ServerOK, NEW d \in Device, srvDisconnect(d)
  PROVE  conns' \in [Conn -> ConnRec] /\ ServerOK'
<1>1. conns' \in [Conn -> ConnRec]
  BY Commands, ClosedType DEF srvDisconnect, SocketsTypeOK
<1>2. ServerTypeOK'
  BY DEF srvDisconnect, ServerOK, ServerTypeOK, ConnRef
<1>3. ServerStreams'
  BY DEF srvDisconnect, ServerOK, ServerTypeOK, ServerStreams
<1> QED
  BY <1>1, <1>2, <1>3 DEF ServerOK

LEMMA SendMsgType ==
  ASSUME ServerOK, NEW d \in Device, NEW m \in Cmd, sendMsg(d, m)
  PROVE  ServerOK'
<1>1. Append(serverHandler[d], m) \in Seq(Cmd)
  BY DEF ServerOK, ServerTypeOK
<1> QED
  BY <1>1 DEF sendMsg, ServerOK, ServerTypeOK, ServerStreams

LEMMA ServerThreadType ==
  ASSUME SocketsTypeOK, ServerOK, NEW d \in Device, ServerThread(d)
  PROVE  SocketsTypeOK' /\ ServerOK'
<1>a. conns \in [Conn -> ConnRec] /\ clientScoket \in [Device -> ConnRef]
  BY DEF SocketsTypeOK, ServerOK, ServerTypeOK
<1>1. CASE Accept(d)
  <2>1. PICK c \in Conn : /\ clientScoket' = [clientScoket EXCEPT ![d] = c]
                          /\ conns' = [conns EXCEPT ![c].accepted = TRUE]
    BY <1>1 DEF Accept
  <2>2. conns' \in [Conn -> ConnRec]
    <3>1. [conns[c] EXCEPT !.accepted = TRUE] \in ConnRec
      BY <1>a DEF ConnRec
    <3> QED
      BY <1>a, <2>1, <3>1
  <2>3. /\ clientScoket' \in [Device -> ConnRef]
        /\ acceptor' \in [Device -> {"accept", "address", "receive"}]
    BY <1>1, <1>a, <2>1 DEF Accept, ConnRef, ServerOK, ServerTypeOK
  <2> QED
    BY <1>1, <2>2, <2>3 DEF Accept, SocketsTypeOK, ServerOK, ServerTypeOK, ServerStreams
<1>2. ASSUME Crash(d), UNCHANGED serverVars PROVE SocketsTypeOK' /\ ServerOK'
  BY <1>2, CrashType, ServerSame
<1>3. CASE SetAddress(d) /\ clientScoket[d] # None
  <2>1. conns[clientScoket[d]].from \in Device \cup {NoDevice}
    BY <1>a, <1>3 DEF ConnRef, ConnRec
  <2>2. ServerTypeOK'
    BY <1>3, <2>1 DEF SetAddress, ServerOK, ServerTypeOK
  <2> QED
    BY <1>3, <2>2, SocketsSame DEF SetAddress, ServerOK, ServerStreams
<1>4. CASE StartReceiver(d) /\ clientScoket[d] # None
  <2> DEFINE c == clientScoket[d]
             q == [receiver[d][c] EXCEPT !.pc = "loop"]
  <2>1. c \in Conn /\ receiver \in [Device -> [Conn -> ReceiverRec]]
    BY <1>a, <1>4 DEF ConnRef, ServerOK, ServerTypeOK
  <2>2. q \in ReceiverRec /\ q.pc = "loop"
    <3>1. receiver[d][c] \in ReceiverRec
      BY <2>1
    <3> QED
      BY <3>1 DEF ReceiverRec
  <2>3. /\ receiver' = [receiver EXCEPT ![d][c] = q] /\ inputStream' = [inputStream EXCEPT ![d] = c]
        /\ isConnectFlag' = [isConnectFlag EXCEPT ![d] = TRUE]
        /\ acceptor' = [acceptor EXCEPT ![d] = "accept"]
        /\ UNCHANGED <<sockVars, clientScoket, outputStream, srvAddress, serverHandler>>
    BY <1>4 DEF StartReceiver, Raised
  <2>4. c # None
    BY <1>4
  <2> HIDE DEF c, q
  <2>5. ServerTypeOK'
    BY <2>1, <2>2, <2>3 DEF ServerOK, ServerTypeOK, ConnRef
  <2>6. ServerStreams'
    BY <2>1, <2>2, <2>3, <2>4 DEF ServerOK, ServerTypeOK, ServerStreams
  <2> QED
    BY <2>3, <2>5, <2>6, SocketsSame DEF ServerOK
<1> QED
  BY <1>1, <1>2, <1>3, <1>4 DEF ServerThread, SetAddress, StartReceiver, serverVars

LEMMA ReceiveThreadType ==
  ASSUME SocketsTypeOK, ServerOK, NEW d \in Device, NEW r \in Conn, ReceiveThread(d, r)
  PROVE  SocketsTypeOK' /\ ServerOK'
<1>a. /\ conns \in [Conn -> ConnRec] /\ uiQueue \in [Device -> Seq(Message)]
      /\ receiver \in [Device -> [Conn -> ReceiverRec]] /\ receiver[d][r] \in ReceiverRec
      /\ inputStream[d] \in ConnRef
  BY DEF SocketsTypeOK, ServerOK, ServerTypeOK
\* All that a step leaves to show.
<1>b. ASSUME NEW q \in ReceiverRec, receiver' = [receiver EXCEPT ![d][r] = q],
             q.pc = "read" => q.stream # None,
             conns' \in [Conn -> ConnRec], uiQueue' \in [Device -> Seq(Message)]
      PROVE  SocketsTypeOK' /\ ServerOK'
  <2>0. UNCHANGED <<alive, clientScoket, inputStream, outputStream, isConnectFlag,
                    srvAddress, acceptor, serverHandler>>
    BY DEF ReceiveThread, RcvLoop, RcvRead, RcvPost, sockVars
  <2>1. ServerTypeOK'
    BY <1>a, <1>b, <2>0 DEF ServerOK, ServerTypeOK
  <2>2. ServerStreams'
    BY <1>a, <1>b, <2>0 DEF ServerOK, ServerStreams
  <2> QED
    BY <1>b, <2>0, <2>1, <2>2 DEF SocketsTypeOK, ServerOK
<1>c. \A pc \in {"loop", "done"} : /\ [NoReceiver EXCEPT !.pc = pc] \in ReceiverRec
                                   /\ [NoReceiver EXCEPT !.pc = pc].pc = pc
  <2>1. NoReceiver = [pc |-> "unborn", stream |-> None, chunk |-> <<>>] /\ <<>> \in Seq(Cmd)
    BY DEF NoReceiver
  <2>2. \A pc : [NoReceiver EXCEPT !.pc = pc] = [pc |-> pc, stream |-> None, chunk |-> <<>>]
    BY <2>1
  <2> QED
    BY <2>1, <2>2 DEF ReceiverRec, ConnRef
<1>1. CASE RcvLoop(d, r)
  <2> DEFINE q == IF isConnectFlag[d] /\ srvIsConnect(d)
                  THEN [receiver[d][r] EXCEPT !.pc = "read", !.stream = inputStream[d]]
                  ELSE [NoReceiver EXCEPT !.pc = "done"]
  <2>1. q \in ReceiverRec /\ (q.pc = "read" => q.stream # None)
    <3>1. CASE isConnectFlag[d] /\ srvIsConnect(d)
      BY <1>a, <3>1 DEF ReceiverRec, ServerOK, ServerStreams
    <3>2. CASE ~(isConnectFlag[d] /\ srvIsConnect(d))
      BY <1>c, <3>2
    <3> QED
      BY <3>1, <3>2
  <2>2. receiver' = [receiver EXCEPT ![d][r] = q] /\ UNCHANGED <<conns, uiQueue>>
    BY <1>1 DEF RcvLoop, sockVars
  <2> HIDE DEF q
  <2> QED
    BY <1>a, <1>b, <2>1, <2>2
<1>2. CASE RcvRead(d, r)
  <2>0. PICK c \in Conn : c = receiver[d][r].stream
    BY <1>a, <1>2 DEF RcvRead, ServerOK, ServerStreams, ReceiverRec, ConnRef
  <2>1. ASSUME NEW n \in 1 .. Len(conns[c].inbox["srv"]), conns' = Taken(c, "srv", n),
               receiver' = [receiver EXCEPT ![d][r] =
                  [pc |-> "post", stream |-> None,
                   chunk |-> RcvCopy(conns[c].inbox["srv"], n)]],
               UNCHANGED uiQueue
        PROVE  SocketsTypeOK' /\ ServerOK'
    <3> DEFINE q == [pc |-> "post", stream |-> None, chunk |-> SubSeq(conns[c].inbox["srv"], 1, n)]
    <3>1. /\ conns' \in [Conn -> ConnRec]
          /\ SubSeq(conns[c].inbox["srv"], 1, n) \in Seq(Cmd)
      BY <1>a, <2>1, Commands, TakenType
    <3>2. q \in ReceiverRec /\ q.pc # "read" /\ receiver' = [receiver EXCEPT ![d][r] = q]
      BY <2>1, <3>1 DEF ReceiverRec, ConnRef, RcvCopy
    <3> HIDE DEF q
    <3> QED
      BY <1>a, <1>b, <2>1, <3>1, <3>2
  <2>2. CASE /\ receiver' = [receiver EXCEPT ![d][r] = [NoReceiver EXCEPT !.pc = "loop"]]
             /\ UNCHANGED <<conns, uiQueue>>
    BY <1>a, <1>b, <1>c, <2>2
  <2>3. CASE /\ receiver' = [receiver EXCEPT ![d][r] = [NoReceiver EXCEPT !.pc = "done"]]
             /\ uiQueue' = Posted(d, "server", "fail", <<>>) /\ UNCHANGED conns
    <3>0. <<>> \in Seq(Cmd)
      OBVIOUS
    <3>1. uiQueue' \in [Device -> Seq(Message)]
      BY <1>a, <2>3, <3>0, PostedType
    <3> QED
      BY <1>a, <1>b, <1>c, <2>3, <3>1
  <2> QED
    BY <1>2, <2>0, <2>1, <2>2, <2>3 DEF RcvRead
<1>3. CASE RcvPost(d, r)
  <2>1. receiver[d][r].chunk \in Seq(Cmd)
    BY <1>a DEF ReceiverRec
  <2>2. uiQueue' \in [Device -> Seq(Message)]
    BY <1>a, <1>3, <2>1, PostedType DEF RcvPost, RcvWhat
  <2> QED
    BY <1>a, <1>b, <1>c, <1>3, <2>2 DEF RcvPost
<1> QED
  BY <1>1, <1>2, <1>3 DEF ReceiveThread

LEMMA SendThreadType ==
  ASSUME SocketsTypeOK, ServerOK, NEW d \in Device, SendThread(d)
  PROVE  SocketsTypeOK' /\ ServerOK'
<1>1. /\ clientScoket[d] \in ConnRef /\ serverHandler[d] \in Seq(Cmd) /\ serverHandler[d] # <<>>
  BY DEF SendThread, ServerOK, ServerTypeOK
<1>2. Head(serverHandler[d]) \in Cmd /\ Tail(serverHandler[d]) \in Seq(Cmd)
  BY <1>1
<1>3. conns' \in [Conn -> ConnRec]
  BY <1>1, <1>2, Commands, WrittenType DEF SendThread, SocketsTypeOK
<1>4. outputStream' \in [Device -> ConnRef]
  BY <1>1 DEF SendThread, ServerOK, ServerTypeOK
<1> QED
  BY <1>2, <1>3, <1>4 DEF SendThread, SocketsTypeOK, ServerOK, ServerTypeOK, ServerStreams
-----------------------------------------------------------------------------
\* The actions of the activity.

\* An action that only moves the activity's own fields.
LEMMA ActivityType ==
  ASSUME CallInv, CallOK', TopShows', UNCHANGED <<sockVars, clientVars, serverVars>>
  PROVE  CallInv'
<1>1. SocketsTypeOK'
  BY SocketsSame DEF CallInv, ClientOK
<1> QED
  BY <1>1, ClientSame, ServerSame DEF CallInv

\* The part of btn_stop that is about the server, up to the end of it.
LEMMA StopPartType ==
  ASSUME CallOK, NEW d \in Device
  PROVE  /\ StopServerPart(d) \/ StopEnds(d) =>
              /\ views' \in [Device -> SUBSET View]
              /\ stopping' \in [Device -> {"no", "client", "server"}]
              /\ videoTo' \in [Device -> Device \cup {NoDevice}]
<1>1. CASE StopEnds(d)
  BY <1>1 DEF StopEnds, CallOK, View
<1>2. CASE StopServerPart(d) /\ destCall[d]
  BY <1>2 DEF StopServerPart, CallOK
<1>3. CASE StopServerPart(d) /\ ~destCall[d]
  BY <1>1, <1>3 DEF StopServerPart
<1> QED
  BY <1>1, <1>2, <1>3

\* The dialogs of a device, when one is taken away.
LEMMA DismissedType ==
  ASSUME CallOK, TopShows, NEW d \in Device, dialogs[d] > 0, Dismissed(d)
  PROVE  dialogs' \in [Device -> Nat] /\ dialogTop' \in [Device -> BOOLEAN] /\ TopShows'
<1>1. dialogs[d] - 1 \in Nat
  BY DEF CallOK
<1>2. dialogs' \in [Device -> Nat] /\ dialogTop' \in [Device -> BOOLEAN]
  BY <1>1 DEF Dismissed, CallOK
<1>3. \A e \in Device : dialogTop'[e] => dialogTop[e] /\ dialogs'[e] = dialogs[e]
  BY DEF Dismissed, CallOK
<1> QED
  BY <1>2, <1>3 DEF TopShows

LEMMA UserType ==
  ASSUME CallInv, NEW d \in Device, User(d)
  PROVE  CallInv'
<1>a. CallOK /\ TopShows /\ ClientOK /\ ServerOK /\ SocketsTypeOK
  BY DEF CallInv, ClientOK
<1>1. ASSUME NEW e \in Device, TypeRoom(d, e) PROVE CallInv'
  <2>1. CallOK' /\ TopShows'
    BY <1>a, <1>1 DEF TypeRoom, CallOK, TopShows, histVars
  <2> QED
    BY <1>1, <2>1, ActivityType DEF TypeRoom
<1>2. CASE KeyDial(d)
  <2>1. CallOK' /\ TopShows'
    BY <1>a, <1>2 DEF KeyDial, CallOK, TopShows, histVars
  <2> QED
    BY <1>2, <2>1, ActivityType DEF KeyDial
<1>3. ASSUME NEW t \in Thread, StartPressed(d, t) PROVE CallInv'
  <2>1. Host(d, address[d]) \in Device
    BY <1>a DEF Host, CallOK
  <2>2. ClientTypeOK' /\ StreamsSet' /\ SocketsTypeOK' /\ ServerOK'
    BY <1>a, <1>3, <2>1, ConnectType, SocketsSame, ServerSame DEF StartPressed
  <2>3. views' \in [Device -> SUBSET View] /\ dials' \in Nat
    BY <1>a, <1>3 DEF StartPressed, CallOK
  <2>4. CallOK' /\ TopShows'
    BY <1>a, <1>3, <2>3 DEF StartPressed, CallOK, TopShows
  <2> QED
    BY <2>2, <2>4 DEF CallInv, ClientOK
<1>4. CASE CallPressed(d)
  <2>1. CallOK' /\ TopShows'
    BY <1>a, <1>4 DEF CallPressed, CallOK, TopShows, histVars
  <2> QED
    BY <1>4, <2>1, ActivityType DEF CallPressed
<1>5. CASE StopPressed(d)
  <2>1. stops' \in Nat /\ hungUp' \in [Device -> BOOLEAN]
    BY <1>a, <1>5 DEF StopPressed, CallOK
  <2>2. /\ views' \in [Device -> SUBSET View]
        /\ stopping' \in [Device -> {"no", "client", "server"}]
        /\ videoTo' \in [Device -> Device \cup {NoDevice}]
    <3>1. CASE isConnect(d)
      BY <1>a, <1>5, <3>1 DEF StopPressed, CallOK
    <3>2. CASE ~isConnect(d)
      BY <1>a, <1>5, <3>2, StopPartType DEF StopPressed
    <3> QED
      BY <3>1, <3>2
  <2>3. CallOK' /\ TopShows'
    BY <1>a, <1>5, <2>1, <2>2 DEF StopPressed, CallOK, TopShows
  <2>4. SocketsTypeOK'
    BY <1>a, <1>5, SocketsSame DEF StopPressed
  <2>5. ClientOK'
    BY <1>a, <1>5, <2>4, Commands, SendType, ClientSame DEF StopPressed, ClientOK
  <2>6. ServerOK'
    BY <1>a, <1>5, Commands, SendMsgType, ServerSame DEF StopPressed, StopServerPart
  <2> QED
    BY <2>3, <2>5, <2>6 DEF CallInv
<1>6. CASE AcceptPressed(d)
  <2>0. srvAddress[d] \in Device \cup {NoDevice}
    BY <1>a DEF ServerOK, ServerTypeOK
  <2>1. /\ views' \in [Device -> SUBSET View] /\ videoTo' \in [Device -> Device \cup {NoDevice}]
        /\ destCall' \in [Device -> BOOLEAN] /\ accepts' \in Nat
        /\ hungUp' \in [Device -> BOOLEAN]
    <3>0. accepts' \in Nat /\ hungUp' \in [Device -> BOOLEAN]
      BY <1>a, <1>6 DEF AcceptPressed, CallOK
    <3>1. CASE srvAddress[d] # NoDevice
      <4>1. /\ views' = [views EXCEPT ![d] = {}] /\ destCall' = [destCall EXCEPT ![d] = TRUE]
            /\ videoTo' = [videoTo EXCEPT ![d] = srvAddress[d]]
        BY <1>6, <3>1 DEF AcceptPressed
      <4> QED
        BY <1>a, <2>0, <3>0, <4>1 DEF CallOK
    <3>2. CASE srvAddress[d] = NoDevice
      BY <1>a, <1>6, <3>2 DEF AcceptPressed, CallOK
    <3> QED
      BY <3>1, <3>2
  <2>2. dialogs' \in [Device -> Nat] /\ dialogTop' \in [Device -> BOOLEAN] /\ TopShows'
    BY <1>a, <1>6, DismissedType DEF AcceptPressed
  <2>3. CallOK' /\ TopShows'
    BY <1>a, <1>6, <2>1, <2>2 DEF AcceptPressed, CallOK
  <2>4. SocketsTypeOK' /\ ServerOK'
    BY <1>a, <1>6, Commands, SocketsSame, SendMsgType DEF AcceptPressed, Answer
  <2> QED
    BY <1>a, <1>6, <2>3, <2>4, ClientSame DEF AcceptPressed, CallInv
<1>7. CASE RefusePressed(d)
  <2>2. dialogs' \in [Device -> Nat] /\ dialogTop' \in [Device -> BOOLEAN] /\ TopShows'
    BY <1>a, <1>7, DismissedType DEF RefusePressed
  <2>3. CallOK' /\ TopShows'
    BY <1>a, <1>7, <2>2 DEF RefusePressed, CallOK, histVars
  <2>4. SocketsTypeOK' /\ ServerOK'
    BY <1>a, <1>7, Commands, SocketsSame, SendMsgType DEF RefusePressed, Answer
  <2> QED
    BY <1>a, <1>7, <2>3, <2>4, ClientSame DEF RefusePressed, CallInv
<1> QED
  BY <1>1, <1>2, <1>3, <1>4, <1>5, <1>6, <1>7 DEF User

LEMMA WakeUpType ==
  ASSUME CallInv, NEW d \in Device, WakeUp(d)
  PROVE  CallInv'
<1>a. CallOK /\ TopShows /\ ClientOK /\ ServerOK /\ SocketsTypeOK
  BY DEF CallInv, ClientOK
<1>1. CASE WakeClient(d)
  <2>1. ClientTypeOK' /\ StreamsSet' /\ conns' \in [Conn -> ConnRec]
    BY <1>a, <1>1, DisconnectType DEF WakeClient
  <2>2. SocketsTypeOK'
    BY <1>a, <1>1, <2>1 DEF WakeClient, SocketsTypeOK
  <2>3. ServerOK'
    BY <1>a, <1>1, Commands, SendMsgType, ServerSame DEF WakeClient, StopServerPart
  <2>4. /\ views' \in [Device -> SUBSET View]
        /\ stopping' \in [Device -> {"no", "client", "server"}]
        /\ videoTo' \in [Device -> Device \cup {NoDevice}]
    BY <1>a, <1>1, StopPartType DEF WakeClient
  <2>5. CallOK' /\ TopShows'
    BY <1>a, <1>1, <2>4 DEF WakeClient, CallOK, TopShows, histVars
  <2> QED
    BY <2>1, <2>2, <2>3, <2>5 DEF CallInv, ClientOK
<1>2. CASE WakeServer(d)
  <2>1. conns' \in [Conn -> ConnRec] /\ ServerOK'
    BY <1>a, <1>2, SrvDisconnectType DEF WakeServer
  <2>2. SocketsTypeOK'
    BY <1>a, <1>2, <2>1 DEF WakeServer, SocketsTypeOK
  <2>3. /\ views' \in [Device -> SUBSET View]
        /\ stopping' \in [Device -> {"no", "client", "server"}]
        /\ videoTo' \in [Device -> Device \cup {NoDevice}]
    BY <1>a, <1>2, StopPartType DEF WakeServer
  <2>4. CallOK' /\ TopShows'
    BY <1>a, <1>2, <2>3 DEF WakeServer, CallOK, TopShows, histVars
  <2> QED
    BY <1>a, <1>2, <2>1, <2>2, <2>4, ClientSame DEF WakeServer, CallInv
<1> QED
  BY <1>1, <1>2 DEF WakeUp

\* onConnectFail(), at either listener, and VisiableView().
LEMMA StopType ==
  ASSUME CallOK, NEW d \in Device
  PROVE  /\ StopIfStarted(d) => /\ videoTo' \in [Device -> Device \cup {NoDevice}]
                                /\ isStart' \in [Device -> BOOLEAN]
                                /\ views' \in [Device -> SUBSET View]
         /\ VisiableView(d) => views' \in [Device -> SUBSET View]
<1>1. VisiableView(d) => views' \in [Device -> SUBSET View]
  BY DEF VisiableView, CallOK, View
<1> QED
  BY <1>1 DEF StopIfStarted, CallOK

LEMMA LooperType ==
  ASSUME CallInv, NEW d \in Device, Looper(d)
  PROVE  CallInv'
<1>a. CallOK /\ TopShows /\ ClientOK /\ ServerOK /\ SocketsTypeOK
  BY DEF CallInv, ClientOK
<1>b. uiQueue[d] \in Seq(Message) /\ uiQueue[d] # <<>> /\ uiQueue' = [uiQueue EXCEPT ![d] = Tail(@)]
  BY <1>a DEF Looper, ClientFail, ClientSuccess, ClientData, ServerFail, ServerRequest,
       ServerHangUp, NextMessage, SocketsTypeOK
<1>c. uiQueue' \in [Device -> Seq(Message)]
  BY <1>a, <1>b DEF SocketsTypeOK
<1>1. CASE ClientFail(d)
  <2>1. ClientTypeOK' /\ StreamsSet' /\ conns' \in [Conn -> ConnRec]
    BY <1>a, <1>1, DisconnectType DEF ClientFail
  <2>2. SocketsTypeOK' /\ ServerOK'
    BY <1>a, <1>c, <1>1, <2>1, ServerSame DEF ClientFail, SocketsTypeOK
  <2>3. CallOK' /\ TopShows'
    BY <1>a, <1>1, StopType DEF ClientFail, CallOK, TopShows, histVars
  <2> QED
    BY <2>1, <2>2, <2>3 DEF CallInv, ClientOK
<1>2. CASE ClientSuccess(d)
  <2>1. ClientTypeOK' /\ StreamsSet'
    BY <1>a, <1>2, Commands, SendType DEF ClientSuccess, Ask
  <2>2. SocketsTypeOK' /\ ServerOK' /\ CallOK' /\ TopShows'
    BY <1>a, <1>c, <1>2, ServerSame, CallSame DEF ClientSuccess, SocketsTypeOK
  <2> QED
    BY <2>1, <2>2 DEF CallInv, ClientOK
<1>3. CASE ClientData(d)
  <2> DEFINE m == Head(Head(uiQueue[d]).cmds)
  <2>1. ClientTypeOK' /\ StreamsSet' /\ conns' \in [Conn -> ConnRec]
    <3>1. CASE Ends(m)
      BY <1>a, <1>3, <3>1, DisconnectType DEF ClientData
    <3>2. CASE ~Ends(m)
      <4>1. UNCHANGED <<conns, clientVars>>
        BY <1>3, <3>2 DEF ClientData
      <4> QED
        BY <1>a, <4>1 DEF ClientOK, SocketsTypeOK, ClientTypeOK, StreamsSet, clientVars
    <3> QED
      BY <3>1, <3>2
  <2>2. SocketsTypeOK' /\ ServerOK'
    BY <1>a, <1>c, <1>3, <2>1, ServerSame DEF ClientData, SocketsTypeOK
  <2>3. Host(d, address[d]) \in Device
    BY <1>a DEF Host, CallOK
  <2>4. /\ videoTo' \in [Device -> Device \cup {NoDevice}] /\ isStart' \in [Device -> BOOLEAN]
        /\ starts' \in Nat
    <3>1. CASE m = "accept"
      <4>1. /\ videoTo' = [videoTo EXCEPT ![d] = Host(d, address[d])]
            /\ isStart' = [isStart EXCEPT ![d] = TRUE] /\ starts' = starts + 1
        BY <1>3, <3>1 DEF ClientData
      <4> QED
        BY <1>a, <2>3, <4>1 DEF CallOK
    <3>2. CASE m # "accept"
      BY <1>a, <1>3, <3>2 DEF ClientData, CallOK
    <3> QED
      BY <3>1, <3>2
  <2>5. views' \in [Device -> SUBSET View]
    BY <1>a, <1>3, StopType DEF ClientData, CallOK
  <2>6. CallOK' /\ TopShows'
    BY <1>a, <1>3, <2>4, <2>5 DEF ClientData, CallOK, TopShows
  <2> QED
    BY <2>1, <2>2, <2>6 DEF CallInv, ClientOK
<1>4. CASE ServerFail(d)
  <2>1. conns' \in [Conn -> ConnRec] /\ ServerOK'
    BY <1>a, <1>4, SrvDisconnectType DEF ServerFail
  <2>2. SocketsTypeOK'
    BY <1>a, <1>c, <1>4, <2>1 DEF ServerFail, SocketsTypeOK
  <2>3. CallOK' /\ TopShows'
    BY <1>a, <1>4, StopType DEF ServerFail, CallOK, TopShows, histVars
  <2> QED
    BY <1>a, <1>4, <2>1, <2>2, <2>3, ClientSame DEF ServerFail, CallInv
<1>5. CASE ServerRequest(d)
  <2>1. SocketsTypeOK' /\ ServerOK'
    BY <1>a, <1>c, <1>5, ServerSame DEF ServerRequest, SocketsTypeOK
  <2>2. /\ dialogs' \in [Device -> Nat] /\ dialogTop' \in [Device -> BOOLEAN] /\ TopShows'
        /\ rings' \in Nat
    BY <1>a, <1>5 DEF ServerRequest, CallOK, TopShows
  <2>3. CallOK'
    BY <1>a, <1>5, <2>2 DEF ServerRequest, CallOK
  <2> QED
    BY <1>a, <1>5, <2>1, <2>2, <2>3, ClientSame DEF ServerRequest, CallInv
<1>6. CASE ServerHangUp(d)
  <2>1. SocketsTypeOK' /\ ServerOK'
    BY <1>a, <1>c, <1>6, ServerSame DEF ServerHangUp, SocketsTypeOK
  <2>2. dialogs' \in [Device -> Nat] /\ dialogTop' \in [Device -> BOOLEAN] /\ TopShows'
    <3>1. CASE dialogTop[d]
      BY <1>a, <1>6, <3>1, DismissedType DEF ServerHangUp, DismissTop, TopShows
    <3>2. CASE ~dialogTop[d]
      BY <1>a, <1>6, <3>2 DEF ServerHangUp, DismissTop, CallOK, TopShows
    <3> QED
      BY <3>1, <3>2
  <2>3. CallOK'
    BY <1>a, <1>6, <2>2, StopType DEF ServerHangUp, CallOK, histVars
  <2> QED
    BY <1>a, <1>6, <2>1, <2>2, <2>3, ClientSame DEF ServerHangUp, CallInv
<1> QED
  BY <1>1, <1>2, <1>3, <1>4, <1>5, <1>6 DEF Looper
-----------------------------------------------------------------------------
LEMMA CallInvInit == Init => CallInv
<1>1. Init => ClientOK /\ ServerOK
  BY ClientInitType, ServerInitType DEF Init, NoCallYet
<1> QED
  BY <1>1 DEF Init, NoCallYet, CallInv, CallOK, TopShows, View

LEMMA CallInvStep == CallInv /\ [Next]_vars => CallInv'
<1> SUFFICES ASSUME CallInv, [Next]_vars
             PROVE  CallInv'
  OBVIOUS
<1>a. CallOK /\ TopShows /\ ClientOK /\ ServerOK /\ SocketsTypeOK
  BY DEF CallInv, ClientOK
<1>1. ASSUME NEW d \in Device, User(d) PROVE CallInv'
  BY <1>1, UserType
<1>2. ASSUME NEW d \in Device, WakeUp(d) PROVE CallInv'
  BY <1>2, WakeUpType
<1>3. ASSUME NEW d \in Device, Looper(d) PROVE CallInv'
  BY <1>3, LooperType
<1>4. ASSUME NEW d \in Device, NEW t \in Thread, ClientThread(d, t) PROVE CallInv'
  BY <1>a, <1>4, SocketThreadType, ServerSame, CallSame DEF ClientThread, CallInv
<1>5. ASSUME NEW d \in Device, NEW m \in Cmd, ClientSend(d, m) PROVE CallInv'
  BY <1>a, <1>5, SenderType, ServerSame, CallSame DEF ClientSend, CallInv
<1>6. ASSUME NEW d \in Device, ServerAccept(d) PROVE CallInv'
  BY <1>a, <1>6, ServerThreadType, ClientSame, CallSame DEF ServerAccept, CallInv
<1>7. ASSUME NEW d \in Device, ServerSend(d) PROVE CallInv'
  BY <1>a, <1>7, SendThreadType, ClientSame, CallSame DEF ServerSend, CallInv
<1>8. ASSUME NEW d \in Device, NEW r \in Conn, ServerReceive(d, r) PROVE CallInv'
  BY <1>a, <1>8, ReceiveThreadType, ClientSame, CallSame DEF ServerReceive, CallInv
<1>9. ASSUME NEW c \in Conn, LinkLoss(c) PROVE CallInv'
  <2>1. SocketsTypeOK'
    BY <1>a, <1>9 DEF LinkLoss, LinkReset, SocketsTypeOK, ConnRec
  <2> QED
    BY <1>a, <1>9, <2>1, ClientSame, ServerSame, CallSame DEF LinkLoss, CallInv
<1>10. CASE UNCHANGED vars
  <2>1. UNCHANGED <<sockVars, clientVars, serverVars, callVars, histVars>>
    BY <1>10 DEF vars
  <2> QED
    BY <1>a, <2>1, SocketsSame, ClientSame, ServerSame, CallSame DEF CallInv
<1> QED
  BY <1>1, <1>2, <1>3, <1>4, <1>5, <1>6, <1>7, <1>8, <1>9, <1>10 DEF Next

\* The types of everything the call is made of, whatever users, threads,
\* handlers and the network do; with them, that no device ever shows fewer
\* than no dialogs and no thread reads from a stream field that is null.
THEOREM CallTypeCorrect == Spec => []TypeOK
<1>1. Init => CallInv
  BY CallInvInit
<1>2. CallInv /\ [Next]_vars => CallInv'
  BY CallInvStep
<1> QED
  BY <1>1, <1>2, CallInvTypes, PTL DEF Spec
-----------------------------------------------------------------------------
(***************************************************************************)
(* The commands under way in a call, and where each is: wanted by an       *)
(* attempt to connect, asked of a sender, unread on a connection, in a     *)
(* thread's buffer, in a message, among the replies to send.  A message    *)
(* that a connection is there is worth the request it makes the caller     *)
(* send.                                                                   *)
(***************************************************************************)
Waypoint ==
  ({"attempt"} \X Device \X Thread) \cup ({"client"} \X Device \X Thread)
    \cup ({"asked"} \X Device \X Cmd) \cup ({"unread"} \X Conn \X Side)
    \cup ({"server"} \X Device \X Conn) \cup ({"posted"} \X Device \X (Nat \ {0}))
    \cup ({"reply"} \X Device \X {0})

Wanted(q) == IF q.pc \in Attempting THEN <<"request">> ELSE <<>>
Times(n, m) == [i \in 1 .. n |-> m]
Worth(msg) == IF msg.what = "success" THEN <<"request">> ELSE msg.cmds
WorthAt(queue, k) == IF k \in DOMAIN queue THEN Worth(queue[k]) ELSE <<>>

HeldAt(w) ==
  CASE w[1] = "attempt" -> Wanted(thread[w[2]][w[3]])
    [] w[1] = "client"  -> thread[w[2]][w[3]].chunk
    [] w[1] = "asked"   -> Times(sender[w[2]][w[3]], w[3])
    [] w[1] = "unread"  -> conns[w[2]].inbox[w[3]]
    [] w[1] = "server"  -> receiver[w[2]][w[3]].chunk
    [] w[1] = "posted"  -> WorthAt(uiQueue[w[2]], w[3])
    [] w[1] = "reply"   -> serverHandler[w[2]]

Underway == [w \in Waypoint |-> HeldAt(w)]

LEMMA WaypointIs ==
  /\ \A w \in Waypoint :
       \/ \E d \in Device, t \in Thread : w = <<"attempt", d, t>>
       \/ \E d \in Device, t \in Thread : w = <<"client", d, t>>
       \/ \E d \in Device, m \in Cmd : w = <<"asked", d, m>>
       \/ \E c \in Conn, s \in Side : w = <<"unread", c, s>>
       \/ \E d \in Device, r \in Conn : w = <<"server", d, r>>
       \/ \E d \in Device, k \in Nat \ {0} : w = <<"posted", d, k>>
       \/ \E d \in Device : w = <<"reply", d, 0>>
  /\ \A d \in Device, t \in Thread :
       <<"attempt", d, t>> \in Waypoint /\ <<"client", d, t>> \in Waypoint
  /\ \A d \in Device, m \in Cmd : <<"asked", d, m>> \in Waypoint
  /\ \A c \in Conn, s \in Side : <<"unread", c, s>> \in Waypoint
  /\ \A d \in Device, r \in Conn : <<"server", d, r>> \in Waypoint
  /\ \A d \in Device, k \in Nat \ {0} : <<"posted", d, k>> \in Waypoint
  /\ \A d \in Device : <<"reply", d, 0>> \in Waypoint
BY DEF Waypoint

LEMMA WayIs ==
  /\ DOMAIN Underway = Waypoint
  /\ \A d \in Device, t \in Thread :
       /\ Underway[<<"attempt", d, t>>] = Wanted(thread[d][t])
       /\ Underway[<<"client", d, t>>] = thread[d][t].chunk
  /\ \A d \in Device, m \in Cmd : Underway[<<"asked", d, m>>] = Times(sender[d][m], m)
  /\ \A c \in Conn, s \in Side : Underway[<<"unread", c, s>>] = conns[c].inbox[s]
  /\ \A d \in Device, r \in Conn : Underway[<<"server", d, r>>] = receiver[d][r].chunk
  /\ \A d \in Device, k \in Nat \ {0} :
       Underway[<<"posted", d, k>>] = WorthAt(uiQueue[d], k)
  /\ \A d \in Device : Underway[<<"reply", d, 0>>] = serverHandler[d]
BY WaypointIs DEF Underway, HeldAt

LEMMA WayIsNext ==
  /\ DOMAIN Underway' = Waypoint
  /\ \A d \in Device, t \in Thread :
       /\ Underway'[<<"attempt", d, t>>] = Wanted(thread'[d][t])
       /\ Underway'[<<"client", d, t>>] = thread'[d][t].chunk
  /\ \A d \in Device, m \in Cmd : Underway'[<<"asked", d, m>>] = Times(sender'[d][m], m)
  /\ \A c \in Conn, s \in Side : Underway'[<<"unread", c, s>>] = conns'[c].inbox[s]
  /\ \A d \in Device, r \in Conn : Underway'[<<"server", d, r>>] = receiver'[d][r].chunk
  /\ \A d \in Device, k \in Nat \ {0} :
       Underway'[<<"posted", d, k>>] = WorthAt(uiQueue'[d], k)
  /\ \A d \in Device : Underway'[<<"reply", d, 0>>] = serverHandler'[d]
BY WaypointIs DEF Underway, HeldAt

LEMMA WayType == CallInv => Underway \in [Waypoint -> Seq(Cmd)]
<1> SUFFICES ASSUME CallInv PROVE Underway \in [Waypoint -> Seq(Cmd)]
  OBVIOUS
<1>a. /\ thread \in [Device -> [Thread -> ThreadRec]] /\ sender \in [Device -> [Cmd -> Nat]]
      /\ conns \in [Conn -> ConnRec] /\ receiver \in [Device -> [Conn -> ReceiverRec]]
      /\ uiQueue \in [Device -> Seq(Message)] /\ serverHandler \in [Device -> Seq(Cmd)]
  BY DEF CallInv, ClientOK, SocketsTypeOK, ClientTypeOK, ServerOK, ServerTypeOK
<1>b. <<>> \in Seq(Cmd) /\ <<"request">> \in Seq(Cmd)
  BY Commands
<1>1. ASSUME NEW w \in Waypoint PROVE Underway[w] \in Seq(Cmd)
  <2>1. ASSUME NEW d \in Device, NEW t \in Thread PROVE Underway[<<"attempt", d, t>>] \in Seq(Cmd)
    BY <1>b, WayIs DEF Wanted
  <2>2. ASSUME NEW d \in Device, NEW t \in Thread PROVE Underway[<<"client", d, t>>] \in Seq(Cmd)
    <3>1. thread[d][t] \in ThreadRec
      BY <1>a
    <3>2. thread[d][t].chunk \in Seq(Cmd)
      BY <3>1 DEF ThreadRec
    <3> QED
      BY <3>2, WayIs
  <2>3. ASSUME NEW d \in Device, NEW m \in Cmd PROVE Underway[<<"asked", d, m>>] \in Seq(Cmd)
    <3>1. sender[d][m] \in Nat
      BY <1>a
    <3>2. [i \in 1 .. sender[d][m] |-> m] \in Seq(Cmd)
      BY <3>1
    <3> QED
      BY <3>2, WayIs DEF Times
  <2>4. ASSUME NEW c \in Conn, NEW s \in Side PROVE Underway[<<"unread", c, s>>] \in Seq(Cmd)
    <3>1. conns[c] \in ConnRec
      BY <1>a
    <3>2. conns[c].inbox[s] \in Seq(Cmd)
      BY <3>1 DEF ConnRec
    <3> QED
      BY <3>2, WayIs
  <2>5. ASSUME NEW d \in Device, NEW r \in Conn PROVE Underway[<<"server", d, r>>] \in Seq(Cmd)
    <3>1. receiver[d][r] \in ReceiverRec
      BY <1>a
    <3>2. receiver[d][r].chunk \in Seq(Cmd)
      BY <3>1 DEF ReceiverRec
    <3> QED
      BY <3>2, WayIs
  <2>6. ASSUME NEW d \in Device, NEW k \in Nat \ {0} PROVE Underway[<<"posted", d, k>>] \in Seq(Cmd)
    <3>1. CASE k \in DOMAIN uiQueue[d]
      <4>1. uiQueue[d][k] \in Message
        BY <1>a, <3>1
      <4>2. uiQueue[d][k].cmds \in Seq(Cmd)
        BY <4>1 DEF Message
      <4> QED
        BY <1>b, <3>1, <4>2, WayIs DEF WorthAt, Worth
    <3>2. CASE k \notin DOMAIN uiQueue[d]
      BY <1>b, <3>2, WayIs DEF WorthAt
    <3> QED
      BY <3>1, <3>2
  <2>7. ASSUME NEW d \in Device PROVE Underway[<<"reply", d, 0>>] \in Seq(Cmd)
    BY <1>a, WayIs
  <2> QED
    BY <2>1, <2>2, <2>3, <2>4, <2>5, <2>6, <2>7, WaypointIs
<1>2. Underway = [w \in Waypoint |-> HeldAt(w)]
  BY DEF Underway
<1> QED
  BY <1>1, <1>2
-----------------------------------------------------------------------------
\* What a step does to the commands at a waypoint: nothing, or it drops them.
Quiet(w) == Underway'[w] = Underway[w] \/ Underway'[w] = <<>>

QuietBut(W) == \A w \in Waypoint : w \in W \/ Quiet(w)

SpotsOf(m) == Spots(Waypoint, Underway, m)
SpotsNext(m) == Spots(Waypoint, Underway', m)

\* No more spots for the command after the step than before it.
Carried(m) == ExistsInjection(SpotsNext(m), SpotsOf(m))

LEMMA QuietCarried ==
  ASSUME NEW m, QuietBut({})
  PROVE  Carried(m)
<1>1. PICK S : S = Underway
  OBVIOUS
<1>2. PICK T : T = Underway'
  OBVIOUS
<1>3. DOMAIN S = Waypoint /\ DOMAIN T = Waypoint
  BY <1>1, <1>2, WayIs, WayIsNext
<1>4. \A h \in Waypoint : T[h] = S[h] \/ T[h] = <<>>
  BY <1>1, <1>2 DEF QuietBut, Quiet
<1>5. Spots(Waypoint, T, m) \subseteq Spots(Waypoint, S, m)
  BY <1>3, <1>4, DropSpots
<1>6. ExistsInjection(Spots(Waypoint, T, m), Spots(Waypoint, S, m))
  BY <1>5, InjectSubset
<1> QED
  BY <1>1, <1>2, <1>6 DEF Carried, SpotsOf, SpotsNext

LEMMA AppendCarried ==
  ASSUME CallInv, NEW a \in Waypoint, NEW c, Underway'[a] = Append(Underway[a], c),
         QuietBut({a})
  PROVE  /\ \A m : m # c => Carried(m)
         /\ \A m : SpotsNext(m) \subseteq SpotsOf(m) \cup {<<a, Len(Underway[a]) + 1>>}
<1>1. PICK S : S = Underway
  OBVIOUS
<1>2. PICK T : T = Underway'
  OBVIOUS
<1>3. S \in [Waypoint -> Seq(Cmd)] /\ DOMAIN T = Waypoint
  BY <1>1, <1>2, WayType, WayIsNext
<1>4. \A h \in Waypoint : h # a => T[h] = S[h] \/ T[h] = <<>>
  BY <1>1, <1>2 DEF QuietBut, Quiet
<1>5. Grown(Waypoint, S, T, a, c)
  BY <1>1, <1>2, <1>3, <1>4 DEF Grown
<1>6. ASSUME NEW m, NEW x \in Spots(Waypoint, T, m)
      PROVE  x \in Spots(Waypoint, S, m) \/ (x = <<a, Len(S[a]) + 1>> /\ m = c)
  BY <1>3, <1>5, AppendSpots
<1>7. ASSUME NEW m, m # c PROVE Carried(m)
  <2>1. ExistsInjection(Spots(Waypoint, T, m), Spots(Waypoint, S, m))
    BY <1>6, <1>7, InjectSubset
  <2> QED
    BY <1>1, <1>2, <2>1 DEF Carried, SpotsOf, SpotsNext
<1>8. ASSUME NEW m PROVE SpotsNext(m) \subseteq SpotsOf(m) \cup {<<a, Len(Underway[a]) + 1>>}
  <2>1. SpotsNext(m) = Spots(Waypoint, T, m) /\ SpotsOf(m) = Spots(Waypoint, S, m)
    BY <1>1, <1>2 DEF SpotsOf, SpotsNext
  <2> QED
    BY <1>1, <1>6, <2>1
<1> QED
  BY <1>7, <1>8

LEMMA MoveCarried ==
  ASSUME CallInv, NEW a \in Waypoint, NEW b \in Waypoint, a # b,
         NEW n \in Nat, n <= Len(Underway[a]),
         Underway'[a] = SubSeq(Underway[a], n + 1, Len(Underway[a])),
         \/ Underway'[b] = Underway[b] \o SubSeq(Underway[a], 1, n)
         \/ Underway'[b] = SubSeq(Underway[a], 1, n),
         QuietBut({a, b}), NEW m
  PROVE  Carried(m)
<1>1. PICK S : S = Underway
  OBVIOUS
<1>2. PICK T : T = Underway'
  OBVIOUS
<1>3. S \in [Waypoint -> Seq(Cmd)] /\ DOMAIN T = Waypoint
  BY <1>1, <1>2, WayType, WayIsNext
<1>4. \A h \in Waypoint : h # a /\ h # b => T[h] = S[h] \/ T[h] = <<>>
  BY <1>1, <1>2 DEF QuietBut, Quiet
<1>5. /\ n <= Len(S[a]) /\ T[a] = SubSeq(S[a], n + 1, Len(S[a]))
      /\ T[b] = S[b] \o SubSeq(S[a], 1, n) \/ T[b] = SubSeq(S[a], 1, n)
  BY <1>1, <1>2
<1>6. PICK B \in {S[b], <<>>} : T[b] = B \o SubSeq(S[a], 1, n)
  <2>1. S[a] \in Seq(Cmd) /\ Len(S[a]) \in Nat
    BY <1>3
  <2>2. SubSeq(S[a], 1, n) \in Seq(Cmd)
    BY <1>5, <2>1
  <2>3. SubSeq(S[a], 1, n) = <<>> \o SubSeq(S[a], 1, n)
    BY <2>2
  <2> QED
    BY <1>5, <2>3
<1>7. ExistsInjection(Spots(Waypoint, T, m), Spots(Waypoint, S, m))
  BY <1>3, <1>4, <1>5, <1>6, MoveSpots, ZenonT(40)
<1> QED
  BY <1>1, <1>2, <1>7 DEF Carried, SpotsOf, SpotsNext

LEMMA LoseCarried ==
  ASSUME CallInv, NEW a \in Waypoint, Underway[a] # <<>>,
         Underway'[a] = Tail(Underway[a]), QuietBut({a}), NEW m
  PROVE  Carried(m)
<1>1. PICK S : S = Underway
  OBVIOUS
<1>2. PICK T : T = Underway'
  OBVIOUS
<1>3. S \in [Waypoint -> Seq(Cmd)] /\ DOMAIN T = Waypoint
  BY <1>1, <1>2, WayType, WayIsNext
<1>4. \A h \in Waypoint : h # a => T[h] = S[h] \/ T[h] = <<>>
  BY <1>1, <1>2 DEF QuietBut, Quiet
<1>5. S[a] # <<>> /\ T[a] = Tail(S[a])
  BY <1>1, <1>2
<1>6. ExistsInjection(Spots(Waypoint, T, m), Spots(Waypoint, S, m))
  BY <1>3, <1>4, <1>5, LoseSpots
<1> QED
  BY <1>1, <1>2, <1>6 DEF Carried, SpotsOf, SpotsNext
-----------------------------------------------------------------------------
\* The Looper of d takes its first message: the others move up.
LEMMA QueuePopped ==
  ASSUME SocketsTypeOK, NEW d \in Device, uiQueue[d] # <<>>,
         uiQueue' = [uiQueue EXCEPT ![d] = Tail(@)]
  PROVE  /\ \A k \in Nat \ {0} :
              Underway'[<<"posted", d, k>>] = Underway[<<"posted", d, k + 1>>]
         /\ \A w \in Waypoint : w[1] = "posted" /\ w[2] # d => Quiet(w)
         /\ Underway[<<"posted", d, 1>>] = Worth(Head(uiQueue[d]))
<1>1. /\ uiQueue[d] \in Seq(Message) /\ Len(uiQueue[d]) \in Nat /\ Len(uiQueue[d]) > 0
      /\ uiQueue'[d] = Tail(uiQueue[d])
      /\ \A e \in Device : e # d => uiQueue'[e] = uiQueue[e]
  BY DEF SocketsTypeOK
<1>2. ASSUME NEW k \in Nat \ {0}
      PROVE  Underway'[<<"posted", d, k>>] = Underway[<<"posted", d, k + 1>>]
  <2>1. /\ k \in DOMAIN uiQueue'[d] <=> k + 1 \in DOMAIN uiQueue[d]
        /\ k \in DOMAIN uiQueue'[d] => uiQueue'[d][k] = uiQueue[d][k + 1]
    <3>1. PICK q \in Seq(Message) : q = uiQueue[d]
      BY <1>1
    <3>2. /\ k \in DOMAIN Tail(q) <=> k + 1 \in DOMAIN q
          /\ k \in DOMAIN Tail(q) => Tail(q)[k] = q[k + 1]
      BY <1>1, <3>1
    <3> QED
      BY <1>1, <3>1, <3>2
  <2>2. WorthAt(uiQueue'[d], k) = WorthAt(uiQueue[d], k + 1)
    <3>1. CASE k \in DOMAIN uiQueue'[d]
      <4>1. WorthAt(uiQueue'[d], k) = Worth(uiQueue'[d][k])
        BY <3>1 DEF WorthAt
      <4>2. WorthAt(uiQueue[d], k + 1) = Worth(uiQueue[d][k + 1])
        BY <2>1, <3>1 DEF WorthAt
      <4> QED
        BY <2>1, <3>1, <4>1, <4>2
    <3>2. CASE k \notin DOMAIN uiQueue'[d]
      BY <2>1, <3>2 DEF WorthAt
    <3> QED
      BY <3>1, <3>2
  <2>3. k + 1 \in Nat \ {0}
    OBVIOUS
  <2> QED
    BY <2>2, <2>3, WayIs, WayIsNext
<1>3. ASSUME NEW w \in Waypoint, w[1] = "posted", w[2] # d PROVE Quiet(w)
  <2>1. PICK e \in Device, k \in Nat \ {0} : w = <<"posted", e, k>>
    BY <1>3, WaypointIs
  <2> QED
    BY <1>1, <1>3, <2>1, WayIs, WayIsNext DEF Quiet
<1>4. WorthAt(uiQueue[d], 1) = Worth(Head(uiQueue[d]))
  BY <1>1 DEF WorthAt
<1> QED
  BY <1>2, <1>3, <1>4, WayIs

\* T is what is held after that, the rest as before or dropped.
LEMMA PopSpots ==
  ASSUME NEW d \in Device, NEW T, DOMAIN T = Waypoint,
         \A k \in Nat \ {0} : T[<<"posted", d, k>>] = Underway[<<"posted", d, k + 1>>],
         \A w \in Waypoint :
           ~(w[1] = "posted" /\ w[2] = d) => T[w] = Underway[w] \/ T[w] = <<>>,
         NEW m
  PROVE  ExistsInjection(Spots(Waypoint, T, m),
                         SpotsBut(Waypoint, Underway, m, <<"posted", d, 1>>))
<1> DEFINE a == <<"posted", d, 1>>
           Q(w) == w[1] = "posted" /\ w[2] = d
           g == [w \in Waypoint |-> IF Q(w) THEN <<"posted", d, w[3] + 1>> ELSE w]
<1>1. ASSUME NEW w \in Waypoint, Q(w)
      PROVE  \E k \in Nat \ {0} : w = <<"posted", d, k>> /\ g[w] = <<"posted", d, k + 1>>
  <2>1. PICK k \in Nat \ {0} : w = <<"posted", d, k>>
    BY <1>1, WaypointIs
  <2> QED
    BY <2>1
<1>2. ASSUME NEW w \in Waypoint, ~Q(w) PROVE g[w] = w
  BY <1>2
<1>3. g \in [Waypoint -> Waypoint]
  <2>1. ASSUME NEW w \in Waypoint PROVE g[w] \in Waypoint
    <3>1. CASE Q(w)
      <4>1. PICK k \in Nat \ {0} : g[w] = <<"posted", d, k + 1>>
        BY <1>1, <3>1
      <4>2. k + 1 \in Nat \ {0}
        OBVIOUS
      <4> HIDE DEF g
      <4> QED
        BY <4>1, <4>2, WaypointIs
    <3>2. CASE ~Q(w)
      BY <1>2, <3>2
    <3> QED
      BY <3>1, <3>2
  <2> DEFINE G(w) == IF Q(w) THEN <<"posted", d, w[3] + 1>> ELSE w
  <2>2. g = [w \in Waypoint |-> G(w)]
    OBVIOUS
  <2> HIDE DEF g, G, Q
  <2> QED
    BY <2>1, <2>2
<1> HIDE DEF g
<1>4. ASSUME NEW h \in Waypoint, NEW l \in Waypoint, g[h] = g[l] PROVE h = l
  <2>1. CASE Q(h) /\ Q(l)
    <3>1. PICK i \in Nat \ {0} : h = <<"posted", d, i>> /\ g[h] = <<"posted", d, i + 1>>
      BY <1>1, <2>1
    <3>2. PICK j \in Nat \ {0} : l = <<"posted", d, j>> /\ g[l] = <<"posted", d, j + 1>>
      BY <1>1, <2>1
    <3>3. i + 1 = j + 1
      BY <1>4, <3>1, <3>2
    <3> QED
      BY <3>1, <3>2, <3>3
  <2>2. CASE ~Q(h) /\ ~Q(l)
    BY <1>2, <1>4, <2>2
  <2>3. ASSUME NEW x \in Waypoint, NEW y \in Waypoint, Q(x), ~Q(y), g[x] = g[y]
        PROVE  FALSE
    <3>1. PICK i \in Nat \ {0} : g[x] = <<"posted", d, i + 1>>
      BY <1>1, <2>3
    <3>2. y = <<"posted", d, i + 1>>
      BY <1>2, <2>3, <3>1
    <3> QED
      BY <2>3, <3>2
  <2> HIDE DEF Q
  <2> QED
    BY <1>4, <2>1, <2>2, <2>3
<1>5. ASSUME NEW h \in Waypoint PROVE g[h] # a
  <2>1. CASE Q(h)
    BY <1>1, <2>1
  <2>2. CASE ~Q(h)
    <3>1. Q(a)
      OBVIOUS
    <3>2. g[h] = h
      BY <1>2, <2>2
    <3> HIDE DEF Q, a
    <3> QED
      BY <2>2, <3>1, <3>2
  <2> QED
    BY <2>1, <2>2
<1>6. PICK S : S = Underway
  OBVIOUS
<1>7. DOMAIN S = Waypoint
  BY <1>6, WayIs
<1>8. ASSUME NEW h \in Waypoint PROVE T[h] = S[g[h]] \/ T[h] = <<>>
  <2>1. CASE Q(h)
    BY <1>1, <1>6, <2>1
  <2>2. CASE ~Q(h)
    BY <1>2, <1>6, <2>2
  <2> QED
    BY <2>1, <2>2
<1> HIDE DEF a
<1>9. ExistsInjection(Spots(Waypoint, T, m), SpotsBut(Waypoint, S, m, a))
  BY <1>3, <1>4, <1>5, <1>7, <1>8, RenameSpots
<1> QED
  BY <1>6, <1>9 DEF a
-----------------------------------------------------------------------------
\* What the calls of the endpoints leave alone.
KindsQuiet(K) == \A w \in Waypoint : w[1] \in K => Quiet(w)

ClientKinds == {"attempt", "client", "asked"}
ServerKinds == {"server", "reply"}

LEMMA AllKinds ==
  \A w \in Waypoint : w[1] \in ClientKinds \cup ServerKinds \cup {"unread", "posted"}
BY WaypointIs DEF ClientKinds, ServerKinds

\* A waypoint is quiet if what is held there is.
LEMMA QuietPoint ==
  ASSUME NEW w \in Waypoint,
         \A d \in Device, t \in Thread :
           /\ w = <<"attempt", d, t>> =>
                (thread'[d][t].pc \in Attempting => thread[d][t].pc \in Attempting)
           /\ w = <<"client", d, t>> => thread'[d][t].chunk \in {thread[d][t].chunk, <<>>},
         \A d \in Device, m \in Cmd : w = <<"asked", d, m>> => sender'[d][m] = sender[d][m],
         \A c \in Conn, s \in Side :
           w = <<"unread", c, s>> => conns'[c].inbox[s] \in {conns[c].inbox[s], <<>>},
         \A d \in Device, r \in Conn :
           w = <<"server", d, r>> => receiver'[d][r].chunk \in {receiver[d][r].chunk, <<>>},
         \A d \in Device, k \in Nat \ {0} :
           w = <<"posted", d, k>> => WorthAt(uiQueue'[d], k) \in {WorthAt(uiQueue[d], k), <<>>},
         \A d \in Device : w = <<"reply", d, 0>> => serverHandler'[d] = serverHandler[d]
  PROVE  Quiet(w)
<1>1. ASSUME NEW d \in Device, NEW t \in Thread, w = <<"attempt", d, t>> PROVE Quiet(w)
  <2>1. thread'[d][t].pc \in Attempting => thread[d][t].pc \in Attempting
    BY <1>1
  <2> QED
    <3>1. Underway[w] = Wanted(thread[d][t]) /\ Underway'[w] = Wanted(thread'[d][t])
      BY <1>1, WayIs, WayIsNext
    <3>2. Wanted(thread'[d][t]) = Wanted(thread[d][t]) \/ Wanted(thread'[d][t]) = <<>>
      BY <2>1 DEF Wanted
    <3> QED
      BY <3>1, <3>2 DEF Quiet
<1>2. ASSUME NEW d \in Device, NEW t \in Thread, w = <<"client", d, t>> PROVE Quiet(w)
  <2>1. thread'[d][t].chunk = thread[d][t].chunk \/ thread'[d][t].chunk = <<>>
    BY <1>2
  <2> QED
    BY <1>2, <2>1, WayIs, WayIsNext DEF Quiet
<1>3. ASSUME NEW d \in Device, NEW m \in Cmd, w = <<"asked", d, m>> PROVE Quiet(w)
  <2>1. sender'[d][m] = sender[d][m]
    BY <1>3
  <2> QED
    BY <1>3, <2>1, WayIs, WayIsNext DEF Quiet
<1>4. ASSUME NEW c \in Conn, NEW s \in Side, w = <<"unread", c, s>> PROVE Quiet(w)
  <2>1. conns'[c].inbox[s] = conns[c].inbox[s] \/ conns'[c].inbox[s] = <<>>
    BY <1>4
  <2> QED
    BY <1>4, <2>1, WayIs, WayIsNext DEF Quiet
<1>5. ASSUME NEW d \in Device, NEW r \in Conn, w = <<"server", d, r>> PROVE Quiet(w)
  <2>1. receiver'[d][r].chunk = receiver[d][r].chunk \/ receiver'[d][r].chunk = <<>>
    BY <1>5
  <2> QED
    BY <1>5, <2>1, WayIs, WayIsNext DEF Quiet
<1>6. ASSUME NEW d \in Device, NEW k \in Nat \ {0}, w = <<"posted", d, k>> PROVE Quiet(w)
  <2>1. WorthAt(uiQueue'[d], k) = WorthAt(uiQueue[d], k) \/ WorthAt(uiQueue'[d], k) = <<>>
    BY <1>6
  <2> QED
    BY <1>6, <2>1, WayIs, WayIsNext DEF Quiet
<1>7. ASSUME NEW d \in Device, w = <<"reply", d, 0>> PROVE Quiet(w)
  <2>1. serverHandler'[d] = serverHandler[d]
    BY <1>7
  <2> QED
    BY <1>7, <2>1, WayIs, WayIsNext DEF Quiet
<1> QED
  BY <1>1, <1>2, <1>3, <1>4, <1>5, <1>6, <1>7, WaypointIs

LEMMA ClientStill == UNCHANGED clientVars => KindsQuiet(ClientKinds)
<1> SUFFICES ASSUME UNCHANGED clientVars, NEW w \in Waypoint, w[1] \in ClientKinds
             PROVE  Quiet(w)
  BY DEF KindsQuiet
<1> QED
  BY QuietPoint DEF clientVars, ClientKinds

LEMMA ServerStill == UNCHANGED serverVars => KindsQuiet(ServerKinds)
<1> SUFFICES ASSUME UNCHANGED serverVars, NEW w \in Waypoint, w[1] \in ServerKinds
             PROVE  Quiet(w)
  BY DEF KindsQuiet
<1> QED
  BY QuietPoint DEF serverVars, ServerKinds

LEMMA InboxStill == ConnsQuiet => KindsQuiet({"unread"})
<1> SUFFICES ASSUME ConnsQuiet, NEW w \in Waypoint, w[1] = "unread"
             PROVE  Quiet(w)
  BY DEF KindsQuiet
<1> QED
  BY QuietPoint DEF ConnsQuiet

LEMMA QueueStill == UNCHANGED uiQueue => KindsQuiet({"posted"})
<1> SUFFICES ASSUME UNCHANGED uiQueue, NEW w \in Waypoint, w[1] = "posted"
             PROVE  Quiet(w)
  BY DEF KindsQuiet
<1> QED
  BY QuietPoint

LEMMA SameConns == UNCHANGED conns => ConnsQuiet
BY DEF ConnsQuiet
-----------------------------------------------------------------------------
LEMMA DisconnectStill ==
  ASSUME ClientOK, NEW d \in Device, disconnect(d)
  PROVE  /\ KindsQuiet(ClientKinds) /\ ConnsQuiet
         /\ \A e \in Device, t \in Thread : /\ thread'[e][t].pc = thread[e][t].pc
                                            /\ thread'[e][t].chunk = thread[e][t].chunk
<1>1. ConnsQuiet
  BY Commands, ClosedQuiet DEF disconnect, ClientOK, SocketsTypeOK
<1>2. ASSUME NEW e \in Device, NEW t \in Thread
      PROVE  thread'[e][t].pc = thread[e][t].pc /\ thread'[e][t].chunk = thread[e][t].chunk
  <2>1. thread \in [Device -> [Thread -> ThreadRec]] /\ mSocketThread[d] \in Thread \cup {0}
    BY DEF ClientOK, ClientTypeOK
  <2>2. CASE thread' = thread
    BY <2>2
  <2>3. CASE /\ mSocketThread[d] # 0
             /\ thread' = [thread EXCEPT ![d][mSocketThread[d]].interrupted = TRUE]
    <3>1. PICK u \in Thread : u = mSocketThread[d]
      BY <2>1, <2>3
    <3>2. thread' = [thread EXCEPT ![d][u].interrupted = TRUE]
      BY <2>3, <3>1
    <3> QED
      BY <2>1, <3>2 DEF ThreadRec
  <2> QED
    BY <2>2, <2>3 DEF disconnect, Interrupted
<1>3. KindsQuiet(ClientKinds)
  <2> SUFFICES ASSUME NEW w \in Waypoint, w[1] \in ClientKinds PROVE Quiet(w)
    BY DEF KindsQuiet
  <2>1. UNCHANGED sender
    BY DEF disconnect
  <2> QED
    BY <1>2, <2>1, QuietPoint DEF ClientKinds
<1> QED
  BY <1>1, <1>2, <1>3

LEMMA SrvDisconnectStill ==
  ASSUME SocketsTypeOK, NEW d \in Device, srvDisconnect(d)
  PROVE  KindsQuiet(ServerKinds) /\ ConnsQuiet /\ UNCHANGED receiver
<1>1. ConnsQuiet
  BY Commands, ClosedQuiet DEF srvDisconnect, SocketsTypeOK
<1>2. KindsQuiet(ServerKinds)
  <2> SUFFICES ASSUME NEW w \in Waypoint, w[1] \in ServerKinds PROVE Quiet(w)
    BY DEF KindsQuiet
  <2>1. UNCHANGED <<receiver, serverHandler>>
    BY DEF srvDisconnect
  <2> QED
    BY <2>1, QuietPoint DEF ServerKinds
<1> QED
  BY <1>1, <1>2 DEF srvDisconnect

\* One command more among those to send.
LEMMA SendGrows ==
  ASSUME ClientOK, NEW d \in Device, NEW c \in Cmd, sendByteCmd(d, c)
  PROVE  /\ Underway'[<<"asked", d, c>>] = Append(Underway[<<"asked", d, c>>], c)
         /\ \A w \in Waypoint : w[1] \in ClientKinds /\ w # <<"asked", d, c>> => Quiet(w)
<1>1. /\ sender'[d][c] = sender[d][c] + 1 /\ sender[d][c] \in Nat
      /\ \A e \in Device, m \in Cmd :
           <<"asked", e, m>> # <<"asked", d, c>> => sender'[e][m] = sender[e][m]
      /\ UNCHANGED thread
  BY DEF sendByteCmd, ClientOK, ClientTypeOK
<1>2. Times(sender'[d][c], c) = Append(Times(sender[d][c], c), c)
  BY <1>1 DEF Times
<1>3. ASSUME NEW w \in Waypoint, w[1] \in ClientKinds, w # <<"asked", d, c>> PROVE Quiet(w)
  BY <1>1, <1>3, QuietPoint DEF ClientKinds
<1> QED
  BY <1>2, <1>3, WayIs, WayIsNext

LEMMA SendMsgGrows ==
  ASSUME ServerOK, NEW d \in Device, NEW c \in Cmd, sendMsg(d, c)
  PROVE  /\ Underway'[<<"reply", d, 0>>] = Append(Underway[<<"reply", d, 0>>], c)
         /\ \A w \in Waypoint : w[1] \in ServerKinds /\ w # <<"reply", d, 0>> => Quiet(w)
<1>1. /\ serverHandler'[d] = Append(serverHandler[d], c)
      /\ \A e \in Device :
           <<"reply", e, 0>> # <<"reply", d, 0>> => serverHandler'[e] = serverHandler[e]
      /\ UNCHANGED receiver
  BY DEF sendMsg, ServerOK, ServerTypeOK
<1>2. ASSUME NEW w \in Waypoint, w[1] \in ServerKinds, w # <<"reply", d, 0>> PROVE Quiet(w)
  BY <1>1, <1>2, QuietPoint DEF ServerKinds
<1> QED
  BY <1>1, <1>2, WayIs, WayIsNext
-----------------------------------------------------------------------------
(***************************************************************************)
(* What the call owes: each spot of a request under way has a connect of   *)
(* its own that no dialog came of, each spot of an accept a press that no  *)
(* start came of, each dialog on a screen a ring that no press came of.    *)
(* A lemma named ...Due below says that its action or handler keeps this.  *)
(***************************************************************************)
Shown == {x \in Device \X Nat : x[2] \in 1 .. dialogs[x[1]]}

RequestDue == rings <= dials /\ ExistsInjection(SpotsOf("request"), rings + 1 .. dials)
AcceptDue == starts <= accepts /\ ExistsInjection(SpotsOf("accept"), starts + 1 .. accepts)
ShownDue == accepts <= rings /\ ExistsInjection(Shown, accepts + 1 .. rings)

\* What was read is something.
ThreadFull ==
  \A d \in Device, t \in Thread : thread[d][t].pc = "post" => thread[d][t].chunk # <<>>
ReceiverFull ==
  \A d \in Device, r \in Conn : receiver[d][r].pc = "post" => receiver[d][r].chunk # <<>>
QueueFull ==
  \A d \in Device : \A k \in DOMAIN uiQueue[d] :
    uiQueue[d][k].what = "data" => uiQueue[d][k].cmds # <<>>

ChunkFull == ThreadFull /\ ReceiverFull /\ QueueFull

Due == RequestDue /\ AcceptDue /\ ShownDue
CausalInv == CallInv /\ ChunkFull /\ Due

LEMMA CarriedDue ==
  /\ RequestDue /\ Carried("request") /\ UNCHANGED <<rings, dials>> => RequestDue'
  /\ AcceptDue /\ Carried("accept") /\ UNCHANGED <<starts, accepts>> => AcceptDue'
  /\ ShownDue /\ UNCHANGED <<dialogs, accepts, rings>> => ShownDue'
<1>1. ASSUME RequestDue, Carried("request"), UNCHANGED <<rings, dials>> PROVE RequestDue'
  <2>1. ExistsInjection(SpotsNext("request"), rings + 1 .. dials)
    BY <1>1, Fun_ExistsInjTransitive DEF RequestDue, Carried
  <2> QED
    BY <1>1, <2>1 DEF RequestDue, SpotsOf, SpotsNext
<1>2. ASSUME AcceptDue, Carried("accept"), UNCHANGED <<starts, accepts>> PROVE AcceptDue'
  <2>1. ExistsInjection(SpotsNext("accept"), starts + 1 .. accepts)
    BY <1>2, Fun_ExistsInjTransitive DEF AcceptDue, Carried
  <2> QED
    BY <1>2, <2>1 DEF AcceptDue, SpotsOf, SpotsNext
<1>3. ASSUME ShownDue, UNCHANGED <<dialogs, accepts, rings>> PROVE ShownDue'
  BY <1>3 DEF ShownDue, Shown
<1> QED
  BY <1>1, <1>2, <1>3

\* A step that only carries commands on.
LEMMA DueKept ==
  ASSUME Due, Carried("request"), Carried("accept"), UNCHANGED <<dialogs, histVars>>
  PROVE  Due'
BY CarriedDue DEF Due, histVars

\* Fewer dialogs.
LEMMA FewerShown ==
  ASSUME CallOK, NEW d \in Device, Dismissed(d), dialogs[d] > 0
  PROVE  /\ Shown' \subseteq Shown \ {<<d, dialogs[d]>>}
         /\ <<d, dialogs[d]>> \in Shown
<1>1. /\ dialogs'[d] = dialogs[d] - 1 /\ dialogs[d] \in Nat
      /\ \A e \in Device : e # d => dialogs'[e] = dialogs[e]
  BY DEF Dismissed, CallOK
<1>2. ASSUME NEW e \in Device, NEW k \in Nat, k \in 1 .. dialogs'[e]
      PROVE  k \in 1 .. dialogs[e] /\ <<e, k>> # <<d, dialogs[d]>>
  BY <1>1, <1>2
<1>3. ASSUME NEW x \in Shown' PROVE x \in Shown /\ x # <<d, dialogs[d]>>
  <2>1. PICK e \in Device, k \in Nat : x = <<e, k>> /\ k \in 1 .. dialogs'[e]
    BY DEF Shown
  <2> QED
    BY <1>2, <2>1 DEF Shown
<1>4. dialogs[d] \in 1 .. dialogs[d]
  BY <1>1
<1> QED
  BY <1>1, <1>3, <1>4 DEF Shown

LEMMA ShownFewer ==
  ASSUME ShownDue, Shown' \subseteq Shown, UNCHANGED <<accepts, rings>>
  PROVE  ShownDue'
<1>1. PICK P : P = Shown
  OBVIOUS
<1>2. PICK R : R = Shown'
  OBVIOUS
<1>3. ExistsInjection(R, P)
  BY <1>1, <1>2, InjectSubset
<1>4. ExistsInjection(R, accepts + 1 .. rings)
  BY <1>1, <1>3, Fun_ExistsInjTransitive DEF ShownDue
<1> QED
  BY <1>2, <1>4 DEF ShownDue
-----------------------------------------------------------------------------
LEMMA AllQuiet ==
  ASSUME KindsQuiet(ClientKinds), KindsQuiet(ServerKinds), KindsQuiet({"unread"}),
         KindsQuiet({"posted"})
  PROVE  QuietBut({})
BY AllKinds DEF QuietBut, KindsQuiet

LEMMA SocketsStill ==
  ASSUME UNCHANGED sockVars PROVE KindsQuiet({"unread"}) /\ KindsQuiet({"posted"})
BY SameConns, InboxStill, QueueStill DEF sockVars

LEMMA QuietDue ==
  ASSUME Due, QuietBut({}), UNCHANGED <<dialogs, histVars>>
  PROVE  Due'
<1>1. Carried("request") /\ Carried("accept")
  BY QuietCarried
<1> QED
  BY <1>1, DueKept

\* One more, and one more number to tell it by.
LEMMA MoreRoom ==
  ASSUME NEW P, NEW lo \in Nat, NEW hi \in Nat, lo <= hi, ExistsInjection(P, lo + 1 .. hi),
         NEW x, NEW R, R \subseteq P \cup {x}
  PROVE  ExistsInjection(R, lo + 1 .. hi + 1)
<1>1. (lo + 1 .. hi) \cup {hi + 1} = lo + 1 .. hi + 1 /\ hi + 1 \notin lo + 1 .. hi
  OBVIOUS
<1>2. ExistsInjection(R, (lo + 1 .. hi) \cup {hi + 1})
  BY <1>1, InjectMore
<1> QED
  BY <1>1, <1>2

\* A request more for a connect more, an accept more for a press more.
LEMMA RequestMore ==
  ASSUME CallOK, RequestDue, NEW x, SpotsNext("request") \subseteq SpotsOf("request") \cup {x},
         dials' = dials + 1, UNCHANGED rings
  PROVE  RequestDue'
<1>1. dials \in Nat /\ rings \in Nat /\ rings <= dials
  BY DEF CallOK, RequestDue
<1>2. ExistsInjection(SpotsNext("request"), rings + 1 .. dials + 1)
  BY <1>1, MoreRoom DEF RequestDue
<1> QED
  BY <1>1, <1>2 DEF RequestDue, SpotsOf, SpotsNext

LEMMA AcceptMore ==
  ASSUME CallOK, AcceptDue, NEW x, SpotsNext("accept") \subseteq SpotsOf("accept") \cup {x},
         accepts' = accepts + 1, UNCHANGED starts
  PROVE  AcceptDue'
<1>1. accepts \in Nat /\ starts \in Nat /\ starts <= accepts
  BY DEF CallOK, AcceptDue
<1>2. ExistsInjection(SpotsNext("accept"), starts + 1 .. accepts + 1)
  BY <1>1, MoreRoom DEF AcceptDue
<1> QED
  BY <1>1, <1>2 DEF AcceptDue, SpotsOf, SpotsNext

\* A dialog answered is a ring that a press came of.
LEMMA ShownAnswered ==
  ASSUME CallOK, ShownDue, NEW d \in Device, Dismissed(d), dialogs[d] > 0,
         accepts' = accepts + 1, UNCHANGED rings
  PROVE  ShownDue'
<1>1. PICK P : P = Shown
  OBVIOUS
<1>2. PICK R : R = Shown'
  OBVIOUS
<1>3. PICK x : x = <<d, dialogs[d]>>
  OBVIOUS
<1>4. R \subseteq P \ {x} /\ x \in P
  BY <1>1, <1>2, <1>3, FewerShown
<1>5. accepts \in Nat /\ rings \in Nat /\ ExistsInjection(P, accepts + 1 .. rings)
  BY <1>1 DEF CallOK, ShownDue
<1>6. accepts + 1 <= rings /\ ExistsInjection(P \ {x}, accepts + 2 .. rings)
  BY <1>4, <1>5, InjectLess
<1>7. ExistsInjection(R, accepts + 2 .. rings)
  BY <1>4, <1>6, InjectSubset, Fun_ExistsInjTransitive
<1>8. accepts + 1 + 1 = accepts + 2
  BY <1>5
<1> QED
  BY <1>2, <1>6, <1>7, <1>8 DEF ShownDue

\* A dialog that goes without a press.
LEMMA ShownFewest ==
  ASSUME CallOK, ShownDue, NEW d \in Device, Dismissed(d), dialogs[d] > 0,
         UNCHANGED <<accepts, rings>>
  PROVE  ShownDue'
<1>1. Shown' \subseteq Shown
  BY FewerShown
<1> QED
  BY <1>1, ShownFewer

\* What an action of the activity leaves of the chunks.
LEMMA ChunkKept ==
  ASSUME ChunkFull, UNCHANGED <<uiQueue, receiver>>,
         \A d \in Device, t \in Thread :
           thread'[d][t].pc = "post" => /\ thread[d][t].pc = "post"
                                        /\ thread'[d][t].chunk = thread[d][t].chunk
  PROVE  ChunkFull'
BY DEF ChunkFull, ThreadFull, ReceiverFull, QueueFull

LEMMA ChunkSame == ChunkFull /\ UNCHANGED <<uiQueue, receiver, thread>> => ChunkFull'
BY DEF ChunkFull, ThreadFull, ReceiverFull, QueueFull
-----------------------------------------------------------------------------
\* btn_start: dials grows, and so may the requests.
LEMMA StartPressedDue ==
  ASSUME CausalInv, NEW d \in Device, NEW t \in Thread, StartPressed(d, t)
  PROVE  ChunkFull' /\ Due'
<1>a. /\ CallInv /\ CallOK /\ ClientOK /\ ChunkFull /\ RequestDue /\ AcceptDue /\ ShownDue
      /\ thread \in [Device -> [Thread -> ThreadRec]] /\ thread[d][t].pc = "unborn"
  BY DEF CausalInv, CallInv, Due, ClientOK, ClientTypeOK, StartPressed, connect
<1>b. PICK e : thread' = [thread EXCEPT ![d][t] = [@ EXCEPT !.pc = "start", !.to = e]]
  BY DEF StartPressed, connect
<1>1. /\ thread'[d][t].pc = "start" /\ thread'[d][t].chunk = thread[d][t].chunk
      /\ \A f \in Device, u \in Thread : <<f, u>> # <<d, t>> => thread'[f][u] = thread[f][u]
  <2>1. thread[d][t] \in ThreadRec
    BY <1>a
  <2> QED
    BY <1>a, <1>b, <2>1 DEF ThreadRec
<1>2. ChunkFull'
  <2>1. UNCHANGED <<uiQueue, receiver>>
    BY DEF StartPressed, sockVars, serverVars
  <2>2. ASSUME NEW f \in Device, NEW u \in Thread, thread'[f][u].pc = "post"
        PROVE  thread'[f][u] = thread[f][u]
    BY <1>1, <2>2
  <2> QED
    BY <1>a, <2>1, <2>2, ChunkKept
<1> DEFINE a == <<"attempt", d, t>>
<1>3. /\ a \in Waypoint /\ Underway[a] = <<>> /\ Underway'[a] = <<"request">>
  BY <1>a, <1>1, WayIs, WayIsNext, WaypointIs DEF Wanted, Attempting
<1>4. ASSUME NEW w \in Waypoint, w # a PROVE Quiet(w)
  <2>1. UNCHANGED <<sender, conns, uiQueue, receiver, serverHandler>>
    BY DEF StartPressed, connect, sockVars, serverVars
  <2> QED
    BY <1>1, <1>4, <2>1, QuietPoint
<1>5. QuietBut({a}) /\ Underway'[a] = Append(Underway[a], "request")
  BY <1>3, <1>4 DEF QuietBut
<1> HIDE DEF a
<1>6. /\ Carried("accept")
      /\ SpotsNext("request") \subseteq SpotsOf("request") \cup {<<a, Len(Underway[a]) + 1>>}
  BY <1>a, <1>3, <1>5, AppendCarried
<1>7. dials' = dials + 1 /\ UNCHANGED <<rings, accepts, starts, dialogs>>
  BY DEF StartPressed
<1>8. RequestDue'
  BY <1>a, <1>6, <1>7, RequestMore
<1> QED
  BY <1>a, <1>2, <1>6, <1>7, <1>8, CarriedDue DEF Due

\* A command other than a request or an accept goes into a sender or a reply queue.
LEMMA OtherCommand ==
  ASSUME CallInv, Due, NEW a \in Waypoint, NEW c, c \notin {"request", "accept"},
         Underway'[a] = Append(Underway[a], c), QuietBut({a})
  PROVE  Carried("request") /\ Carried("accept")
BY AppendCarried

\* What btn_stop does after it has looked at the client: a hand-up among the
\* replies, or nothing.
LEMMA StopPartCarries ==
  ASSUME CallInv, Due, NEW d \in Device, StopServerPart(d),
         KindsQuiet(ClientKinds), KindsQuiet({"unread"}), KindsQuiet({"posted"})
  PROVE  Carried("request") /\ Carried("accept") /\ UNCHANGED receiver
<1>1. CASE destCall[d]
  <2>1. sendMsg(d, "hangup")
    BY <1>1 DEF StopServerPart
  <2> DEFINE a == <<"reply", d, 0>>
  <2>2. /\ Underway'[a] = Append(Underway[a], "hangup")
        /\ \A w \in Waypoint : w[1] \in ServerKinds /\ w # a => Quiet(w)
    BY <2>1, Commands, SendMsgGrows DEF CallInv
  <2>3. a \in Waypoint
    BY WaypointIs
  <2> HIDE DEF a
  <2>4. QuietBut({a})
    BY <2>2, AllKinds DEF QuietBut, KindsQuiet
  <2>5. Carried("request") /\ Carried("accept")
    BY <2>2, <2>3, <2>4, OtherCommand
  <2> QED
    BY <2>1, <2>5 DEF sendMsg
<1>2. CASE ~destCall[d]
  <2>1. UNCHANGED serverVars
    BY <1>2 DEF StopServerPart
  <2>2. QuietBut({})
    BY <2>1, ServerStill, AllQuiet
  <2> QED
    BY <2>1, <2>2, QuietCarried DEF serverVars
<1> QED
  BY <1>1, <1>2

\* btn_stop and onBackPressed: only a hangup may be sent.
LEMMA StopPressedDue ==
  ASSUME CausalInv, NEW d \in Device, StopPressed(d)
  PROVE  ChunkFull' /\ Due'
<1>a. CallInv /\ ClientOK /\ ChunkFull /\ Due
  BY DEF CausalInv, CallInv
<1>b. /\ KindsQuiet({"unread"}) /\ KindsQuiet({"posted"})
      /\ UNCHANGED <<uiQueue, dialogs, dials, rings, accepts, starts>>
  BY SocketsStill DEF StopPressed, sockVars
<1>1. Carried("request") /\ Carried("accept") /\ UNCHANGED <<thread, receiver>>
  <2>1. CASE isConnect(d)
    <3>1. sendByteCmd(d, "hangup") /\ UNCHANGED serverVars
      BY <2>1 DEF StopPressed
    <3> DEFINE a == <<"asked", d, "hangup">>
    <3>2. /\ Underway'[a] = Append(Underway[a], "hangup")
          /\ \A w \in Waypoint : w[1] \in ClientKinds /\ w # a => Quiet(w)
      BY <1>a, <3>1, Commands, SendGrows
    <3>3. a \in Waypoint
      BY WaypointIs, Commands
    <3> HIDE DEF a
    <3>4. QuietBut({a})
      BY <1>b, <3>1, <3>2, ServerStill, AllKinds DEF QuietBut, KindsQuiet
    <3>5. Underway'[a] = Append(Underway[a], "hangup") /\ "hangup" \notin {"request", "accept"}
      BY <3>2
    <3>6. Carried("request") /\ Carried("accept")
      BY <1>a, <3>3, <3>4, <3>5, OtherCommand
    <3> QED
      BY <3>1, <3>6 DEF sendByteCmd, serverVars
  <2>2. CASE ~isConnect(d)
    <3>1. StopServerPart(d) /\ UNCHANGED clientVars
      BY <2>2 DEF StopPressed
    <3> QED
      BY <1>a, <1>b, <3>1, ClientStill, StopPartCarries DEF clientVars
  <2> QED
    BY <2>1, <2>2
<1> QED
  BY <1>a, <1>b, <1>1, ChunkSame, CarriedDue DEF Due

\* The answer to a dialog.
LEMMA AnswerGrows ==
  ASSUME CallInv, NEW d \in Device, NEW c \in Cmd, Answer(d, c), UNCHANGED <<sockVars, clientVars>>
  PROVE  /\ Underway'[<<"reply", d, 0>>] = Append(Underway[<<"reply", d, 0>>], c)
         /\ QuietBut({<<"reply", d, 0>>}) /\ UNCHANGED <<uiQueue, receiver, thread>>
<1> DEFINE a == <<"reply", d, 0>>
<1>1. /\ Underway'[a] = Append(Underway[a], c) /\ UNCHANGED receiver
      /\ \A w \in Waypoint : w[1] \in ServerKinds /\ w # a => Quiet(w)
  BY SendMsgGrows DEF CallInv, Answer, sendMsg
<1>2. KindsQuiet(ClientKinds) /\ KindsQuiet({"unread"}) /\ KindsQuiet({"posted"})
  BY SocketsStill, ClientStill
<1> HIDE DEF a
<1>3. QuietBut({a})
  BY <1>1, <1>2, AllKinds DEF QuietBut, KindsQuiet
<1> QED
  BY <1>1, <1>3 DEF a, sockVars, clientVars

\* The dialog's accept: accepts grows, a dialog goes, an accept is sent.
LEMMA AcceptPressedDue ==
  ASSUME CausalInv, NEW d \in Device, AcceptPressed(d)
  PROVE  ChunkFull' /\ Due'
<1>a. CallInv /\ CallOK /\ ChunkFull /\ Due
  BY DEF CausalInv, CallInv
<1> DEFINE a == <<"reply", d, 0>>
<1>1. /\ Underway'[a] = Append(Underway[a], "accept") /\ a \in Waypoint
      /\ QuietBut({a}) /\ UNCHANGED <<uiQueue, receiver, thread>>
  BY <1>a, Commands, AnswerGrows, WaypointIs DEF AcceptPressed
<1> HIDE DEF a
<1>2. /\ Carried("request")
      /\ SpotsNext("accept") \subseteq SpotsOf("accept") \cup {<<a, Len(Underway[a]) + 1>>}
  BY <1>a, <1>1, AppendCarried
<1>3. /\ accepts' = accepts + 1 /\ UNCHANGED <<dials, rings, starts>>
      /\ dialogs[d] > 0 /\ Dismissed(d)
  BY DEF AcceptPressed
<1>4. AcceptDue'
  BY <1>a, <1>2, <1>3, AcceptMore DEF Due
<1>5. ShownDue'
  BY <1>a, <1>3, ShownAnswered DEF Due
<1>6. RequestDue'
  BY <1>a, <1>2, <1>3, CarriedDue DEF Due
<1> QED
  BY <1>a, <1>1, <1>4, <1>5, <1>6, ChunkSame DEF Due

\* The dialog's refuse: a dialog goes, a refusal is sent.
LEMMA RefusePressedDue ==
  ASSUME CausalInv, NEW d \in Device, RefusePressed(d)
  PROVE  ChunkFull' /\ Due'
<1>a. CallInv /\ CallOK /\ ChunkFull /\ Due
  BY DEF CausalInv, CallInv
<1> DEFINE a == <<"reply", d, 0>>
<1>1. /\ Underway'[a] = Append(Underway[a], "refuse") /\ a \in Waypoint
      /\ QuietBut({a}) /\ UNCHANGED <<uiQueue, receiver, thread>>
  BY <1>a, Commands, AnswerGrows, WaypointIs DEF RefusePressed
<1> HIDE DEF a
<1>2. Carried("request") /\ Carried("accept")
  BY <1>a, <1>1, OtherCommand
<1>3. UNCHANGED <<dials, rings, accepts, starts>> /\ dialogs[d] > 0 /\ Dismissed(d)
  BY DEF RefusePressed, histVars
<1>5. ShownDue'
  BY <1>a, <1>3, ShownFewest DEF Due
<1> QED
  BY <1>a, <1>1, <1>2, <1>3, <1>5, ChunkSame, CarriedDue DEF Due

LEMMA UserDue ==
  ASSUME CausalInv, NEW d \in Device, User(d)
  PROVE  ChunkFull' /\ Due'
<1>1. ASSUME UNCHANGED <<sockVars, clientVars, serverVars, dialogs, histVars>>
      PROVE  ChunkFull' /\ Due'
  <2>1. QuietBut({})
    BY <1>1, ClientStill, ServerStill, SocketsStill, AllQuiet
  <2>2. UNCHANGED <<uiQueue, receiver, thread>>
    BY <1>1 DEF sockVars, clientVars, serverVars
  <2> QED
    BY <1>1, <2>1, <2>2, QuietDue, ChunkSame DEF CausalInv
<1>2. CASE (\E e \in Device : TypeRoom(d, e)) \/ KeyDial(d) \/ CallPressed(d)
  BY <1>1, <1>2 DEF TypeRoom, KeyDial, CallPressed
<1> QED
  BY <1>2, StartPressedDue, StopPressedDue, AcceptPressedDue, RefusePressedDue DEF User

\* The second part of a stop, after its sleep.
LEMMA WakeUpDue ==
  ASSUME CausalInv, NEW d \in Device, WakeUp(d)
  PROVE  ChunkFull' /\ Due'
<1>a. CallInv /\ ClientOK /\ SocketsTypeOK /\ ChunkFull /\ Due
  BY DEF CausalInv, CallInv, ClientOK
<1>1. CASE WakeClient(d)
  <2>1. /\ disconnect(d) /\ StopServerPart(d)
        /\ UNCHANGED <<uiQueue, dialogs, dials, rings, accepts, starts>>
    BY <1>1 DEF WakeClient, histVars
  <2>2. /\ KindsQuiet(ClientKinds) /\ KindsQuiet({"unread"}) /\ KindsQuiet({"posted"})
        /\ \A e \in Device, t \in Thread : /\ thread'[e][t].pc = thread[e][t].pc
                                           /\ thread'[e][t].chunk = thread[e][t].chunk
    BY <1>a, <2>1, DisconnectStill, InboxStill, QueueStill
  <2>3. Carried("request") /\ Carried("accept") /\ UNCHANGED receiver
    BY <1>a, <2>1, <2>2, StopPartCarries
  <2>4. ChunkFull'
    BY <1>a, <2>1, <2>2, <2>3, ChunkKept
  <2> QED
    BY <1>a, <2>1, <2>3, <2>4, CarriedDue DEF Due
<1>2. CASE WakeServer(d)
  <2>1. srvDisconnect(d) /\ UNCHANGED <<uiQueue, clientVars, dialogs, histVars>>
    BY <1>2 DEF WakeServer
  <2>2. QuietBut({}) /\ UNCHANGED receiver
    BY <1>a, <2>1, SrvDisconnectStill, InboxStill, QueueStill, ClientStill, AllQuiet
  <2> QED
    BY <1>a, <2>1, <2>2, QuietDue, ChunkSame DEF clientVars
<1> QED
  BY <1>1, <1>2 DEF WakeUp
-----------------------------------------------------------------------------
\* A message at the end of the queue of d.
LEMMA QueuePosted ==
  ASSUME SocketsTypeOK, NEW d \in Device, NEW src, NEW what, NEW cmds,
         uiQueue' = Posted(d, src, what, cmds)
  PROVE  /\ Len(uiQueue[d]) + 1 \in Nat \ {0}
         /\ \A e \in Device, k \in Nat \ {0} :
              <<e, k>> # <<d, Len(uiQueue[d]) + 1>>
                => WorthAt(uiQueue'[e], k) = WorthAt(uiQueue[e], k)
         /\ WorthAt(uiQueue[d], Len(uiQueue[d]) + 1) = <<>>
         /\ WorthAt(uiQueue'[d], Len(uiQueue[d]) + 1) =
              IF what = "success" THEN <<"request">> ELSE cmds
         /\ QueueFull /\ (what = "data" => cmds # <<>>) => QueueFull'
<1> DEFINE msg == [src |-> src, what |-> what, cmds |-> cmds]
<1>1. /\ uiQueue[d] \in Seq(Message) /\ Len(uiQueue[d]) \in Nat
      /\ uiQueue'[d] = Append(uiQueue[d], msg)
      /\ \A e \in Device : e # d => uiQueue'[e] = uiQueue[e]
  BY DEF Posted, SocketsTypeOK
<1>2. /\ DOMAIN uiQueue'[d] = DOMAIN uiQueue[d] \cup {Len(uiQueue[d]) + 1}
      /\ Len(uiQueue[d]) + 1 \notin DOMAIN uiQueue[d]
      /\ \A k \in DOMAIN uiQueue[d] : uiQueue'[d][k] = uiQueue[d][k]
      /\ uiQueue'[d][Len(uiQueue[d]) + 1] = msg
  <2>1. PICK q \in Seq(Message) : q = uiQueue[d]
    BY <1>1
  <2>2. PICK r : r = uiQueue'[d]
    OBVIOUS
  <2> HIDE DEF msg
  <2>3. /\ DOMAIN r = DOMAIN q \cup {Len(q) + 1} /\ Len(q) + 1 \notin DOMAIN q
        /\ \A k \in DOMAIN q : r[k] = q[k]
        /\ r[Len(q) + 1] = msg
    BY <1>1, <2>1, <2>2
  <2> QED
    BY <2>1, <2>2, <2>3
<1>3. ASSUME NEW e \in Device, NEW k \in Nat \ {0}, <<e, k>> # <<d, Len(uiQueue[d]) + 1>>
      PROVE  WorthAt(uiQueue'[e], k) = WorthAt(uiQueue[e], k)
  <2>1. CASE e # d
    BY <1>1, <2>1
  <2>2. CASE e = d /\ k \in DOMAIN uiQueue[d]
    BY <1>2, <2>2 DEF WorthAt
  <2>3. CASE e = d /\ k \notin DOMAIN uiQueue[d]
    BY <1>2, <1>3, <2>3 DEF WorthAt
  <2> QED
    BY <2>1, <2>2, <2>3
<1>4. WorthAt(uiQueue[d], Len(uiQueue[d]) + 1) = <<>>
  BY <1>2 DEF WorthAt
<1>5. WorthAt(uiQueue'[d], Len(uiQueue[d]) + 1) = IF what = "success" THEN <<"request">> ELSE cmds
  BY <1>2 DEF WorthAt, Worth
<1>6. ASSUME QueueFull, what = "data" => cmds # <<>> PROVE QueueFull'
  <2> SUFFICES ASSUME NEW e \in Device, NEW k \in DOMAIN uiQueue'[e],
                      uiQueue'[e][k].what = "data"
               PROVE  uiQueue'[e][k].cmds # <<>>
    BY DEF QueueFull
  <2>1. CASE e # d
    BY <1>1, <1>6, <2>1 DEF QueueFull
  <2>2. CASE e = d /\ k \in DOMAIN uiQueue[d]
    BY <1>2, <1>6, <2>2 DEF QueueFull
  <2>3. CASE e = d /\ k = Len(uiQueue[d]) + 1
    BY <1>2, <1>6, <2>3
  <2> QED
    BY <1>2, <2>1, <2>2, <2>3
<1> QED
  BY <1>1, <1>3, <1>4, <1>5, <1>6

\* The Looper takes a message: what the others say is as before.
LEMMA QueueFullTail ==
  ASSUME SocketsTypeOK, QueueFull, NEW d \in Device, uiQueue[d] # <<>>,
         uiQueue' = [uiQueue EXCEPT ![d] = Tail(@)]
  PROVE  QueueFull'
<1> SUFFICES ASSUME NEW e \in Device, NEW k \in DOMAIN uiQueue'[e], uiQueue'[e][k].what = "data"
             PROVE  uiQueue'[e][k].cmds # <<>>
  BY DEF QueueFull
<1>1. /\ uiQueue[d] \in Seq(Message) /\ uiQueue'[d] = Tail(uiQueue[d])
      /\ \A f \in Device : f # d => uiQueue'[f] = uiQueue[f]
  BY DEF SocketsTypeOK
<1>2. CASE e # d
  BY <1>1, <1>2 DEF QueueFull
<1>3. CASE e = d
  <2>1. PICK q \in Seq(Message) : q = uiQueue[d]
    BY <1>1
  <2>2. k \in DOMAIN Tail(q)
    BY <1>1, <1>3, <2>1
  <2>3. k + 1 \in DOMAIN q /\ Tail(q)[k] = q[k + 1]
    BY <2>1, <2>2
  <2> QED
    BY <1>1, <1>3, <2>1, <2>3 DEF QueueFull
<1> QED
  BY <1>2, <1>3

\* A step of a thread: nothing new wanted, nothing in its buffer, no input but
\* less, at most a failure told.
LEMMA ThreadQuiet ==
  ASSUME SocketsTypeOK, NEW d \in Device, NEW src,
         \A e \in Device, u \in Thread :
           /\ thread'[e][u].pc \in Attempting => thread[e][u].pc \in Attempting
           /\ thread'[e][u].chunk \in {thread[e][u].chunk, <<>>},
         \A e \in Device, r \in Conn : receiver'[e][r].chunk \in {receiver[e][r].chunk, <<>>},
         \A c \in Conn, s \in Side : conns'[c].inbox[s] \in {conns[c].inbox[s], <<>>},
         UNCHANGED <<sender, serverHandler>>,
         UNCHANGED uiQueue \/ uiQueue' = Posted(d, src, "fail", <<>>)
  PROVE  /\ QuietBut({})
         /\ QueueFull => QueueFull'
<1>1. ASSUME NEW e \in Device, NEW k \in Nat \ {0}
      PROVE  WorthAt(uiQueue'[e], k) \in {WorthAt(uiQueue[e], k), <<>>}
  <2>1. CASE uiQueue' = uiQueue
    BY <2>1
  <2>2. CASE uiQueue' = Posted(d, src, "fail", <<>>)
    <3>1. CASE <<e, k>> # <<d, Len(uiQueue[d]) + 1>>
      BY <2>2, <3>1, QueuePosted
    <3>2. CASE <<e, k>> = <<d, Len(uiQueue[d]) + 1>>
      <4>1. WorthAt(uiQueue'[d], Len(uiQueue[d]) + 1) = IF "fail" = "success" THEN <<"request">> ELSE <<>>
        BY <2>2, QueuePosted
      <4> QED
        BY <3>2, <4>1
    <3> QED
      BY <3>1, <3>2
  <2> QED
    BY <2>1, <2>2
<1>2. ASSUME NEW w \in Waypoint PROVE Quiet(w)
  BY <1>1, QuietPoint
<1>3. QueueFull => QueueFull'
  <2>1. CASE uiQueue' = uiQueue
    BY <2>1 DEF QueueFull
  <2>2. CASE uiQueue' = Posted(d, src, "fail", <<>>)
    <3>1. "fail" = "data" => <<>> # <<>>
      OBVIOUS
    <3> QED
      BY <2>2, <3>1, QueuePosted
  <2> QED
    BY <2>1, <2>2
<1> QED
  BY <1>2, <1>3 DEF QuietBut

\* A message that is worth what was held at a: it moves there.
LEMMA PostMoves ==
  ASSUME CallInv, NEW d \in Device, NEW src, NEW what, NEW cmds,
         uiQueue' = Posted(d, src, what, cmds), NEW a \in Waypoint, a[1] # "posted",
         Underway[a] = IF what = "success" THEN <<"request">> ELSE cmds,
         Underway'[a] = <<>>,
         \A w \in Waypoint : w[1] # "posted" /\ w # a => Quiet(w),
         NEW m
  PROVE  Carried(m)
<1>a. SocketsTypeOK
  BY DEF CallInv, ClientOK
<1> DEFINE b == <<"posted", d, Len(uiQueue[d]) + 1>>
<1>1. /\ b \in Waypoint /\ Underway[b] = <<>> /\ Underway'[b] = Underway[a] /\ a # b
  <2>1. Len(uiQueue[d]) + 1 \in Nat \ {0}
    BY <1>a, QueuePosted
  <2>2. b \in Waypoint /\ a # b
    BY <2>1, WaypointIs
  <2>3. Underway[b] = WorthAt(uiQueue[d], Len(uiQueue[d]) + 1)
    BY <2>1, WayIs
  <2>4. Underway'[b] = WorthAt(uiQueue'[d], Len(uiQueue[d]) + 1)
    BY <2>1, WayIsNext
  <2>5. /\ WorthAt(uiQueue[d], Len(uiQueue[d]) + 1) = <<>>
        /\ WorthAt(uiQueue'[d], Len(uiQueue[d]) + 1) = Underway[a]
    BY <1>a, QueuePosted
  <2> QED
    BY <2>2, <2>3, <2>4, <2>5
<1>2. ASSUME NEW w \in Waypoint, w # b, w # a PROVE Quiet(w)
  <2>1. CASE w[1] = "posted"
    <3>1. PICK e \in Device, k \in Nat \ {0} : w = <<"posted", e, k>>
      BY <2>1, WaypointIs
    <3>2. <<e, k>> # <<d, Len(uiQueue[d]) + 1>>
      BY <1>2, <3>1
    <3>3. WorthAt(uiQueue'[e], k) = WorthAt(uiQueue[e], k)
      BY <1>a, <3>2, QueuePosted
    <3> QED
      BY <3>1, <3>3, WayIs, WayIsNext DEF Quiet
  <2>2. CASE w[1] # "posted"
    BY <1>2, <2>2
  <2> QED
    BY <2>1, <2>2
<1> HIDE DEF b
<1>3. QuietBut({a, b})
  BY <1>2 DEF QuietBut
<1>4. PICK s \in Seq(Cmd) : s = Underway[a]
  BY WayType
<1>5. /\ Len(s) \in Nat /\ Len(s) <= Len(s) /\ SubSeq(s, 1, Len(s)) = s
      /\ SubSeq(s, Len(s) + 1, Len(s)) = <<>>
  OBVIOUS
<1>6. PICK n : n \in Nat /\ n <= Len(s) /\ SubSeq(s, 1, n) = s /\ SubSeq(s, n + 1, Len(s)) = <<>>
  BY <1>5
<1>7. /\ n <= Len(Underway[a])
      /\ Underway'[a] = SubSeq(Underway[a], n + 1, Len(Underway[a]))
      /\ \/ Underway'[b] = Underway[b] \o SubSeq(Underway[a], 1, n)
         \/ Underway'[b] = SubSeq(Underway[a], 1, n)
  BY <1>1, <1>4, <1>6
<1>8. a # b /\ b \in Waypoint /\ n \in Nat
  BY <1>1, <1>6
<1> QED
  BY <1>3, <1>7, <1>8, MoveCarried
-----------------------------------------------------------------------------
\* A read of n commands: they move from what is unread to the buffer b.
LEMMA ReadMoves ==
  ASSUME CallInv, NEW c \in Conn, NEW s \in Side, NEW n \in 1 .. Len(conns[c].inbox[s]),
         conns' = Taken(c, s, n), NEW b \in Waypoint, b[1] # "unread",
         Underway'[b] = SubSeq(conns[c].inbox[s], 1, n),
         \A w \in Waypoint : w[1] # "unread" /\ w # b => Quiet(w),
         NEW m
  PROVE  Carried(m)
<1> DEFINE a == <<"unread", c, s>>
           q == SubSeq(conns[c].inbox[s], n + 1, Len(conns[c].inbox[s]))
<1>1. conns[c] \in ConnRec /\ conns \in [Conn -> ConnRec] /\ conns' = [conns EXCEPT ![c].inbox[s] = q]
  BY DEF CallInv, ClientOK, SocketsTypeOK, Taken
<1>2. /\ conns'[c].inbox[s] = q
      /\ \A d \in Conn, x \in Side :
           <<d, x>> # <<c, s>> => conns'[d].inbox[x] = conns[d].inbox[x]
  <2> HIDE DEF q
  <2> QED
    BY <1>1 DEF ConnRec
<1>3. a \in Waypoint /\ a # b /\ Underway[a] = conns[c].inbox[s] /\ Underway'[a] = q
  BY <1>2, WaypointIs, WayIs, WayIsNext
<1>4. ASSUME NEW w \in Waypoint, w # a, w # b PROVE Quiet(w)
  <2>1. CASE w[1] = "unread"
    <3>1. PICK d \in Conn, x \in Side : w = <<"unread", d, x>>
      BY <2>1, WaypointIs
    <3>2. conns'[d].inbox[x] = conns[d].inbox[x]
      BY <1>2, <1>4, <3>1
    <3> QED
      BY <3>1, <3>2, WayIs, WayIsNext DEF Quiet
  <2>2. CASE w[1] # "unread"
    BY <1>4, <2>2
  <2> QED
    BY <2>1, <2>2
<1>5. conns[c].inbox[s] \in Seq(Cmd)
  BY <1>1 DEF ConnRec
<1>6. /\ n \in Nat /\ n <= Len(Underway[a])
      /\ Underway'[a] = SubSeq(Underway[a], n + 1, Len(Underway[a]))
      /\ \/ Underway'[b] = Underway[b] \o SubSeq(Underway[a], 1, n)
         \/ Underway'[b] = SubSeq(Underway[a], 1, n)
  BY <1>3, <1>5
<1> HIDE DEF a, q
<1>7. QuietBut({a, b})
  BY <1>4 DEF QuietBut
<1> QED
  BY <1>3, <1>6, <1>7, MoveCarried

LEMMA MarkedQuiet ==
  ASSUME conns \in [Conn -> ConnRec], NEW c \in Conn, conns' = [conns EXCEPT ![c].reset = TRUE]
  PROVE  ConnsQuiet
BY DEF ConnRec, ConnsQuiet

\* A write of the first command of a: it moves to what the other end has to read,
\* or it is lost.
LEMMA WriteMoves ==
  ASSUME CallInv, NEW a \in Waypoint, a[1] # "unread", Underway[a] # <<>>,
         Underway'[a] = Tail(Underway[a]), NEW c \in ConnRef, NEW s \in Side,
         conns' = Written(c, s, Head(Underway[a])),
         \A w \in Waypoint : w[1] # "unread" /\ w # a => Quiet(w),
         NEW m
  PROVE  Carried(m)
<1>a. conns \in [Conn -> ConnRec] /\ Other(s) \in Side /\ Underway[a] \in Seq(Cmd)
  BY OtherSide, WayType DEF CallInv, ClientOK, SocketsTypeOK
<1>1. ASSUME ConnsQuiet PROVE Carried(m)
  <2>1. ASSUME NEW w \in Waypoint, w # a PROVE Quiet(w)
    BY <1>1, <2>1, InboxStill DEF KindsQuiet
  <2>2. QuietBut({a})
    BY <2>1 DEF QuietBut
  <2> QED
    BY <2>2, LoseCarried
<1>2. CASE c = None \/ ~conns[c].open[s] \/ conns[c].reset
  <2>1. UNCHANGED conns
    BY <1>2 DEF Written
  <2> QED
    BY <1>1, <2>1, SameConns
<1>3. CASE ~(c = None \/ ~conns[c].open[s] \/ conns[c].reset)
  <2>1. c \in Conn
    BY <1>3 DEF ConnRef
  <2>2. CASE ~conns[c].open[Other(s)]
    <3>1. conns' = [conns EXCEPT ![c].reset = TRUE]
      BY <1>3, <2>2 DEF Written
    <3>2. ConnsQuiet
      BY <1>a, <2>1, <3>1, MarkedQuiet
    <3> QED
      BY <1>1, <3>2
  <2>3. CASE conns[c].open[Other(s)]
    <3> DEFINE b == <<"unread", c, Other(s)>>
               q == Append(conns[c].inbox[Other(s)], Head(Underway[a]))
    <3>1. conns' = [conns EXCEPT ![c].inbox[Other(s)] = q]
      BY <1>3, <2>3 DEF Written
    <3>2. /\ conns'[c].inbox[Other(s)] = q
          /\ \A d \in Conn, x \in Side :
               <<d, x>> # <<c, Other(s)>> => conns'[d].inbox[x] = conns[d].inbox[x]
      <4> HIDE DEF q
      <4> QED
        BY <1>a, <2>1, <3>1 DEF ConnRec
    <3>3. b \in Waypoint /\ a # b /\ Underway'[b] = Append(Underway[b], Head(Underway[a]))
      <4>1. b \in Waypoint /\ Underway[b] = conns[c].inbox[Other(s)]
        BY <1>a, <2>1, WaypointIs, WayIs
      <4>2. Underway'[b] = conns'[c].inbox[Other(s)]
        BY <1>a, <2>1, WayIsNext
      <4>3. a # b
        OBVIOUS
      <4> QED
        BY <3>2, <4>1, <4>2, <4>3
    <3>4. ASSUME NEW w \in Waypoint, w # a, w # b PROVE Quiet(w)
      <4>1. CASE w[1] = "unread"
        <5>1. PICK d \in Conn, x \in Side : w = <<"unread", d, x>>
          BY <4>1, WaypointIs
        <5>2. conns'[d].inbox[x] = conns[d].inbox[x]
          BY <3>2, <3>4, <5>1
        <5> QED
          BY <5>1, <5>2, WayIs, WayIsNext DEF Quiet
      <4>2. CASE w[1] # "unread"
        BY <3>4, <4>2
      <4> QED
        BY <4>1, <4>2
    <3> HIDE DEF b, q
    <3>5. QuietBut({a, b})
      BY <3>4 DEF QuietBut
    <3>6. PICK r \in Seq(Cmd) : r = Underway[a] /\ r # <<>>
      BY <1>a
    <3>7. PICK u \in Seq(Cmd) : u = Underway[b]
      BY <3>3, WayType
    <3>8. /\ 1 \in Nat /\ 1 <= Len(r) /\ Tail(r) = SubSeq(r, 1 + 1, Len(r))
          /\ Append(u, Head(r)) = u \o SubSeq(r, 1, 1)
      BY <3>6, <3>7
    <3>9. /\ 1 <= Len(Underway[a])
          /\ Underway'[a] = SubSeq(Underway[a], 1 + 1, Len(Underway[a]))
          /\ \/ Underway'[b] = Underway[b] \o SubSeq(Underway[a], 1, 1)
             \/ Underway'[b] = SubSeq(Underway[a], 1, 1)
      BY <3>3, <3>6, <3>7, <3>8
    <3> QED
      BY <3>3, <3>5, <3>8, <3>9, MoveCarried
  <2> QED
    BY <2>2, <2>3
<1> QED
  BY <1>2, <1>3

\* A thread of a sender: one command fewer to send.
LEMMA ClientSendDue ==
  ASSUME CausalInv, NEW d \in Device, NEW m \in Cmd, ClientSend(d, m)
  PROVE  ChunkFull' /\ Due'
<1>a. CallInv /\ ClientOK /\ ChunkFull /\ Due
  BY DEF CausalInv, CallInv
<1> DEFINE a == <<"asked", d, m>>
<1>1. /\ sender[d][m] \in Nat /\ sender[d][m] > 0 /\ sender'[d][m] = sender[d][m] - 1
      /\ \A e \in Device, x \in Cmd : <<e, x>> # <<d, m>> => sender'[e][x] = sender[e][x]
      /\ UNCHANGED <<uiQueue, thread, receiver, serverHandler, dialogs, histVars>>
      /\ conns' = Written(mOutputStream[d], "cli", m)
  BY <1>a DEF ClientSend, SenderThread, ClientOK, ClientTypeOK, serverVars, callVars
<1>2. ASSUME NEW k \in Nat, k > 0
      PROVE  /\ Times(k, m) # <<>> /\ Head(Times(k, m)) = m
             /\ Tail(Times(k, m)) = Times(k - 1, m)
  <2> DEFINE s == [i \in 1 .. k |-> m]
             r == [i \in 1 .. k - 1 |-> m]
  <2>1. s \in Seq(Cmd) /\ Len(s) = k /\ r \in Seq(Cmd) /\ Len(r) = k - 1
    BY <1>2
  <2>2. s[1] = m /\ s # <<>>
    BY <1>2
  <2>3. Tail(s) \in Seq(Cmd) /\ Len(Tail(s)) = k - 1 /\ \A i \in 1 .. k - 1 : Tail(s)[i] = s[i + 1]
    <3> HIDE DEF s
    <3> QED
      BY <1>2, <2>1, <2>2
  <2>4. \A i \in 1 .. k - 1 : Tail(s)[i] = r[i]
    BY <1>2, <2>3
  <2>5. Tail(s) = r
    <3> HIDE DEF s, r
    <3> QED
      BY <1>2, <2>1, <2>3, <2>4
  <2>6. Head(s) = m
    <3> HIDE DEF s
    <3> QED
      BY <2>1, <2>2
  <2> QED
    BY <2>2, <2>5, <2>6 DEF Times
<1>3. /\ a \in Waypoint /\ a[1] # "unread"
      /\ Underway[a] = Times(sender[d][m], m) /\ Underway'[a] = Times(sender[d][m] - 1, m)
  BY <1>1, WaypointIs, WayIs, WayIsNext
<1>4. /\ Underway[a] # <<>> /\ Underway'[a] = Tail(Underway[a]) /\ Head(Underway[a]) = m
  BY <1>1, <1>2, <1>3
<1>5. ASSUME NEW w \in Waypoint, w[1] # "unread", w # a PROVE Quiet(w)
  BY <1>1, <1>5, QuietPoint
<1>6. mOutputStream[d] \in ConnRef /\ "cli" \in Side
  BY <1>a, Commands DEF ClientOK, ClientTypeOK
<1> HIDE DEF a
<1>7. conns' = Written(mOutputStream[d], "cli", Head(Underway[a]))
  BY <1>1, <1>4
<1>8. Carried("request") /\ Carried("accept")
  BY <1>a, <1>3, <1>4, <1>5, <1>6, <1>7, WriteMoves
<1> QED
  BY <1>a, <1>1, <1>8, ChunkSame, DueKept

LEMMA ServerSendDue ==
  ASSUME CausalInv, NEW d \in Device, ServerSend(d)
  PROVE  ChunkFull' /\ Due'
<1>a. CallInv /\ ServerOK /\ ChunkFull /\ Due
  BY DEF CausalInv, CallInv
<1> DEFINE a == <<"reply", d, 0>>
<1>1. /\ serverHandler[d] # <<>> /\ serverHandler'[d] = Tail(serverHandler[d])
      /\ \A e \in Device : e # d => serverHandler'[e] = serverHandler[e]
      /\ UNCHANGED <<uiQueue, thread, sender, receiver, dialogs, histVars>>
      /\ conns' = Written(clientScoket[d], "srv", Head(serverHandler[d]))
  BY <1>a DEF ServerSend, SendThread, ServerOK, ServerTypeOK, clientVars, callVars
<1>2. /\ a \in Waypoint /\ a[1] # "unread"
      /\ Underway[a] = serverHandler[d] /\ Underway'[a] = serverHandler'[d]
  BY WaypointIs, WayIs, WayIsNext
<1>3. ASSUME NEW w \in Waypoint, w[1] # "unread", w # a PROVE Quiet(w)
  BY <1>1, <1>3, QuietPoint
<1>4. clientScoket[d] \in ConnRef /\ "srv" \in Side
  BY <1>a, Commands DEF ServerOK, ServerTypeOK
<1> HIDE DEF a
<1>5. /\ Underway[a] # <<>> /\ Underway'[a] = Tail(Underway[a])
      /\ conns' = Written(clientScoket[d], "srv", Head(Underway[a]))
  BY <1>1, <1>2
<1>6. Carried("request") /\ Carried("accept")
  BY <1>a, <1>2, <1>3, <1>4, <1>5, WriteMoves
<1> QED
  BY <1>a, <1>1, <1>6, ChunkSame, DueKept
-----------------------------------------------------------------------------
\* The threads of the clients want nothing new and read nothing.
ThreadCalm ==
  \A e \in Device, u \in Thread :
    /\ thread'[e][u].pc \in Attempting => thread[e][u].pc \in Attempting
    /\ thread'[e][u].chunk \in {thread[e][u].chunk, <<>>}
    /\ thread'[e][u].pc = "post" => /\ thread[e][u].pc = "post"
                                    /\ thread'[e][u].chunk = thread[e][u].chunk

LEMMA OneThread ==
  ASSUME ClientOK, NEW d \in Device, NEW t \in Thread, NEW q, thread' = [thread EXCEPT ![d][t] = q]
  PROVE  /\ thread'[d][t] = q
         /\ \A e \in Device, u \in Thread : <<e, u>> # <<d, t>> => thread'[e][u] = thread[e][u]
<1>1. thread \in [Device -> [Thread -> ThreadRec]]
  BY DEF ClientOK, ClientTypeOK
<1> QED
  BY <1>1

LEMMA OneCalm ==
  ASSUME ClientOK, NEW d \in Device, NEW t \in Thread, NEW q, thread' = [thread EXCEPT ![d][t] = q],
         q.pc \in Attempting => thread[d][t].pc \in Attempting,
         q.chunk \in {thread[d][t].chunk, <<>>}, q.pc # "post"
  PROVE  ThreadCalm
<1> SUFFICES ASSUME NEW e \in Device, NEW u \in Thread
             PROVE  /\ thread'[e][u].pc \in Attempting => thread[e][u].pc \in Attempting
                    /\ thread'[e][u].chunk \in {thread[e][u].chunk, <<>>}
                    /\ thread'[e][u].pc = "post" => /\ thread[e][u].pc = "post"
                                                    /\ thread'[e][u].chunk = thread[e][u].chunk
  BY DEF ThreadCalm
<1>1. CASE <<e, u>> = <<d, t>>
  <2>1. e = d /\ u = t
    BY <1>1
  <2>2. thread'[d][t] = q
    BY DEF ClientOK, ClientTypeOK
  <2> QED
    BY <2>1, <2>2
<1>2. CASE <<e, u>> # <<d, t>>
  <2>1. thread'[e][u] = thread[e][u]
    BY <1>2, OneThread
  <2> QED
    BY <2>1
<1> QED
  BY <1>1, <1>2

LEMMA GotoCalm ==
  ASSUME ClientOK, NEW d \in Device, NEW t \in Thread, NEW pc, Goto(d, t, pc), pc # "post",
         pc \in Attempting => thread[d][t].pc \in Attempting
  PROVE  ThreadCalm
<1> DEFINE q == [thread[d][t] EXCEPT !.pc = pc]
<1>1. thread \in [Device -> [Thread -> ThreadRec]] /\ thread[d][t] \in ThreadRec
  BY DEF ClientOK, ClientTypeOK
<1>2. q.pc = pc /\ q.chunk = thread[d][t].chunk
  BY <1>1 DEF ThreadRec
<1>3. thread' = [thread EXCEPT ![d][t] = q]
  BY <1>1 DEF Goto
<1> HIDE DEF q
<1> QED
  BY <1>2, <1>3, OneCalm

LEMMA FinishCalm ==
  ASSUME ClientOK, NEW d \in Device, NEW t \in Thread, Finish(d, t)
  PROVE  ThreadCalm
<1> DEFINE q == [Unborn EXCEPT !.pc = "done"]
<1>1. q.pc = "done" /\ q.chunk = <<>>
  BY DEF Unborn
<1>2. thread' = [thread EXCEPT ![d][t] = q] /\ q.pc \notin Attempting
  BY <1>1 DEF Finish, Attempting
<1> HIDE DEF q
<1> QED
  BY <1>1, <1>2, OneCalm

\* What a thread of a client does beside posting what it has read or announcing
\* a connection.
LEMMA CalmDue ==
  ASSUME CausalInv, NEW d \in Device, ThreadCalm,
         UNCHANGED <<sender, serverVars, callVars, histVars>>,
         \A c \in Conn, s \in Side : conns'[c].inbox[s] \in {conns[c].inbox[s], <<>>},
         UNCHANGED uiQueue \/ uiQueue' = Posted(d, "client", "fail", <<>>)
  PROVE  ChunkFull' /\ Due'
<1>1. SocketsTypeOK /\ ChunkFull /\ Due
  BY DEF CausalInv, CallInv, ClientOK
<1>2. UNCHANGED <<receiver, serverHandler, dialogs>>
  BY DEF serverVars, callVars
<1>3. QuietBut({}) /\ (QueueFull => QueueFull')
  BY <1>1, <1>2, ThreadQuiet DEF ThreadCalm
<1>4. ThreadFull' /\ ReceiverFull'
  BY <1>1, <1>2 DEF ThreadCalm, ChunkFull, ThreadFull, ReceiverFull
<1> QED
  BY <1>1, <1>2, <1>3, <1>4, QuietDue DEF ChunkFull

LEMMA QuietInbox ==
  ASSUME ConnsQuiet
  PROVE  \A c \in Conn, s \in Side : conns'[c].inbox[s] \in {conns[c].inbox[s], <<>>}
BY DEF ConnsQuiet

\* The client thread on its way to a connection, and between two reads.
LEMMA AttemptDue ==
  ASSUME CausalInv, NEW d \in Device, NEW t \in Thread, ClientThread(d, t),
         \/ Start(d, t) \/ CloseOld(d, t) \/ ForgetOld(d, t) \/ Dial(d, t)
         \/ Check(d, t) \/ GetStreams(d, t) \/ Loop(d, t)
  PROVE  ChunkFull' /\ Due'
<1>a. ClientOK /\ SocketsTypeOK /\ conns \in [Conn -> ConnRec]
  BY DEF CausalInv, CallInv, ClientOK, SocketsTypeOK
<1>b. UNCHANGED <<sender, serverVars, callVars, histVars>>
  BY DEF ClientThread, Start, CloseOld, ForgetOld, Dial, Check, GetStreams, Loop
\* All that a step leaves to show.
<1>c. ASSUME ThreadCalm, ConnsQuiet,
             UNCHANGED uiQueue \/ uiQueue' = Posted(d, "client", "fail", <<>>)
      PROVE  ChunkFull' /\ Due'
  BY <1>b, <1>c, QuietInbox, CalmDue
<1>d. ASSUME Crash(d), UNCHANGED thread PROVE ChunkFull' /\ Due'
  <2>1. ConnsQuiet /\ UNCHANGED uiQueue
    BY <1>a, <1>d, CrashQuiet DEF Crash
  <2>2. ThreadCalm
    BY <1>d DEF ThreadCalm
  <2> QED
    BY <1>c, <2>1, <2>2
<1>1. CASE Start(d, t)
  <2>1. ThreadCalm
    BY <1>a, <1>1, GotoCalm DEF Start, At, Attempting
  <2>2. ConnsQuiet /\ UNCHANGED uiQueue
    BY <1>1, SameConns DEF Start, sockVars
  <2> QED
    BY <1>c, <2>1, <2>2
<1>2. CASE CloseOld(d, t) /\ mSocket[d] # None
  <2>1. ThreadCalm
    BY <1>a, <1>2, GotoCalm DEF CloseOld, At, Attempting
  <2>2. ConnsQuiet /\ UNCHANGED uiQueue
    BY <1>a, <1>2, Commands, ClosedQuiet DEF CloseOld
  <2> QED
    BY <1>c, <2>1, <2>2
<1>3. CASE ForgetOld(d, t)
  <2>1. ThreadCalm
    BY <1>a, <1>3, GotoCalm DEF ForgetOld, At, Attempting
  <2>2. ConnsQuiet /\ UNCHANGED uiQueue
    BY <1>3, SameConns DEF ForgetOld, sockVars
  <2> QED
    BY <1>c, <2>1, <2>2
<1>4. CASE Fail(d, t) /\ UNCHANGED conns
  BY <1>a, <1>c, <1>4, FinishCalm, SameConns DEF Fail
<1>5. ASSUME NEW c \in Conn, Dial(d, t),
             conns' = [conns EXCEPT ![c] = Established(d, thread[d][t].to)],
             Goto(d, t, "check"), UNCHANGED uiQueue
      PROVE  ChunkFull' /\ Due'
  <2>1. ThreadCalm
    BY <1>a, <1>5, GotoCalm DEF Dial, At, Attempting
  <2>2. ASSUME NEW b \in Conn, NEW s \in Side
        PROVE  conns'[b].inbox[s] \in {conns[b].inbox[s], <<>>}
    BY <1>a, <1>5 DEF Established, Unused
  <2> QED
    BY <1>b, <1>5, <2>1, <2>2, CalmDue
<1>6. CASE Dial(d, t)
  BY <1>4, <1>5, <1>6 DEF Dial
<1>7. CASE Check(d, t) /\ isConnect(d)
  <2>1. ThreadCalm
    BY <1>a, <1>7, GotoCalm DEF Check, At, Attempting
  <2> QED
    BY <1>c, <1>7, <2>1, SameConns DEF Check
<1>8. CASE GetStreams(d, t) /\ Goto(d, t, "announce") /\ UNCHANGED sockVars
  <2>1. ThreadCalm
    BY <1>a, <1>8, GotoCalm DEF GetStreams, At, Attempting
  <2> QED
    BY <1>c, <1>8, <2>1, SameConns DEF sockVars
<1>9. CASE Loop(d, t)
  <2> DEFINE q == [thread[d][t] EXCEPT !.pc = "read", !.stream = mInputStream[d]]
  <2>1. CASE thread' = [thread EXCEPT ![d][t] = q]
    <3>1. thread[d][t] \in ThreadRec
      BY <1>a DEF ClientOK, ClientTypeOK
    <3>2. q.pc = "read" /\ q.chunk = thread[d][t].chunk
      BY <3>1 DEF ThreadRec
    <3>3. "read" \notin Attempting
      BY DEF Attempting
    <3> HIDE DEF q
    <3>4. ThreadCalm
      BY <1>a, <2>1, <3>2, <3>3, OneCalm
    <3> QED
      BY <1>c, <1>9, <3>4, SameConns DEF Loop, sockVars
  <2>2. CASE Finish(d, t)
    BY <1>a, <1>c, <1>9, <2>2, FinishCalm, SameConns DEF Loop, sockVars
  <2> QED
    BY <1>9, <2>1, <2>2 DEF Loop
<1>10. CASE CloseOld(d, t) /\ mSocket[d] = None
  BY <1>d, <1>10 DEF CloseOld
<1>11. CASE Check(d, t) /\ ~isConnect(d)
  BY <1>4, <1>11 DEF Check, NoSocket
<1>12. CASE GetStreams(d, t)
  BY <1>4, <1>8, <1>d, <1>12 DEF GetStreams
<1> QED
  BY <1>1, <1>2, <1>3, <1>6, <1>7, <1>9, <1>10, <1>11, <1>12

\* Connected: the request the attempt wanted passes to the message that says so.
LEMMA AnnounceDue ==
  ASSUME CausalInv, NEW d \in Device, NEW t \in Thread, ClientThread(d, t), Announce(d, t)
  PROVE  ChunkFull' /\ Due'
<1>a. CallInv /\ ClientOK /\ SocketsTypeOK /\ ChunkFull /\ Due
  BY DEF CausalInv, CallInv, ClientOK
<1>b. UNCHANGED <<conns, sender, receiver, serverHandler, dialogs, histVars>>
  BY DEF ClientThread, Announce, serverVars, callVars
<1> DEFINE q == [thread[d][t] EXCEPT !.pc = "loop"]
           a == <<"attempt", d, t>>
<1>1. /\ q.pc = "loop" /\ q.chunk = thread[d][t].chunk /\ thread[d][t].pc = "announce"
      /\ thread' = [thread EXCEPT ![d][t] = q]
  <2>1. thread \in [Device -> [Thread -> ThreadRec]] /\ thread[d][t] \in ThreadRec
    BY <1>a DEF ClientOK, ClientTypeOK
  <2> QED
    BY <2>1 DEF Announce, At, Goto, ThreadRec
<1>2. ThreadCalm
  BY <1>a, GotoCalm DEF Announce, At, Attempting
<1> HIDE DEF q
<1>3. /\ a \in Waypoint /\ a[1] # "posted"
      /\ Underway[a] = <<"request">> /\ Underway'[a] = <<>>
  <2>1. Wanted(thread[d][t]) = <<"request">>
    BY <1>1 DEF Wanted, Attempting
  <2>2. thread'[d][t] = q
    BY <1>a, <1>1 DEF ClientOK, ClientTypeOK
  <2>3. Wanted(q) = <<>>
    BY <1>1 DEF Wanted, Attempting
  <2> QED
    BY <2>1, <2>2, <2>3, WaypointIs, WayIs, WayIsNext
<1>4. ASSUME NEW w \in Waypoint, w[1] # "posted", w # a PROVE Quiet(w)
  <2>1. \A e \in Device, u \in Thread :
          /\ thread'[e][u].pc \in Attempting => thread[e][u].pc \in Attempting
          /\ thread'[e][u].chunk \in {thread[e][u].chunk, <<>>}
    BY <1>2 DEF ThreadCalm
  <2> QED
    BY <1>b, <1>4, <2>1, QuietPoint
<1>5. uiQueue' = Posted(d, "client", "success", <<>>)
  BY DEF Announce
<1> HIDE DEF a
<1>6. Underway[a] = IF "success" = "success" THEN <<"request">> ELSE <<>>
  BY <1>3
<1>7. Carried("request") /\ Carried("accept")
  BY <1>a, <1>3, <1>4, <1>5, <1>6, PostMoves
<1>8. ChunkFull'
  <2>1. "success" = "data" => <<>> # <<>>
    OBVIOUS
  <2>2. QueueFull'
    BY <1>a, <1>5, <2>1, QueuePosted DEF ChunkFull
  <2> QED
    BY <1>a, <1>b, <1>2, <2>2 DEF ThreadCalm, ChunkFull, ThreadFull, ReceiverFull
<1> QED
  BY <1>a, <1>b, <1>7, <1>8, DueKept

\* What the client thread read passes to the message.
LEMMA PostDataDue ==
  ASSUME CausalInv, NEW d \in Device, NEW t \in Thread, ClientThread(d, t), PostData(d, t)
  PROVE  ChunkFull' /\ Due'
<1>a. CallInv /\ ClientOK /\ SocketsTypeOK /\ ChunkFull /\ Due
  BY DEF CausalInv, CallInv, ClientOK
<1>b. UNCHANGED <<conns, sender, receiver, serverHandler, dialogs, histVars>>
  BY DEF ClientThread, PostData, serverVars, callVars
<1> DEFINE q == [thread[d][t] EXCEPT !.pc = "loop", !.chunk = <<>>]
           a == <<"client", d, t>>
<1>1. /\ q.pc = "loop" /\ q.chunk = <<>> /\ thread[d][t].pc = "post"
      /\ thread' = [thread EXCEPT ![d][t] = q]
  <2>1. thread \in [Device -> [Thread -> ThreadRec]] /\ thread[d][t] \in ThreadRec
    BY <1>a DEF ClientOK, ClientTypeOK
  <2> QED
    BY <2>1 DEF PostData, At, ThreadRec
<1> HIDE DEF q
<1>2. ThreadCalm
  BY <1>a, <1>1, OneCalm DEF Attempting
<1>3. /\ a \in Waypoint /\ a[1] # "posted"
      /\ Underway[a] = thread[d][t].chunk /\ Underway'[a] = <<>>
  <2>1. thread'[d][t] = q
    BY <1>a, <1>1 DEF ClientOK, ClientTypeOK
  <2> QED
    <3>1. thread'[d][t].chunk = <<>>
      BY <1>1, <2>1
    <3> QED
      BY <3>1, WaypointIs, WayIs, WayIsNext
<1>4. ASSUME NEW w \in Waypoint, w[1] # "posted", w # a PROVE Quiet(w)
  <2>1. \A e \in Device, u \in Thread :
          /\ thread'[e][u].pc \in Attempting => thread[e][u].pc \in Attempting
          /\ thread'[e][u].chunk \in {thread[e][u].chunk, <<>>}
    BY <1>2 DEF ThreadCalm
  <2> QED
    BY <1>b, <1>4, <2>1, QuietPoint
<1>5. uiQueue' = Posted(d, "client", "data", thread[d][t].chunk)
  BY DEF PostData, What
<1>6. Underway[a] = IF "data" = "success" THEN <<"request">> ELSE thread[d][t].chunk
  BY <1>3
<1> HIDE DEF a
<1>7. Carried("request") /\ Carried("accept")
  BY <1>a, <1>3, <1>4, <1>5, <1>6, PostMoves
<1>8. ChunkFull'
  <2>1. thread[d][t].chunk # <<>>
    BY <1>a, <1>1 DEF ChunkFull, ThreadFull
  <2>2. QueueFull'
    BY <1>a, <1>5, <2>1, QueuePosted DEF ChunkFull
  <2> QED
    BY <1>a, <1>b, <1>2, <2>2 DEF ThreadCalm, ChunkFull, ThreadFull, ReceiverFull
<1> QED
  BY <1>a, <1>b, <1>7, <1>8, DueKept

\* What was unread passes to the client thread that reads.
LEMMA ReadDue ==
  ASSUME CausalInv, NEW d \in Device, NEW t \in Thread, ClientThread(d, t), Read(d, t)
  PROVE  ChunkFull' /\ Due'
<1>a. CallInv /\ ClientOK /\ SocketsTypeOK /\ ChunkFull /\ Due
  BY DEF CausalInv, CallInv, ClientOK
<1>b. UNCHANGED <<sender, serverVars, callVars, histVars>> /\ thread[d][t] \in ThreadRec
  BY <1>a DEF ClientThread, Read, ClientOK, ClientTypeOK
<1>0. PICK c \in Conn : c = thread[d][t].stream
  BY <1>a, <1>b DEF Read, At, ClientOK, StreamsSet, Streaming, Reading, ThreadRec, ConnRef
<1>1. ASSUME NEW n \in 1 .. Len(conns[c].inbox["cli"]), conns' = Taken(c, "cli", n),
             thread' = [thread EXCEPT ![d][t] =
               [@ EXCEPT !.pc = "post", !.stream = None,
                         !.chunk = Copy(conns[c].inbox["cli"], n)]],
             UNCHANGED uiQueue
      PROVE  ChunkFull' /\ Due'
  <2> DEFINE r == SubSeq(conns[c].inbox["cli"], 1, n)
             q == [thread[d][t] EXCEPT !.pc = "post", !.stream = None, !.chunk = r]
             b == <<"client", d, t>>
  <2>1. q.pc = "post" /\ q.chunk = r /\ thread' = [thread EXCEPT ![d][t] = q]
    <3>1. thread \in [Device -> [Thread -> ThreadRec]]
      BY <1>a DEF ClientOK, ClientTypeOK
    <3>2. thread' = [thread EXCEPT ![d][t] = q]
      BY <1>1, <3>1 DEF Copy
    <3> HIDE DEF r
    <3>3. q.pc = "post" /\ q.chunk = r
      BY <1>b DEF ThreadRec
    <3> QED
      BY <3>2, <3>3
  <2>2. r # <<>>
    <3>1. conns[c].inbox["cli"] \in Seq(Cmd)
      BY <1>a, Commands DEF SocketsTypeOK, ConnRec
    <3> QED
      BY <1>1, <3>1
  <2> HIDE DEF r, q
  <2>3. /\ thread'[d][t] = q
        /\ \A e \in Device, u \in Thread : <<e, u>> # <<d, t>> => thread'[e][u] = thread[e][u]
    BY <1>a, <2>1 DEF ClientOK, ClientTypeOK
  <2>4. b \in Waypoint /\ b[1] # "unread" /\ Underway'[b] = r
    <3>1. thread'[d][t].chunk = r
      BY <2>1, <2>3
    <3> QED
      BY <3>1, WaypointIs, WayIsNext
  <2>5. "post" \notin Attempting
    BY DEF Attempting
  <2>6. ASSUME NEW w \in Waypoint, w[1] # "unread", w # b PROVE Quiet(w)
    <3>1. UNCHANGED <<receiver, serverHandler>>
      BY <1>b DEF serverVars
    <3>2. \A e \in Device, u \in Thread : thread'[e][u].pc \in Attempting => thread[e][u].pc \in Attempting
      BY <2>1, <2>3, <2>5
    <3>3. \A e \in Device, u \in Thread :
            w = <<"client", e, u>> => thread'[e][u].chunk \in {thread[e][u].chunk, <<>>}
      BY <2>3, <2>6
    <3> QED
      BY <1>1, <1>b, <2>6, <3>1, <3>2, <3>3, QuietPoint
  <2> HIDE DEF b
  <2>7. Underway'[b] = SubSeq(conns[c].inbox["cli"], 1, n)
    BY <2>4 DEF r
  <2>8. Carried("request") /\ Carried("accept")
    BY <1>a, <1>1, <2>4, <2>6, <2>7, Commands, ReadMoves
  <2>9. ChunkFull'
    <3>1. ThreadFull'
      BY <1>a, <2>1, <2>2, <2>3 DEF ChunkFull, ThreadFull
    <3> QED
      BY <1>a, <1>b, <1>1, <3>1 DEF ChunkFull, ReceiverFull, QueueFull, serverVars
  <2> QED
    BY <1>a, <1>b, <2>8, <2>9, DueKept DEF callVars
<1>2. CASE /\ thread' = [thread EXCEPT ![d][t] = [@ EXCEPT !.pc = "loop", !.stream = None]]
           /\ UNCHANGED <<conns, uiQueue>>
  <2> DEFINE q == [thread[d][t] EXCEPT !.pc = "loop", !.stream = None]
  <2>1. q.pc = "loop" /\ q.chunk = thread[d][t].chunk /\ thread' = [thread EXCEPT ![d][t] = q]
    <3>1. thread \in [Device -> [Thread -> ThreadRec]]
      BY <1>a DEF ClientOK, ClientTypeOK
    <3> QED
      BY <1>b, <1>2, <3>1 DEF ThreadRec
  <2> HIDE DEF q
  <2>2. ThreadCalm
    BY <1>a, <2>1, OneCalm DEF Attempting
  <2> QED
    BY <1>b, <1>2, <2>2, SameConns, QuietInbox, CalmDue
<1>3. CASE Fail(d, t) /\ UNCHANGED conns
  <2>1. ThreadCalm
    BY <1>a, <1>3, FinishCalm DEF Fail
  <2> QED
    BY <1>b, <1>3, <2>1, SameConns, QuietInbox, CalmDue DEF Fail
<1> QED
  BY <1>0, <1>1, <1>2, <1>3 DEF Read

LEMMA ClientThreadDue ==
  ASSUME CausalInv, NEW d \in Device, NEW t \in Thread, ClientThread(d, t)
  PROVE  ChunkFull' /\ Due'
BY AttemptDue, AnnounceDue, PostDataDue, ReadDue DEF ClientThread, SocketThread
-----------------------------------------------------------------------------
\* The receivers of the servers read nothing.
ReceiverCalm ==
  \A e \in Device, u \in Conn :
    /\ receiver'[e][u].chunk \in {receiver[e][u].chunk, <<>>}
    /\ receiver'[e][u].pc = "post" => /\ receiver[e][u].pc = "post"
                                      /\ receiver'[e][u].chunk = receiver[e][u].chunk

LEMMA OneReceiver ==
  ASSUME ServerOK, NEW d \in Device, NEW r \in Conn, NEW q, receiver' = [receiver EXCEPT ![d][r] = q],
         q.chunk \in {receiver[d][r].chunk, <<>>}, q.pc # "post"
  PROVE  ReceiverCalm
<1> SUFFICES ASSUME NEW e \in Device, NEW u \in Conn
             PROVE  /\ receiver'[e][u].chunk \in {receiver[e][u].chunk, <<>>}
                    /\ receiver'[e][u].pc = "post" => /\ receiver[e][u].pc = "post"
                                                      /\ receiver'[e][u].chunk = receiver[e][u].chunk
  BY DEF ReceiverCalm
<1>0. receiver \in [Device -> [Conn -> ReceiverRec]]
  BY DEF ServerOK, ServerTypeOK
<1>1. CASE e = d /\ u = r
  <2>1. receiver'[d][r] = q
    BY <1>0
  <2> QED
    BY <1>1, <2>1
<1>2. CASE ~(e = d /\ u = r)
  <2>1. receiver'[e][u] = receiver[e][u]
    BY <1>0, <1>2
  <2> QED
    BY <2>1
<1> QED
  BY <1>1, <1>2

\* A receive thread that only changes where it is.
LEMMA ReceiverDue ==
  ASSUME CausalInv, NEW d \in Device, ReceiverCalm,
         UNCHANGED <<clientVars, serverHandler, callVars, histVars>>, ConnsQuiet,
         UNCHANGED uiQueue \/ uiQueue' = Posted(d, "server", "fail", <<>>)
  PROVE  ChunkFull' /\ Due'
<1>1. SocketsTypeOK /\ ChunkFull /\ Due
  BY DEF CausalInv, CallInv, ClientOK
<1>2. UNCHANGED <<thread, sender, dialogs>>
  BY DEF clientVars, callVars
<1>3. \A e \in Device, r \in Conn : receiver'[e][r].chunk \in {receiver[e][r].chunk, <<>>}
  BY DEF ReceiverCalm
<1>4. QuietBut({}) /\ (QueueFull => QueueFull')
  BY <1>1, <1>2, <1>3, QuietInbox, ThreadQuiet
<1>5. ThreadFull' /\ ReceiverFull'
  BY <1>1, <1>2 DEF ReceiverCalm, ChunkFull, ThreadFull, ReceiverFull
<1> QED
  BY <1>1, <1>2, <1>4, <1>5, QuietDue DEF ChunkFull

\* The server accepts a connection and starts a receive thread.
LEMMA ServerAcceptDue ==
  ASSUME CausalInv, NEW d \in Device, ServerAccept(d)
  PROVE  ChunkFull' /\ Due'
<1>a. ServerOK /\ SocketsTypeOK /\ conns \in [Conn -> ConnRec]
  BY DEF CausalInv, CallInv, ClientOK, SocketsTypeOK
<1>b. UNCHANGED <<clientVars, serverHandler, callVars, histVars>>
  BY DEF ServerAccept, ServerThread, Accept, SetAddress, StartReceiver
<1>1. CASE Accept(d)
  <2>1. PICK c \in Conn : conns' = [conns EXCEPT ![c].accepted = TRUE]
    BY <1>1 DEF Accept
  <2>2. ConnsQuiet
    BY <1>a, <2>1 DEF ConnRec, ConnsQuiet
  <2>3. ReceiverCalm
    BY <1>1 DEF Accept, ReceiverCalm
  <2> QED
    BY <1>1, <1>b, <2>2, <2>3, ReceiverDue DEF Accept
<1>2. ASSUME Crash(d), UNCHANGED receiver PROVE ChunkFull' /\ Due'
  <2>1. ConnsQuiet /\ UNCHANGED uiQueue
    BY <1>a, <1>2, CrashQuiet DEF Crash
  <2>2. ReceiverCalm
    BY <1>2 DEF ReceiverCalm
  <2> QED
    BY <1>b, <2>1, <2>2, ReceiverDue
<1>3. CASE SetAddress(d) /\ clientScoket[d] # None
  <2>1. ReceiverCalm /\ ConnsQuiet /\ UNCHANGED uiQueue
    BY <1>3, SameConns DEF SetAddress, ReceiverCalm, sockVars
  <2> QED
    BY <1>b, <2>1, ReceiverDue
<1>4. CASE StartReceiver(d) /\ clientScoket[d] # None
  <2>0. PICK c \in Conn : c = clientScoket[d]
    BY <1>a, <1>4 DEF ServerOK, ServerTypeOK, ConnRef
  <2> DEFINE q == [receiver[d][c] EXCEPT !.pc = "loop"]
  <2>1. q.pc = "loop" /\ q.chunk = receiver[d][c].chunk /\ receiver' = [receiver EXCEPT ![d][c] = q]
    <3>1. receiver \in [Device -> [Conn -> ReceiverRec]] /\ receiver[d][c] \in ReceiverRec
      BY <1>a DEF ServerOK, ServerTypeOK
    <3> QED
      BY <1>4, <2>0, <3>1 DEF StartReceiver, ReceiverRec
  <2> HIDE DEF q
  <2>2. ReceiverCalm
    BY <1>a, <2>1, OneReceiver
  <2>3. ConnsQuiet /\ UNCHANGED uiQueue
    BY <1>4, SameConns DEF StartReceiver, sockVars
  <2> QED
    BY <1>b, <2>2, <2>3, ReceiverDue
<1>5. CASE SetAddress(d) /\ clientScoket[d] = None
  BY <1>2, <1>5 DEF SetAddress
<1>6. CASE StartReceiver(d) /\ clientScoket[d] = None
  BY <1>2, <1>6 DEF StartReceiver
<1> QED
  BY <1>1, <1>3, <1>4, <1>5, <1>6 DEF ServerAccept, ServerThread

\* What was unread passes to the receive thread that reads.
LEMMA RcvReadDue ==
  ASSUME CausalInv, NEW d \in Device, NEW r \in Conn, ServerReceive(d, r), RcvRead(d, r)
  PROVE  ChunkFull' /\ Due'
<1>a. CallInv /\ ServerOK /\ SocketsTypeOK /\ ChunkFull /\ Due
  BY DEF CausalInv, CallInv, ClientOK
<1>b. /\ UNCHANGED <<clientVars, serverHandler, callVars, histVars>>
      /\ receiver \in [Device -> [Conn -> ReceiverRec]] /\ receiver[d][r] \in ReceiverRec
  BY <1>a DEF ServerReceive, RcvRead, ServerOK, ServerTypeOK
<1>c. ASSUME NEW pc \in {"loop", "done"}
      PROVE  [NoReceiver EXCEPT !.pc = pc].pc = pc /\ [NoReceiver EXCEPT !.pc = pc].chunk = <<>>
  BY DEF NoReceiver
<1>0. PICK c \in Conn : c = receiver[d][r].stream
  BY <1>a, <1>b DEF RcvRead, ServerOK, ServerStreams, ReceiverRec, ConnRef
<1>1. ASSUME NEW n \in 1 .. Len(conns[c].inbox["srv"]), conns' = Taken(c, "srv", n),
             receiver' = [receiver EXCEPT ![d][r] =
               [pc |-> "post", stream |-> None, chunk |-> RcvCopy(conns[c].inbox["srv"], n)]],
             UNCHANGED uiQueue
      PROVE  ChunkFull' /\ Due'
  <2> DEFINE s == SubSeq(conns[c].inbox["srv"], 1, n)
             q == [pc |-> "post", stream |-> None, chunk |-> s]
             b == <<"server", d, r>>
  <2>1. q.pc = "post" /\ q.chunk = s /\ receiver' = [receiver EXCEPT ![d][r] = q]
    BY <1>1 DEF RcvCopy
  <2>2. s # <<>>
    <3>1. conns[c].inbox["srv"] \in Seq(Cmd)
      BY <1>a, Commands DEF SocketsTypeOK, ConnRec
    <3> QED
      BY <1>1, <3>1
  <2> HIDE DEF s, q
  <2>3. /\ receiver'[d][r] = q
        /\ \A e \in Device, u \in Conn : <<e, u>> # <<d, r>> => receiver'[e][u] = receiver[e][u]
    BY <1>b, <2>1
  <2>4. b \in Waypoint /\ b[1] # "unread" /\ Underway'[b] = s
    <3>1. receiver'[d][r].chunk = s
      BY <2>1, <2>3
    <3> QED
      BY <3>1, WaypointIs, WayIsNext
  <2>6. ASSUME NEW w \in Waypoint, w[1] # "unread", w # b PROVE Quiet(w)
    <3>1. UNCHANGED <<thread, sender>>
      BY <1>b DEF clientVars
    <3>3. \A e \in Device, u \in Conn :
            w = <<"server", e, u>> => receiver'[e][u].chunk \in {receiver[e][u].chunk, <<>>}
      BY <2>3, <2>6
    <3> QED
      BY <1>1, <1>b, <2>6, <3>1, <3>3, QuietPoint
  <2> HIDE DEF b
  <2>7. Underway'[b] = SubSeq(conns[c].inbox["srv"], 1, n)
    BY <2>4 DEF s
  <2>8. Carried("request") /\ Carried("accept")
    BY <1>a, <1>1, <2>4, <2>6, <2>7, Commands, ReadMoves
  <2>9. ChunkFull'
    <3>1. ReceiverFull'
      BY <1>a, <2>1, <2>2, <2>3 DEF ChunkFull, ReceiverFull
    <3> QED
      BY <1>a, <1>b, <1>1, <3>1 DEF ChunkFull, ThreadFull, QueueFull, clientVars
  <2> QED
    BY <1>a, <1>b, <2>8, <2>9, DueKept DEF callVars
<1>2. ASSUME NEW pc \in {"loop", "done"},
             receiver' = [receiver EXCEPT ![d][r] = [NoReceiver EXCEPT !.pc = pc]], UNCHANGED conns,
             UNCHANGED uiQueue \/ uiQueue' = Posted(d, "server", "fail", <<>>)
      PROVE  ChunkFull' /\ Due'
  <2> DEFINE q == [NoReceiver EXCEPT !.pc = pc]
  <2>1. q.pc # "post" /\ q.chunk = <<>> /\ receiver' = [receiver EXCEPT ![d][r] = q]
    BY <1>c, <1>2
  <2> HIDE DEF q
  <2>2. ReceiverCalm
    BY <1>a, <2>1, OneReceiver
  <2> QED
    BY <1>b, <1>2, <2>2, SameConns, ReceiverDue
<1> QED
  BY <1>0, <1>1, <1>2 DEF RcvRead

\* What a receive thread read passes to the message.
LEMMA RcvPostDue ==
  ASSUME CausalInv, NEW d \in Device, NEW r \in Conn, ServerReceive(d, r), RcvPost(d, r)
  PROVE  ChunkFull' /\ Due'
<1>a. CallInv /\ ServerOK /\ SocketsTypeOK /\ ChunkFull /\ Due
  BY DEF CausalInv, CallInv, ClientOK
<1>b. /\ UNCHANGED <<conns, thread, sender, serverHandler, dialogs, histVars>>
      /\ receiver \in [Device -> [Conn -> ReceiverRec]]
  BY <1>a DEF ServerReceive, RcvPost, clientVars, callVars, ServerOK, ServerTypeOK
<1> DEFINE q == [NoReceiver EXCEPT !.pc = "loop"]
           a == <<"server", d, r>>
<1>1. /\ q.pc = "loop" /\ q.chunk = <<>> /\ receiver[d][r].pc = "post"
      /\ receiver' = [receiver EXCEPT ![d][r] = q]
  BY DEF RcvPost, NoReceiver
<1> HIDE DEF q
<1>2. ReceiverCalm
  BY <1>a, <1>1, OneReceiver
<1>3. /\ a \in Waypoint /\ a[1] # "posted"
      /\ Underway[a] = receiver[d][r].chunk /\ Underway'[a] = <<>>
  <2>1. receiver'[d][r] = q
    BY <1>b, <1>1
  <2>2. receiver'[d][r].chunk = <<>>
    BY <1>1, <2>1
  <2> QED
    BY <2>2, WaypointIs, WayIs, WayIsNext
<1>4. ASSUME NEW w \in Waypoint, w[1] # "posted", w # a PROVE Quiet(w)
  <2>1. \A e \in Device, u \in Conn : receiver'[e][u].chunk \in {receiver[e][u].chunk, <<>>}
    BY <1>2 DEF ReceiverCalm
  <2> QED
    BY <1>b, <1>4, <2>1, QuietPoint
<1>5. uiQueue' = Posted(d, "server", "data", receiver[d][r].chunk)
  BY DEF RcvPost, RcvWhat
<1>6. Underway[a] = IF "data" = "success" THEN <<"request">> ELSE receiver[d][r].chunk
  BY <1>3
<1> HIDE DEF a
<1>7. Carried("request") /\ Carried("accept")
  BY <1>a, <1>3, <1>4, <1>5, <1>6, PostMoves
<1>8. ChunkFull'
  <2>1. receiver[d][r].chunk # <<>>
    BY <1>a, <1>1 DEF ChunkFull, ReceiverFull
  <2>2. QueueFull'
    BY <1>a, <1>5, <2>1, QueuePosted DEF ChunkFull
  <2> QED
    BY <1>a, <1>b, <1>2, <2>2 DEF ReceiverCalm, ChunkFull, ThreadFull, ReceiverFull
<1> QED
  BY <1>a, <1>b, <1>7, <1>8, DueKept

LEMMA ServerReceiveDue ==
  ASSUME CausalInv, NEW d \in Device, NEW r \in Conn, ServerReceive(d, r)
  PROVE  ChunkFull' /\ Due'
<1>1. CASE RcvLoop(d, r)
  <2>a. ServerOK /\ receiver \in [Device -> [Conn -> ReceiverRec]] /\ receiver[d][r] \in ReceiverRec
    BY DEF CausalInv, CallInv, ServerOK, ServerTypeOK
  <2> DEFINE p == [receiver[d][r] EXCEPT !.pc = "read", !.stream = inputStream[d]]
             u == [NoReceiver EXCEPT !.pc = "done"]
  <2>1. PICK q \in {p, u} : receiver' = [receiver EXCEPT ![d][r] = q]
    BY <1>1, <2>a DEF RcvLoop
  <2>2. q.chunk \in {receiver[d][r].chunk, <<>>} /\ q.pc # "post"
    <3>1. p.chunk = receiver[d][r].chunk /\ p.pc = "read"
      BY <2>a DEF ReceiverRec
    <3>2. u.chunk = <<>> /\ u.pc = "done"
      BY DEF NoReceiver
    <3> QED
      BY <3>1, <3>2
  <2>3. ReceiverCalm
    <3> HIDE DEF p, u
    <3> QED
      BY <2>a, <2>1, <2>2, OneReceiver
  <2> QED
    BY <1>1, <2>3, SameConns, ReceiverDue DEF RcvLoop, ServerReceive, sockVars
<1> QED
  BY <1>1, RcvReadDue, RcvPostDue DEF ServerReceive, ReceiveThread

\* A lost link drops what was unread on it.
LEMMA LinkLossDue ==
  ASSUME CausalInv, NEW c \in Conn, LinkLoss(c)
  PROVE  ChunkFull' /\ Due'
<1>1. ConnsQuiet /\ UNCHANGED uiQueue
  BY ResetQuiet DEF LinkLoss, LinkReset, CausalInv, CallInv, ClientOK, SocketsTypeOK
<1>2. QuietBut({})
  BY <1>1, ClientStill, ServerStill, InboxStill, QueueStill, AllQuiet DEF LinkLoss
<1> QED
  BY <1>1, <1>2, QuietDue, ChunkSame DEF LinkLoss, CausalInv, callVars, clientVars, serverVars
-----------------------------------------------------------------------------
\* The main Looper of d takes a message, whose commands are no longer under way.
LEMMA TakenMessage ==
  ASSUME CallInv, NEW d \in Device, uiQueue[d] # <<>>, uiQueue' = [uiQueue EXCEPT ![d] = Tail(@)],
         \A w \in Waypoint : w[1] # "posted" => Quiet(w), NEW m
  PROVE  /\ ExistsInjection(SpotsNext(m), SpotsBut(Waypoint, Underway, m, <<"posted", d, 1>>))
         /\ Carried(m)
<1>a. SocketsTypeOK
  BY DEF CallInv, ClientOK
<1>1. PICK T : T = Underway'
  OBVIOUS
<1>2. /\ DOMAIN T = Waypoint
      /\ \A k \in Nat \ {0} : T[<<"posted", d, k>>] = Underway[<<"posted", d, k + 1>>]
      /\ \A w \in Waypoint : ~(w[1] = "posted" /\ w[2] = d) => T[w] = Underway[w] \/ T[w] = <<>>
  <2>1. \A w \in Waypoint : ~(w[1] = "posted" /\ w[2] = d) => Quiet(w)
    BY <1>a, QueuePopped
  <2> QED
    BY <1>a, <1>1, <2>1, QueuePopped, WayIsNext DEF Quiet
<1>3. ExistsInjection(SpotsNext(m), SpotsBut(Waypoint, Underway, m, <<"posted", d, 1>>))
  BY <1>1, <1>2, PopSpots DEF SpotsNext
<1>4. SpotsBut(Waypoint, Underway, m, <<"posted", d, 1>>) \subseteq SpotsOf(m)
  BY DEF SpotsBut, SpotsOf
<1>5. ExistsInjection(SpotsBut(Waypoint, Underway, m, <<"posted", d, 1>>), SpotsOf(m))
  BY <1>4, InjectSubset
<1>6. Carried(m)
  BY <1>3, <1>5, Fun_ExistsInjTransitive DEF Carried
<1> QED
  BY <1>3, <1>6

\* The first command of a message handled, and what is left without it.
LEMMA HandledSpot ==
  ASSUME CallInv, NEW d \in Device, uiQueue[d] # <<>>, Worth(Head(uiQueue[d])) # <<>>,
         NEW m, m = Head(Worth(Head(uiQueue[d])))
  PROVE  /\ <<<<"posted", d, 1>>, 1>> \in SpotsOf(m)
         /\ SpotsBut(Waypoint, Underway, m, <<"posted", d, 1>>)
              \subseteq SpotsOf(m) \ {<<<<"posted", d, 1>>, 1>>}
<1> DEFINE a == <<"posted", d, 1>>
<1>1. /\ uiQueue[d] \in Seq(Message) /\ Len(uiQueue[d]) > 0
  BY DEF CallInv, ClientOK, SocketsTypeOK
<1>2. Underway[a] = Worth(Head(uiQueue[d])) /\ a \in Waypoint
  BY <1>1, WayIs, WaypointIs DEF WorthAt
<1> HIDE DEF a
<1>3. PICK S : S = Underway
  OBVIOUS
<1>4. S[a] \in Seq(Cmd) /\ S[a] # <<>> /\ Head(S[a]) = m /\ DOMAIN S = Waypoint
  BY <1>2, <1>3, WayType, WayIs
<1>5. 1 \in DOMAIN S[a] /\ S[a][1] = m
  BY <1>4
<1>6. <<a, 1>> \in Spots(Waypoint, S, m)
  BY <1>2, <1>4, <1>5, SpotIs
<1> QED
  BY <1>3, <1>6 DEF a, SpotsOf, SpotsBut

\* What a message that no command of comes to anything leaves.
LEMMA DroppedDue ==
  ASSUME CausalInv, NEW d \in Device, uiQueue[d] # <<>>, uiQueue' = [uiQueue EXCEPT ![d] = Tail(@)],
         \A w \in Waypoint : w[1] # "posted" => Quiet(w),
         UNCHANGED histVars
  PROVE  /\ QueueFull' /\ RequestDue' /\ AcceptDue'
         /\ UNCHANGED dialogs => Due'
<1>a. CallInv /\ SocketsTypeOK /\ QueueFull /\ Due
  BY DEF CausalInv, CallInv, ClientOK, ChunkFull
<1>1. Carried("request") /\ Carried("accept")
  BY <1>a, TakenMessage
<1> QED
  BY <1>a, <1>1, QueueFullTail, CarriedDue DEF Due, histVars

\* The handler of a failed connection.
LEMMA ClientFailDue ==
  ASSUME CausalInv, NEW d \in Device, ClientFail(d)
  PROVE  ChunkFull' /\ Due'
<1>a. ClientOK /\ ChunkFull /\ uiQueue[d] # <<>> /\ uiQueue' = [uiQueue EXCEPT ![d] = Tail(@)]
  BY DEF CausalInv, CallInv, ClientFail, NextMessage
<1>1. disconnect(d) /\ UNCHANGED <<serverVars, dialogs, histVars>>
  BY DEF ClientFail
<1>2. /\ KindsQuiet(ClientKinds) /\ KindsQuiet({"unread"}) /\ KindsQuiet(ServerKinds)
      /\ \A e \in Device, t \in Thread : /\ thread'[e][t].pc = thread[e][t].pc
                                         /\ thread'[e][t].chunk = thread[e][t].chunk
  BY <1>a, <1>1, DisconnectStill, InboxStill, ServerStill
<1>3. \A w \in Waypoint : w[1] # "posted" => Quiet(w)
  BY <1>2, AllKinds DEF KindsQuiet
<1>4. QueueFull' /\ Due'
  BY <1>a, <1>1, <1>3, DroppedDue
<1> QED
  BY <1>a, <1>1, <1>2, <1>4 DEF ChunkFull, ThreadFull, ReceiverFull, serverVars

\* The handler of a server that failed.
LEMMA ServerFailDue ==
  ASSUME CausalInv, NEW d \in Device, ServerFail(d)
  PROVE  ChunkFull' /\ Due'
<1>a. /\ SocketsTypeOK /\ ChunkFull /\ uiQueue[d] # <<>>
      /\ uiQueue' = [uiQueue EXCEPT ![d] = Tail(@)]
  BY DEF CausalInv, CallInv, ClientOK, ServerFail, NextMessage
<1>1. srvDisconnect(d) /\ UNCHANGED <<clientVars, dialogs, histVars>>
  BY DEF ServerFail
<1>2. KindsQuiet(ClientKinds) /\ KindsQuiet({"unread"}) /\ KindsQuiet(ServerKinds) /\ UNCHANGED receiver
  BY <1>a, <1>1, SrvDisconnectStill, InboxStill, ClientStill
<1>3. \A w \in Waypoint : w[1] # "posted" => Quiet(w)
  BY <1>2, AllKinds DEF KindsQuiet
<1>4. QueueFull' /\ Due'
  BY <1>a, <1>1, <1>3, DroppedDue
<1> QED
  BY <1>a, <1>1, <1>2, <1>4 DEF ChunkFull, ThreadFull, ReceiverFull, clientVars

\* A handler that leaves the sockets and both endpoints alone.
LEMMA HandlerQuiet ==
  ASSUME UNCHANGED <<conns, clientVars, serverVars>>
  PROVE  \A w \in Waypoint : w[1] # "posted" => Quiet(w)
<1>1. KindsQuiet(ClientKinds) /\ KindsQuiet({"unread"}) /\ KindsQuiet(ServerKinds)
  BY ClientStill, SameConns, InboxStill, ServerStill
<1> QED
  BY <1>1, AllKinds DEF KindsQuiet

\* A hangup read: dialogs go.
LEMMA ServerHangUpDue ==
  ASSUME CausalInv, NEW d \in Device, ServerHangUp(d)
  PROVE  ChunkFull' /\ Due'
<1>a. /\ CallOK /\ TopShows /\ ChunkFull /\ Due /\ uiQueue[d] # <<>>
      /\ uiQueue' = [uiQueue EXCEPT ![d] = Tail(@)]
  BY DEF CausalInv, CallInv, ServerHangUp, NextMessage
<1>1. UNCHANGED <<conns, clientVars, serverVars, histVars>> /\ DismissTop(d)
  BY DEF ServerHangUp
<1>2. \A w \in Waypoint : w[1] # "posted" => Quiet(w)
  BY <1>1, HandlerQuiet
<1>3. QueueFull' /\ RequestDue' /\ AcceptDue' /\ (UNCHANGED dialogs => Due')
  BY <1>a, <1>1, <1>2, DroppedDue
<1>4. ShownDue'
  <2>1. CASE dialogTop[d]
    <3>1. Dismissed(d) /\ dialogs[d] > 0
      BY <1>a, <1>1, <2>1 DEF DismissTop, TopShows
    <3> QED
      BY <1>a, <1>1, <3>1, ShownFewest DEF Due, histVars
  <2>2. CASE ~dialogTop[d]
    BY <1>1, <1>3, <2>2 DEF DismissTop, Due
  <2> QED
    BY <2>1, <2>2
<1>5. ThreadFull' /\ ReceiverFull'
  BY <1>a, <1>1 DEF ChunkFull, ThreadFull, ReceiverFull, clientVars, serverVars
<1> QED
  BY <1>3, <1>4, <1>5 DEF ChunkFull, Due

\* A request handled is a dialog: the connect it came of is spent.
LEMMA ServerRequestDue ==
  ASSUME CausalInv, NEW d \in Device, ServerRequest(d)
  PROVE  ChunkFull' /\ Due'
<1>a. /\ CallInv /\ SocketsTypeOK /\ CallOK /\ ChunkFull /\ QueueFull /\ Due /\ uiQueue[d] # <<>>
      /\ uiQueue' = [uiQueue EXCEPT ![d] = Tail(@)] /\ Head(uiQueue[d]).what = "data"
      /\ Head(Head(uiQueue[d]).cmds) = "request"
  BY DEF CausalInv, CallInv, ClientOK, ServerRequest, NextMessage, ChunkFull
<1>1. /\ UNCHANGED <<conns, clientVars, serverVars, dials, accepts, starts>>
      /\ rings' = rings + 1 /\ dialogs' = [dialogs EXCEPT ![d] = @ + 1]
  BY DEF ServerRequest
<1>2. \A w \in Waypoint : w[1] # "posted" => Quiet(w)
  BY <1>1, HandlerQuiet
<1>3. Carried("accept") /\ QueueFull'
  BY <1>a, <1>2, TakenMessage, QueueFullTail
<1>4. Worth(Head(uiQueue[d])) # <<>> /\ "request" = Head(Worth(Head(uiQueue[d])))
  <2>1. Head(uiQueue[d]).cmds # <<>>
    <3>1. uiQueue[d] \in Seq(Message)
      BY <1>a DEF SocketsTypeOK
    <3>2. 1 \in DOMAIN uiQueue[d] /\ uiQueue[d][1] = Head(uiQueue[d])
      BY <1>a, <3>1
    <3> QED
      BY <1>a, <3>2 DEF QueueFull
  <2> QED
    BY <1>a, <2>1 DEF Worth
<1> DEFINE x == <<<<"posted", d, 1>>, 1>>
<1>5. /\ x \in SpotsOf("request")
      /\ SpotsBut(Waypoint, Underway, "request", <<"posted", d, 1>>) \subseteq SpotsOf("request") \ {x}
  BY <1>a, <1>4, HandledSpot
<1>6. ExistsInjection(SpotsNext("request"),
                      SpotsBut(Waypoint, Underway, "request", <<"posted", d, 1>>))
  BY <1>a, <1>2, TakenMessage
<1> HIDE DEF x
<1>7. ExistsInjection(SpotsNext("request"), SpotsOf("request") \ {x})
  BY <1>5, <1>6, InjectSubset, Fun_ExistsInjTransitive
<1>8. rings \in Nat /\ dials \in Nat /\ accepts \in Nat
  BY <1>a DEF CallOK
<1>9. rings + 1 <= dials /\ ExistsInjection(SpotsOf("request") \ {x}, rings + 2 .. dials)
  BY <1>a, <1>5, <1>8, InjectLess DEF Due, RequestDue
<1>10. RequestDue'
  <2>1. ExistsInjection(SpotsNext("request"), rings + 2 .. dials)
    BY <1>7, <1>9, Fun_ExistsInjTransitive
  <2>2. rings + 1 + 1 = rings + 2
    BY <1>8
  <2> QED
    BY <1>1, <1>9, <2>1, <2>2 DEF RequestDue, SpotsOf, SpotsNext
<1>11. ShownDue'
  <2>1. PICK P : P = Shown
    OBVIOUS
  <2>2. PICK R : R = Shown'
    OBVIOUS
  <2>3. /\ dialogs'[d] = dialogs[d] + 1 /\ dialogs[d] \in Nat
        /\ \A e \in Device : e # d => dialogs'[e] = dialogs[e]
    BY <1>a, <1>1 DEF CallOK
  <2>4. R \subseteq P \cup {<<d, dialogs[d] + 1>>}
    <3>1. ASSUME NEW e \in Device, NEW k \in Nat, k \in 1 .. dialogs'[e]
          PROVE  k \in 1 .. dialogs[e] \/ (e = d /\ k = dialogs[d] + 1)
      BY <2>3, <3>1
    <3>2. ASSUME NEW u \in Shown' PROVE u \in Shown \/ u = <<d, dialogs[d] + 1>>
      <4>1. PICK e \in Device, k \in Nat : u = <<e, k>> /\ k \in 1 .. dialogs'[e]
        BY DEF Shown
      <4> QED
        BY <3>1, <4>1 DEF Shown
    <3> QED
      BY <2>1, <2>2, <3>2
  <2>5. accepts <= rings /\ ExistsInjection(P, accepts + 1 .. rings)
    BY <1>a, <2>1 DEF Due, ShownDue
  <2>6. ExistsInjection(R, accepts + 1 .. rings + 1)
    BY <1>8, <2>4, <2>5, MoreRoom
  <2> QED
    BY <1>1, <1>8, <2>2, <2>5, <2>6 DEF ShownDue
<1>12. ThreadFull' /\ ReceiverFull' /\ AcceptDue'
  BY <1>a, <1>1, <1>3, CarriedDue DEF ChunkFull, ThreadFull, ReceiverFull, clientVars, serverVars, Due
<1> QED
  BY <1>3, <1>10, <1>11, <1>12 DEF ChunkFull, Due

\* An accept handled is a start: the press it came of is spent.
LEMMA ClientDataDue ==
  ASSUME CausalInv, NEW d \in Device, ClientData(d)
  PROVE  ChunkFull' /\ Due'
<1>a. /\ CallInv /\ ClientOK /\ SocketsTypeOK /\ CallOK /\ ChunkFull /\ QueueFull /\ Due
      /\ uiQueue[d] # <<>>
      /\ uiQueue' = [uiQueue EXCEPT ![d] = Tail(@)] /\ Head(uiQueue[d]).what = "data"
  BY DEF CausalInv, CallInv, ClientOK, ClientData, NextMessage, ChunkFull
<1>1. UNCHANGED <<serverVars, dialogs, dials, rings, accepts>>
  BY DEF ClientData
<1>2. /\ \A w \in Waypoint : w[1] # "posted" => Quiet(w)
      /\ \A e \in Device, t \in Thread : /\ thread'[e][t].pc = thread[e][t].pc
                                         /\ thread'[e][t].chunk = thread[e][t].chunk
  <2>1. CASE disconnect(d)
    <3>1. KindsQuiet(ClientKinds) /\ KindsQuiet({"unread"}) /\ KindsQuiet(ServerKinds)
      BY <1>a, <1>1, <2>1, DisconnectStill, InboxStill, ServerStill
    <3>2. \A w \in Waypoint : w[1] # "posted" => Quiet(w)
      BY <3>1, AllKinds DEF KindsQuiet
    <3> QED
      BY <1>a, <2>1, <3>2, DisconnectStill
  <2>2. CASE UNCHANGED <<conns, clientVars>>
    BY <1>1, <2>2, HandlerQuiet DEF clientVars
  <2> QED
    BY <2>1, <2>2 DEF ClientData
<1>3. Carried("request") /\ Carried("accept") /\ QueueFull'
  BY <1>a, <1>2, TakenMessage, QueueFullTail
<1>4. ChunkFull' /\ RequestDue' /\ ShownDue'
  BY <1>a, <1>1, <1>2, <1>3, CarriedDue DEF ChunkFull, ThreadFull, ReceiverFull, serverVars, Due
<1>5. CASE Head(Head(uiQueue[d]).cmds) = "accept"
  <2>1. Worth(Head(uiQueue[d])) # <<>> /\ "accept" = Head(Worth(Head(uiQueue[d])))
    <3>1. uiQueue[d] \in Seq(Message)
      BY <1>a DEF SocketsTypeOK
    <3>2. 1 \in DOMAIN uiQueue[d] /\ uiQueue[d][1] = Head(uiQueue[d])
      BY <1>a, <3>1
    <3>3. Head(uiQueue[d]).cmds # <<>>
      BY <1>a, <3>2 DEF QueueFull
    <3> QED
      BY <1>5, <1>a, <3>3 DEF Worth
  <2> DEFINE x == <<<<"posted", d, 1>>, 1>>
  <2>2. /\ x \in SpotsOf("accept")
        /\ SpotsBut(Waypoint, Underway, "accept", <<"posted", d, 1>>) \subseteq SpotsOf("accept") \ {x}
    BY <1>a, <2>1, HandledSpot
  <2>3. ExistsInjection(SpotsNext("accept"),
                        SpotsBut(Waypoint, Underway, "accept", <<"posted", d, 1>>))
    BY <1>a, <1>2, TakenMessage
  <2> HIDE DEF x
  <2>4. ExistsInjection(SpotsNext("accept"), SpotsOf("accept") \ {x})
    BY <2>2, <2>3, InjectSubset, Fun_ExistsInjTransitive
  <2>5. starts \in Nat /\ accepts \in Nat
    BY <1>a DEF CallOK
  <2>6. starts + 1 <= accepts /\ ExistsInjection(SpotsOf("accept") \ {x}, starts + 2 .. accepts)
    BY <1>a, <2>2, <2>5, InjectLess DEF Due, AcceptDue
  <2>7. ExistsInjection(SpotsNext("accept"), starts + 2 .. accepts)
    BY <2>4, <2>6, Fun_ExistsInjTransitive
  <2>8. starts + 1 + 1 = starts + 2 /\ starts' = starts + 1
    BY <1>5, <2>5 DEF ClientData
  <2>9. AcceptDue'
    BY <1>1, <2>6, <2>7, <2>8 DEF AcceptDue, SpotsOf, SpotsNext
  <2> QED
    BY <1>4, <2>9 DEF Due
<1>6. CASE Head(Head(uiQueue[d]).cmds) # "accept"
  <2>1. UNCHANGED starts
    BY <1>6 DEF ClientData
  <2> QED
    BY <1>1, <1>3, <1>4, <1>a, <2>1, CarriedDue DEF Due
<1> QED
  BY <1>5, <1>6

\* A connection announced becomes the request asked for it.
LEMMA ClientSuccessDue ==
  ASSUME CausalInv, NEW d \in Device, ClientSuccess(d)
  PROVE  ChunkFull' /\ Due'
<1>a. /\ CallInv /\ ClientOK /\ SocketsTypeOK /\ ChunkFull /\ QueueFull /\ Due
      /\ uiQueue[d] # <<>>
      /\ uiQueue' = [uiQueue EXCEPT ![d] = Tail(@)] /\ Head(uiQueue[d]).what = "success"
  BY DEF CausalInv, CallInv, ClientOK, ClientSuccess, NextMessage, ChunkFull
<1>1. sendByteCmd(d, "request") /\ UNCHANGED <<conns, serverVars, dialogs, histVars>>
  BY DEF ClientSuccess, Ask, callVars
<1> DEFINE a == <<"posted", d, 1>>
           b == <<"asked", d, "request">>
<1>2. /\ Underway'[b] = Append(Underway[b], "request") /\ b \in Waypoint
      /\ \A w \in Waypoint : w[1] # "posted" /\ w # b => Quiet(w)
  <2>1. KindsQuiet({"unread"}) /\ KindsQuiet(ServerKinds)
    BY <1>1, SameConns, InboxStill, ServerStill
  <2>2. /\ Underway'[b] = Append(Underway[b], "request")
        /\ \A w \in Waypoint : w[1] \in ClientKinds /\ w # b => Quiet(w)
    BY <1>a, <1>1, Commands, SendGrows
  <2>3. b \in Waypoint
    BY Commands, WaypointIs
  <2> QED
    BY <2>1, <2>2, <2>3, AllKinds DEF KindsQuiet
<1>3. PICK S : S = Underway
  OBVIOUS
<1>4. PICK T : T = Underway'
  OBVIOUS
\* What there would be without the request.
<1>5. PICK M : M = [w \in Waypoint |-> IF w = b THEN S[w] ELSE T[w]]
  OBVIOUS
<1>6. S \in [Waypoint -> Seq(Cmd)] /\ DOMAIN T = Waypoint /\ DOMAIN M = Waypoint
  <2>1. DOMAIN M = Waypoint
    BY <1>5
  <2>2. S \in [Waypoint -> Seq(Cmd)] /\ DOMAIN T = Waypoint
    BY <1>3, <1>4, <1>a, WayType, WayIsNext
  <2> QED
    BY <2>1, <2>2
<1>7. /\ M[b] = S[b] /\ T[b] = Append(M[b], "request")
      /\ \A w \in Waypoint : w # b => T[w] = M[w]
  BY <1>2, <1>3, <1>4, <1>5
<1>8. /\ \A k \in Nat \ {0} : M[<<"posted", d, k>>] = S[<<"posted", d, k + 1>>]
      /\ \A w \in Waypoint : ~(w[1] = "posted" /\ w[2] = d) => M[w] = S[w] \/ M[w] = <<>>
  <2>1. ASSUME NEW k \in Nat \ {0} PROVE M[<<"posted", d, k>>] = S[<<"posted", d, k + 1>>]
    <3>1. <<"posted", d, k>> \in Waypoint /\ <<"posted", d, k>> # b
      BY WaypointIs
    <3>2. T[<<"posted", d, k>>] = S[<<"posted", d, k + 1>>]
      BY <1>a, <1>3, <1>4, QueuePopped
    <3> QED
      BY <1>7, <3>1, <3>2
  <2>2. ASSUME NEW w \in Waypoint, ~(w[1] = "posted" /\ w[2] = d)
        PROVE  M[w] = S[w] \/ M[w] = <<>>
    <3>1. CASE w = b
      BY <1>7, <3>1
    <3>2. CASE w # b
      <4>1. Quiet(w)
        BY <1>a, <1>2, <2>2, <3>2, QueuePopped
      <4> QED
        BY <1>3, <1>4, <1>7, <3>2, <4>1 DEF Quiet
    <3> QED
      BY <3>1, <3>2
  <2> QED
    BY <2>1, <2>2
<1>9. M \in [Waypoint -> Seq(Cmd)]
  <2>1. ASSUME NEW w \in Waypoint PROVE M[w] \in Seq(Cmd)
    <3>1. CASE w[1] = "posted" /\ w[2] = d
      <4>1. PICK k \in Nat \ {0} : w = <<"posted", d, k>>
        BY <3>1, WaypointIs
      <4>2. <<"posted", d, k + 1>> \in Waypoint
        <5>1. k + 1 \in Nat \ {0}
          OBVIOUS
        <5> QED
          BY <5>1, WaypointIs
      <4> QED
        BY <1>6, <1>8, <4>1, <4>2
    <3>2. CASE ~(w[1] = "posted" /\ w[2] = d)
      <4>1. <<>> \in Seq(Cmd)
        OBVIOUS
      <4> QED
        BY <1>6, <1>8, <3>2, <4>1
    <3> QED
      BY <3>1, <3>2
  <2>2. M = [w \in Waypoint |-> M[w]]
    BY <1>5
  <2> QED
    BY <2>1, <2>2
<1>10. ASSUME NEW m PROVE ExistsInjection(Spots(Waypoint, M, m), SpotsBut(Waypoint, S, m, a))
  BY <1>3, <1>6, <1>8, PopSpots
<1> HIDE DEF a, b
<1>11. Grown(Waypoint, M, T, b, "request")
  BY <1>6, <1>7 DEF Grown
<1>12. ASSUME NEW m, NEW x \in Spots(Waypoint, T, m)
       PROVE  x \in Spots(Waypoint, M, m) \/ (x = <<b, Len(M[b]) + 1>> /\ m = "request")
  BY <1>2, <1>9, <1>11, AppendSpots
<1>13. Carried("request")
  <2>1. <<a, 1>> \in SpotsOf("request")
    <3>1. Worth(Head(uiQueue[d])) = <<"request">>
      BY <1>a DEF Worth
    <3>2. <<"request">> # <<>> /\ "request" = Head(<<"request">>)
      OBVIOUS
    <3> QED
      BY <1>a, <3>1, <3>2, HandledSpot DEF a
  <2>2. PICK Q : Q = SpotsBut(Waypoint, S, "request", a)
    OBVIOUS
  <2>3. <<a, 1>> \notin Q /\ Q \cup {<<a, 1>>} \subseteq SpotsOf("request")
    BY <1>3, <2>1, <2>2 DEF SpotsBut, SpotsOf
  <2>4. Spots(Waypoint, T, "request") \subseteq Spots(Waypoint, M, "request") \cup {<<b, Len(M[b]) + 1>>}
    BY <1>12
  <2>5. ExistsInjection(Spots(Waypoint, T, "request"), Q \cup {<<a, 1>>})
    BY <1>10, <2>2, <2>3, <2>4, InjectMore
  <2>6. ExistsInjection(Spots(Waypoint, T, "request"), SpotsOf("request"))
    BY <2>3, <2>5, InjectSubset, Fun_ExistsInjTransitive
  <2> QED
    BY <1>4, <2>6 DEF Carried, SpotsNext
<1>14. Carried("accept")
  <2>1. Spots(Waypoint, T, "accept") \subseteq Spots(Waypoint, M, "accept")
    BY <1>12
  <2>2. SpotsBut(Waypoint, S, "accept", a) \subseteq SpotsOf("accept")
    BY <1>3 DEF SpotsBut, SpotsOf
  <2>3. ExistsInjection(Spots(Waypoint, T, "accept"), SpotsBut(Waypoint, S, "accept", a))
    BY <1>10, <2>1, InjectSubset, Fun_ExistsInjTransitive
  <2>4. ExistsInjection(Spots(Waypoint, T, "accept"), SpotsOf("accept"))
    BY <2>2, <2>3, InjectSubset, Fun_ExistsInjTransitive
  <2> QED
    BY <1>4, <2>4 DEF Carried, SpotsNext
<1>15. ChunkFull'
  BY <1>a, <1>1, QueueFullTail DEF ChunkFull, ThreadFull, ReceiverFull, sendByteCmd, serverVars
<1> QED
  BY <1>a, <1>1, <1>13, <1>14, <1>15, DueKept

LEMMA LooperDue ==
  ASSUME CausalInv, NEW d \in Device, Looper(d)
  PROVE  ChunkFull' /\ Due'
BY ClientFailDue, ClientSuccessDue, ClientDataDue, ServerFailDue, ServerRequestDue,
   ServerHangUpDue DEF Looper
-----------------------------------------------------------------------------
LEMMA CausalInvInit == Init => CausalInv
<1> SUFFICES ASSUME Init PROVE CausalInv
  OBVIOUS
<1>1. CallInv
  BY CallInvInit
<1>2. /\ thread = [d \in Device |-> [t \in Thread |-> Unborn]]
      /\ sender = [d \in Device |-> [m \in Cmd |-> 0]]
      /\ conns = [c \in Conn |-> Unused] /\ uiQueue = [d \in Device |-> <<>>]
      /\ receiver = [d \in Device |-> [c \in Conn |-> NoReceiver]]
      /\ serverHandler = [d \in Device |-> <<>>] /\ dialogs = [d \in Device |-> 0]
      /\ dials = 0 /\ rings = 0 /\ accepts = 0 /\ starts = 0
  BY DEF Init, NoCallYet, SocketsInit, ClientInit, ServerInit
<1>3. ChunkFull
  BY <1>2 DEF ChunkFull, ThreadFull, ReceiverFull, QueueFull, Unborn, NoReceiver
<1>4. ASSUME NEW w \in Waypoint PROVE Underway[w] = <<>>
  <2>1. ASSUME NEW d \in Device, NEW t \in Thread
        PROVE  Underway[<<"attempt", d, t>>] = <<>> /\ Underway[<<"client", d, t>>] = <<>>
    <3>1. thread[d][t] = Unborn
      BY <1>2
    <3>2. Wanted(Unborn) = <<>> /\ Unborn.chunk = <<>>
      BY DEF Wanted, Unborn, Attempting
    <3> QED
      BY <3>1, <3>2, WayIs
  <2>2. ASSUME NEW d \in Device, NEW m \in Cmd PROVE Underway[<<"asked", d, m>>] = <<>>
    <3>1. sender[d][m] = 0 /\ Times(0, m) = <<>>
      BY <1>2 DEF Times
    <3> QED
      BY <3>1, WayIs
  <2>3. ASSUME NEW c \in Conn, NEW s \in Side PROVE Underway[<<"unread", c, s>>] = <<>>
    <3>1. conns[c].inbox[s] = <<>>
      BY <1>2 DEF Unused
    <3> QED
      BY <3>1, WayIs
  <2>4. ASSUME NEW d \in Device, NEW r \in Conn PROVE Underway[<<"server", d, r>>] = <<>>
    <3>1. receiver[d][r].chunk = <<>>
      BY <1>2 DEF NoReceiver
    <3> QED
      BY <3>1, WayIs
  <2>5. ASSUME NEW d \in Device, NEW k \in Nat \ {0} PROVE Underway[<<"posted", d, k>>] = <<>>
    <3>1. WorthAt(uiQueue[d], k) = <<>>
      BY <1>2 DEF WorthAt
    <3> QED
      BY <3>1, WayIs
  <2>6. ASSUME NEW d \in Device PROVE Underway[<<"reply", d, 0>>] = <<>>
    BY <1>2, WayIs
  <2> DEFINE Nothing(h) == Underway[h] = <<>>
  <2>7. /\ \A d \in Device, t \in Thread : Nothing(<<"attempt", d, t>>) /\ Nothing(<<"client", d, t>>)
        /\ \A d \in Device, m \in Cmd : Nothing(<<"asked", d, m>>)
        /\ \A c \in Conn, s \in Side : Nothing(<<"unread", c, s>>)
        /\ \A d \in Device, r \in Conn : Nothing(<<"server", d, r>>)
        /\ \A d \in Device, k \in Nat \ {0} : Nothing(<<"posted", d, k>>)
        /\ \A d \in Device : Nothing(<<"reply", d, 0>>)
    BY <2>1, <2>2, <2>3, <2>4, <2>5, <2>6
  <2> HIDE DEF Nothing
  <2>8. Nothing(w)
    BY <2>7, WaypointIs
  <2> QED
    BY <2>8 DEF Nothing
<1>5. ASSUME NEW m PROVE SpotsOf(m) = {}
  <2>1. PICK S : S = Underway
    OBVIOUS
  <2>2. \A h \in Waypoint, i \in Nat : ~Placed(S, h, i, m)
    BY <1>4, <2>1 DEF Placed
  <2> QED
    BY <2>1, <2>2 DEF SpotsOf, Spots
<1>6. Shown = {}
  BY <1>2 DEF Shown
<1>7. \A Q : ExistsInjection({}, Q)
  BY InjectSubset
<1>8. Due
  <2>1. 0 <= 0
    OBVIOUS
  <2>2. SpotsOf("request") = {} /\ SpotsOf("accept") = {}
    BY <1>5
  <2> QED
    BY <1>2, <1>6, <1>7, <2>1, <2>2 DEF Due, RequestDue, AcceptDue, ShownDue
<1> QED
  BY <1>1, <1>3, <1>8 DEF CausalInv

LEMMA CausalInvStep == CausalInv /\ [Next]_vars => CausalInv'
<1> SUFFICES ASSUME CausalInv, [Next]_vars PROVE CausalInv'
  OBVIOUS
<1>1. CallInv'
  BY CallInvStep DEF CausalInv
<1>2. CASE UNCHANGED vars
  <2>1. UNCHANGED <<sockVars, clientVars, serverVars, dialogs, histVars>>
    BY <1>2 DEF vars, callVars
  <2>2. QuietBut({})
    BY <2>1, ClientStill, ServerStill, SocketsStill, AllQuiet
  <2>3. UNCHANGED <<uiQueue, receiver, thread>>
    BY <2>1 DEF sockVars, clientVars, serverVars
  <2>4. ChunkFull' /\ Due'
    BY <2>1, <2>2, <2>3, QuietDue, ChunkSame DEF CausalInv
  <2> QED
    BY <1>1, <2>4 DEF CausalInv
<1>3. CASE Next
  <2>1. ChunkFull' /\ Due'
    BY <1>3, UserDue, WakeUpDue, LooperDue, ClientThreadDue, ClientSendDue, ServerAcceptDue,
       ServerSendDue, ServerReceiveDue, LinkLossDue DEF Next
  <2> QED
    BY <1>1, <2>1 DEF CausalInv
<1> QED
  BY <1>2, <1>3

\* No camera starts by itself, however users, threads, handlers and the network
\* interleave: a start upon an accept (MainActivity's client handler) has a press
\* of "accept" of its own before it, a press has a dialog of its own, and a dialog
\* has a connect of its own.  A reconnection, a command read twice or a connection
\* the server put another in the place of never makes two of one.
THEOREM NoCameraByItself == Spec => []CausalChain
<1>1. Init => CausalInv
  BY CausalInvInit
<1>2. CausalInv /\ [Next]_vars => CausalInv'
  BY CausalInvStep
<1>3. CausalInv => CausalChain
  BY DEF CausalInv, Due, RequestDue, AcceptDue, ShownDue, CausalChain
<1> QED
  BY <1>1, <1>2, <1>3, PTL DEF Spec
=============================================================================
