------------------------------ MODULE TcpServer ------------------------------
(***************************************************************************)
(* com.test.door.tcp.TcpServer: the callee's end of the command channel.   *)
(*                                                                         *)
(* One ServerThread per device accepts connections on port 9000 for ever.  *)
(* Every connection replaces the fields of the one before it (socket,      *)
(* input stream, peer address), none is closed for that, and every one     *)
(* starts a ServerReceiveThread that reads the shared input stream field.  *)
(* Replies go through the "serverSendThread" Looper to the socket that the *)
(* field holds when the reply is written.                                  *)
(*                                                                         *)
(* interrupt() of the receive thread has no effect: nothing in it looks at *)
(* the flag, so disconnect() below leaves it out.                          *)
(***************************************************************************)
EXTENDS Sockets

VARIABLES
  clientScoket,   \* clientScoket[d]: the connection the server field refers to
  inputStream,    \* TcpServer.mInputStream
  outputStream,   \* TcpServer.mOutputStream
  isConnectFlag,  \* the field isConnect
  srvAddress,     \* TcpServer.address: host of the latest connection
  acceptor,       \* where the ServerThread is: "accept", "address", "receive"
  receiver,       \* receiver[d][c]: the ServerReceiveThread started for c
  serverHandler   \* serverHandler[d]: replies waiting for serverSendThread

serverVars == <<clientScoket, inputStream, outputStream, isConnectFlag,
                srvAddress, acceptor, receiver, serverHandler>>

ReceiverRec == [pc : {"unborn", "loop", "read", "post", "done"},
                stream : ConnRef, chunk : Seq(Cmd)]

NoReceiver == [pc |-> "unborn", stream |-> None, chunk |-> <<>>]

ServerInit ==
  /\ clientScoket = [d \in Device |-> None]
  /\ inputStream = [d \in Device |-> None]
  /\ outputStream = [d \in Device |-> None]
  /\ isConnectFlag = [d \in Device |-> FALSE]
  /\ srvAddress = [d \in Device |-> NoDevice]
  /\ acceptor = [d \in Device |-> "accept"]
  /\ receiver = [d \in Device |-> [c \in Conn |-> NoReceiver]]
  /\ serverHandler = [d \in Device |-> <<>>]

ServerTypeOK ==
  /\ clientScoket \in [Device -> ConnRef]
  /\ inputStream \in [Device -> ConnRef]
  /\ outputStream \in [Device -> ConnRef]
  /\ isConnectFlag \in [Device -> BOOLEAN]
  /\ srvAddress \in [Device -> Device \cup {NoDevice}]
  /\ acceptor \in [Device -> {"accept", "address", "receive"}]
  /\ receiver \in [Device -> [Conn -> ReceiverRec]]
  /\ serverHandler \in [Device -> Seq(Cmd)]
-----------------------------------------------------------------------------
\* isConnect(), the method.
srvIsConnect(d) == clientScoket[d] # None

Receiving(d) == {c \in Conn : receiver[d][c].pc \in {"loop", "read", "post"}}
-----------------------------------------------------------------------------
\* The calls of the UI thread.

\* Mutant: without isConnect = false.
MutSrvDisconnect(d) ==
  /\ conns' = Closed({outputStream[d], inputStream[d], clientScoket[d]}, "srv")
  /\ clientScoket' = [clientScoket EXCEPT ![d] = None]
  /\ UNCHANGED <<inputStream, outputStream, srvAddress, acceptor, receiver,
                 serverHandler, isConnectFlag>>

\* TcpServer.disconnect(); the stream fields are closed and kept.
srvDisconnect(d) ==
  /\ isConnectFlag' = [isConnectFlag EXCEPT ![d] = FALSE]
  /\ conns' = Closed({outputStream[d], inputStream[d], clientScoket[d]}, "srv")
  /\ clientScoket' = [clientScoket EXCEPT ![d] = None]
  /\ UNCHANGED <<inputStream, outputStream, srvAddress, acceptor, receiver,
                 serverHandler>>

sendMsg(d, m) ==
  /\ serverHandler' = [serverHandler EXCEPT ![d] = Append(@, m)]
  /\ UNCHANGED <<clientScoket, inputStream, outputStream, isConnectFlag,
                 srvAddress, acceptor, receiver>>
-----------------------------------------------------------------------------
\* ServerThread.run

\* clientScoket = mServerSocket.accept(): connections in the order they were made.
Accept(d) ==
  /\ alive[d] /\ acceptor[d] = "accept"
  /\ \E c \in Conn :
       /\ conns[c].to = d /\ ~conns[c].accepted
       /\ \A b \in Conn : b < c => ~(conns[b].to = d /\ ~conns[b].accepted)
       /\ clientScoket' = [clientScoket EXCEPT ![d] = c]
       /\ conns' = [conns EXCEPT ![c].accepted = TRUE]
  /\ acceptor' = [acceptor EXCEPT ![d] = "address"]
  /\ UNCHANGED <<alive, uiQueue, inputStream, outputStream, isConnectFlag,
                 srvAddress, receiver, serverHandler>>

\* address = clientScoket.getInetAddress()..: a NullPointerException, which the
\* catch of IOException lets through, if disconnect() has cleared the field.
SetAddress(d) ==
  /\ alive[d] /\ acceptor[d] = "address"
  /\ IF clientScoket[d] = None
     THEN Crash(d) /\ UNCHANGED <<srvAddress, acceptor>>
     ELSE /\ srvAddress' = [srvAddress EXCEPT ![d] = conns[clientScoket[d]].from]
          /\ acceptor' = [acceptor EXCEPT ![d] = "receive"]
          /\ UNCHANGED sockVars
  /\ UNCHANGED <<clientScoket, inputStream, outputStream, isConnectFlag,
                 receiver, serverHandler>>

\* isConnect = true (mutant: left as it is).
MutRaised(d) == isConnectFlag
Raised(d) == [isConnectFlag EXCEPT ![d] = TRUE]

\* mInputStream = ..; isConnect = true; new ServerReceiveThread().start()
StartReceiver(d) ==
  /\ alive[d] /\ acceptor[d] = "receive"
  /\ IF clientScoket[d] = None
     THEN Crash(d) /\ UNCHANGED <<inputStream, isConnectFlag, acceptor, receiver>>
     ELSE /\ inputStream' = [inputStream EXCEPT ![d] = clientScoket[d]]
          /\ isConnectFlag' = Raised(d)
          /\ receiver' = [receiver EXCEPT ![d][clientScoket[d]].pc = "loop"]
          /\ acceptor' = [acceptor EXCEPT ![d] = "accept"]
          /\ UNCHANGED sockVars
  /\ UNCHANGED <<clientScoket, outputStream, srvAddress, serverHandler>>

ServerThread(d) == Accept(d) \/ SetAddress(d) \/ StartReceiver(d)
-----------------------------------------------------------------------------
\* ServerReceiveThread.run

\* while (isConnect && isConnect()), and the fetch of the shared field.
RcvLoop(d, r) ==
  /\ alive[d] /\ receiver[d][r].pc = "loop"
  /\ receiver' = [receiver EXCEPT ![d][r] =
       IF isConnectFlag[d] /\ srvIsConnect(d)
       THEN [@ EXCEPT !.pc = "read", !.stream = inputStream[d]]
       ELSE [NoReceiver EXCEPT !.pc = "done"]]
  /\ UNCHANGED <<sockVars, clientScoket, inputStream, outputStream,
                 isConnectFlag, srvAddress, acceptor, serverHandler>>

\* What is copied out of the buffer (mutant: its first command).
MutRcvCopy(cmds, n) == <<Head(cmds)>>
RcvCopy(cmds, n) == SubSeq(cmds, 1, n)

\* mInputStream.read(buf): data, -1 at the end (and round the loop), or an
\* IOException: sendEmptyMessage(-1) and return.
RcvRead(d, r) ==
  /\ alive[d] /\ receiver[d][r].pc = "read"
  /\ LET c == receiver[d][r].stream IN
     \/ \E n \in 1 .. Len(conns[c].inbox["srv"]) :
          /\ ReadReturns(c, "srv", n)
          /\ conns' = Taken(c, "srv", n)
          /\ receiver' = [receiver EXCEPT ![d][r] =
               [pc |-> "post", stream |-> None,
                chunk |-> RcvCopy(conns[c].inbox["srv"], n)]]
          /\ UNCHANGED uiQueue
     \/ /\ ReadSeesEnd(c, "srv")
        /\ receiver' = [receiver EXCEPT ![d][r] = [NoReceiver EXCEPT !.pc = "loop"]]
        /\ UNCHANGED <<conns, uiQueue>>
     \/ /\ ReadThrows(c, "srv")
        /\ receiver' = [receiver EXCEPT ![d][r] = [NoReceiver EXCEPT !.pc = "done"]]
        /\ uiQueue' = Posted(d, "server", "fail", <<>>)
        /\ UNCHANGED conns
  /\ UNCHANGED <<alive, clientScoket, inputStream, outputStream, isConnectFlag,
                 srvAddress, acceptor, serverHandler>>

\* msg.what = 100 (mutant: one no handler knows).
MutRcvWhat == "read"
RcvWhat == "data"

\* sendMessage(100)
RcvPost(d, r) ==
  /\ alive[d] /\ receiver[d][r].pc = "post"
  /\ uiQueue' = Posted(d, "server", RcvWhat, receiver[d][r].chunk)
  /\ receiver' = [receiver EXCEPT ![d][r] = [NoReceiver EXCEPT !.pc = "loop"]]
  /\ UNCHANGED <<conns, alive, clientScoket, inputStream, outputStream,
                 isConnectFlag, srvAddress, acceptor, serverHandler>>

ReceiveThread(d, r) == RcvLoop(d, r) \/ RcvRead(d, r) \/ RcvPost(d, r)
-----------------------------------------------------------------------------
\* The handler of serverSendThread.  Every exception is caught: without a socket
\* (null) or on a closed one the reply is lost.
SendThread(d) ==
  /\ alive[d]
  /\ serverHandler[d] # <<>>
  /\ serverHandler' = [serverHandler EXCEPT ![d] = Tail(@)]
  /\ conns' = Written(clientScoket[d], "srv", Head(serverHandler[d]))
  /\ outputStream' = IF srvIsConnect(d) /\ conns[clientScoket[d]].open["srv"]
                     THEN [outputStream EXCEPT ![d] = clientScoket[d]]
                     ELSE outputStream
  /\ UNCHANGED <<alive, uiQueue, clientScoket, inputStream, isConnectFlag,
                 srvAddress, acceptor, receiver>>
=============================================================================
