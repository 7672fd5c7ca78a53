------------------------------ MODULE TcpClient ------------------------------
(***************************************************************************)
(* com.test.door.tcp.TcpClient: the caller's end of the command channel.   *)
(*                                                                         *)
(* One singleton per device holds a socket, its two streams, a stop flag   *)
(* and the latest SocketThread.  connect() starts a SocketThread and does  *)
(* not wait for, or stop, the one before it: all of them share the fields. *)
(* Each sendByteCmd() starts one more thread that does a single write.     *)
(*                                                                         *)
(* Atomicity: a SocketThread is interrupted between any two steps below,   *)
(* each of which reads or writes the shared fields once; disconnect() runs *)
(* on the UI thread and is one step.                                       *)
(***************************************************************************)
EXTENDS Sockets

CONSTANT MaxThread              \* bound: calls of connect() per device

ASSUME ClientAssumption == MaxThread \in Nat

VARIABLES
  mSocket,        \* mSocket[d]: the connection the client field refers to
  mOutputStream,  \* the connection whose output stream the field holds
  mInputStream,
  isStop,
  mSocketThread,  \* the latest SocketThread, 0 before the first connect()
  thread,         \* thread[d][t]: the SocketThreads, in the order of connect()
  sender          \* sender[d][m]: sendByteCmd threads that have yet to write m

clientVars == <<mSocket, mOutputStream, mInputStream, isStop, mSocketThread,
                thread, sender>>

Thread == 1 .. MaxThread

\* "start" .. "announce" is the connection attempt, "loop" .. "post" the reading.
Attempting == {"start", "close", "forget", "dial", "check", "streams", "announce"}
Reading == {"loop", "read", "post"}

ThreadRec == [pc : Attempting \cup Reading \cup {"unborn", "done"},
              to : Device \cup {NoDevice}, stream : ConnRef,
              chunk : Seq(Cmd), interrupted : BOOLEAN]

Unborn == [pc |-> "unborn", to |-> NoDevice, stream |-> None, chunk |-> <<>>,
           interrupted |-> FALSE]

ClientInit ==
  /\ mSocket = [d \in Device |-> None]
  /\ mOutputStream = [d \in Device |-> None]
  /\ mInputStream = [d \in Device |-> None]
  /\ isStop = [d \in Device |-> FALSE]
  /\ mSocketThread = [d \in Device |-> 0]
  /\ thread = [d \in Device |-> [t \in Thread |-> Unborn]]
  /\ sender = [d \in Device |-> [m \in Cmd |-> 0]]

ClientTypeOK ==
  /\ mSocket \in [Device -> ConnRef]
  /\ mOutputStream \in [Device -> ConnRef]
  /\ mInputStream \in [Device -> ConnRef]
  /\ isStop \in [Device -> BOOLEAN]
  /\ mSocketThread \in [Device -> Thread \cup {0}]
  /\ thread \in [Device -> [Thread -> ThreadRec]]
  /\ sender \in [Device -> [Cmd -> Nat]]
-----------------------------------------------------------------------------
\* The threads of d whose attempt goes on, and all that have not ended.
InFlight(d) == {t \in Thread : thread[d][t].pc \in Attempting}
Live(d) == {t \in Thread : thread[d][t].pc \in Attempting \cup Reading}

\* isConnect(): the field is set.  Socket.isConnected() does not turn false again.
isConnect(d) == mSocket[d] # None

\* Mutant: disconnect() forgets to interrupt the thread.
MutNotInterrupted(d, u) == thread

Interrupted(d, u) ==
  IF u # 0 /\ thread[d][u].pc \in Attempting \cup Reading
  THEN [thread EXCEPT ![d][u].interrupted = TRUE]
  ELSE thread

At(d, t, pc) == alive[d] /\ thread[d][t].pc = pc

Goto(d, t, pc) == thread' = [thread EXCEPT ![d][t].pc = pc]

Finish(d, t) == thread' = [thread EXCEPT ![d][t] = [Unborn EXCEPT !.pc = "done"]]

\* Mutant: an exception ends the thread and tells nobody.
MutSilentFail(d, t) == Finish(d, t) /\ UNCHANGED uiQueue

\* What a thread that gives up does: sendEmptyMessage(-1) and return.
Fail(d, t) ==
  /\ Finish(d, t)
  /\ uiQueue' = Posted(d, "client", "fail", <<>>)
-----------------------------------------------------------------------------
\* The calls of the UI thread.

connect(d, e, t) ==
  /\ thread[d][t].pc = "unborn"
  /\ \A u \in Thread : u < t => thread[d][u].pc # "unborn"
  /\ mSocketThread' = [mSocketThread EXCEPT ![d] = t]
  /\ thread' = [thread EXCEPT ![d][t] = [@ EXCEPT !.pc = "start", !.to = e]]
  /\ UNCHANGED <<mSocket, mOutputStream, mInputStream, isStop, sender>>

\* Closing either stream of a socket closes the socket (mutant: none is closed).
MutToShut(d) == {}
ToShut(d) == {mOutputStream[d], mInputStream[d], mSocket[d]}

\* Mutant: without isStop = true.
MutDisconnect(d) ==
  /\ conns' = Closed(ToShut(d), "cli")
  /\ mSocket' = [mSocket EXCEPT ![d] = None]
  /\ thread' = Interrupted(d, mSocketThread[d])
  /\ UNCHANGED <<mOutputStream, mInputStream, mSocketThread, sender, isStop>>

\* The stream fields are closed and kept, the socket field is closed and cleared.
disconnect(d) ==
  /\ isStop' = [isStop EXCEPT ![d] = TRUE]
  /\ conns' = Closed(ToShut(d), "cli")
  /\ mSocket' = [mSocket EXCEPT ![d] = None]
  /\ thread' = Interrupted(d, mSocketThread[d])
  /\ UNCHANGED <<mOutputStream, mInputStream, mSocketThread, sender>>

sendByteCmd(d, m) ==
  /\ sender' = [sender EXCEPT ![d][m] = @ + 1]
  /\ UNCHANGED <<mSocket, mOutputStream, mInputStream, isStop, mSocketThread,
                 thread>>
-----------------------------------------------------------------------------
\* SocketThread.run, the attempt.

\* if (mSocket != null)
Start(d, t) ==
  /\ At(d, t, "start")
  /\ Goto(d, t, IF mSocket[d] # None THEN "close" ELSE "dial")
  /\ UNCHANGED <<sockVars, mSocket, mOutputStream, mInputStream, isStop,
                 mSocketThread, sender>>

\* mSocket.close(): a NullPointerException if the UI thread has cleared the field.
CloseOld(d, t) ==
  /\ At(d, t, "close")
  /\ IF mSocket[d] = None
     THEN Crash(d) /\ UNCHANGED thread
     ELSE /\ conns' = Closed({mSocket[d]}, "cli")
          /\ Goto(d, t, "forget")
          /\ UNCHANGED <<alive, uiQueue>>
  /\ UNCHANGED <<mSocket, mOutputStream, mInputStream, isStop, mSocketThread,
                 sender>>

\* mSocket = null
ForgetOld(d, t) ==
  /\ At(d, t, "forget")
  /\ mSocket' = [mSocket EXCEPT ![d] = None]
  /\ Goto(d, t, "dial")
  /\ UNCHANGED <<sockVars, mOutputStream, mInputStream, isStop, mSocketThread,
                 sender>>

\* mSocket = new Socket(ip, port): returns a connection or throws.
Dial(d, t) ==
  /\ At(d, t, "dial")
  /\ \/ \E c \in Conn :
          /\ NextConn(c)
          /\ alive[thread[d][t].to]
          /\ conns' = [conns EXCEPT ![c] = Established(d, thread[d][t].to)]
          /\ mSocket' = [mSocket EXCEPT ![d] = c]
          /\ Goto(d, t, "check")
          /\ UNCHANGED uiQueue
     \/ Fail(d, t) /\ UNCHANGED <<conns, mSocket>>
  /\ UNCHANGED <<alive, mOutputStream, mInputStream, isStop, mSocketThread,
                 sender>>

\* The else branch (mutant: there is none, and the thread tries again).
MutNoSocket(d, t) == Goto(d, t, "check") /\ UNCHANGED uiQueue
NoSocket(d, t) == Fail(d, t)

\* if (isConnect()) .. else sendEmptyMessage(-1)
Check(d, t) ==
  /\ At(d, t, "check")
  /\ IF isConnect(d)
     THEN Goto(d, t, "streams") /\ UNCHANGED uiQueue
     ELSE NoSocket(d, t)
  /\ UNCHANGED <<conns, alive, mSocket, mOutputStream, mInputStream, isStop,
                 mSocketThread, sender>>

\* getOutputStream(), getInputStream(): a NullPointerException if the field was
\* cleared after the check, an IOException if the socket was closed.
GetStreams(d, t) ==
  /\ At(d, t, "streams")
  /\ \/ /\ mSocket[d] = None
        /\ Crash(d)
        /\ UNCHANGED <<thread, mOutputStream, mInputStream>>
     \/ /\ mSocket[d] # None
        /\ ~conns[mSocket[d]].open["cli"]
        /\ Fail(d, t)
        /\ UNCHANGED <<conns, alive, mOutputStream, mInputStream>>
     \/ /\ mSocket[d] # None
        /\ conns[mSocket[d]].open["cli"]
        /\ mOutputStream' = [mOutputStream EXCEPT ![d] = mSocket[d]]
        /\ mInputStream' = [mInputStream EXCEPT ![d] = mSocket[d]]
        /\ Goto(d, t, "announce")
        /\ UNCHANGED sockVars
  /\ UNCHANGED <<mSocket, isStop, mSocketThread, sender>>

\* isStop = false, whatever disconnect() set meanwhile; sendEmptyMessage(1).
Announce(d, t) ==
  /\ At(d, t, "announce")
  /\ isStop' = [isStop EXCEPT ![d] = FALSE]
  /\ uiQueue' = Posted(d, "client", "success", <<>>)
  /\ Goto(d, t, "loop")
  /\ UNCHANGED <<conns, alive, mSocket, mOutputStream, mInputStream,
                 mSocketThread, sender>>
-----------------------------------------------------------------------------
\* SocketThread.run, the reading.

\* The loop condition, and the fetch of the shared field the read is done on.
Loop(d, t) ==
  /\ At(d, t, "loop")
  /\ IF isConnect(d) /\ ~isStop[d] /\ ~thread[d][t].interrupted
     THEN thread' = [thread EXCEPT ![d][t] =
                       [@ EXCEPT !.pc = "read", !.stream = mInputStream[d]]]
     ELSE Finish(d, t)
  /\ UNCHANGED <<sockVars, mSocket, mOutputStream, mInputStream, isStop,
                 mSocketThread, sender>>

\* What is copied out of the buffer (mutant: its first command).
MutCopy(cmds, n) == <<Head(cmds)>>
Copy(cmds, n) == SubSeq(cmds, 1, n)

\* read(buffer): data, or -1 at the end of the stream (and round the loop
\* again), or an IOException.
Read(d, t) ==
  /\ At(d, t, "read")
  /\ LET c == thread[d][t].stream IN
     \/ \E n \in 1 .. Len(conns[c].inbox["cli"]) :
          /\ ReadReturns(c, "cli", n)
          /\ conns' = Taken(c, "cli", n)
          /\ thread' = [thread EXCEPT ![d][t] =
               [@ EXCEPT !.pc = "post", !.stream = None,
                         !.chunk = Copy(conns[c].inbox["cli"], n)]]
          /\ UNCHANGED uiQueue
     \/ /\ ReadSeesEnd(c, "cli")
        /\ thread' = [thread EXCEPT ![d][t] =
                        [@ EXCEPT !.pc = "loop", !.stream = None]]
        /\ UNCHANGED <<conns, uiQueue>>
     \/ /\ ReadThrows(c, "cli")
        /\ Fail(d, t)
        /\ UNCHANGED conns
  /\ UNCHANGED <<alive, mSocket, mOutputStream, mInputStream, isStop,
                 mSocketThread, sender>>

\* msg.what = 100 (mutant: one no handler knows).
MutWhat == "read"
What == "data"

\* sendMessage(100)
PostData(d, t) ==
  /\ At(d, t, "post")
  /\ uiQueue' = Posted(d, "client", What, thread[d][t].chunk)
  /\ thread' = [thread EXCEPT ![d][t] = [@ EXCEPT !.pc = "loop", !.chunk = <<>>]]
  /\ UNCHANGED <<conns, alive, mSocket, mOutputStream, mInputStream, isStop,
                 mSocketThread, sender>>

SocketThread(d, t) ==
  \/ Start(d, t) \/ CloseOld(d, t) \/ ForgetOld(d, t) \/ Dial(d, t)
  \/ Check(d, t) \/ GetStreams(d, t) \/ Announce(d, t)
  \/ Loop(d, t) \/ Read(d, t) \/ PostData(d, t)

\* The thread of one sendByteCmd() call.  It uses the field as it is by then,
\* and nothing orders it with the thread of another call.
SenderThread(d, m) ==
  /\ alive[d]
  /\ sender[d][m] > 0
  /\ sender' = [sender EXCEPT ![d][m] = @ - 1]
  /\ conns' = Written(mOutputStream[d], "cli", m)
  /\ UNCHANGED <<alive, uiQueue, mSocket, mOutputStream, mInputStream, isStop,
                 mSocketThread, thread>>
=============================================================================
