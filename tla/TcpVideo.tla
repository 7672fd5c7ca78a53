------------------------------ MODULE TcpVideo ------------------------------
(***************************************************************************)
(* The video connection of a device: com.xwr.videocode.TcpVideo.  Every    *)
(* connect() starts a SocketThread, which dials port 9001 of the peer, and *)
(* a HandlerThread, which writes the frames posted to it; close() quits    *)
(* the last HandlerThread.  None of the fields they share has a lock.      *)
(*                                                                         *)
(* The threads of the i-th connect() and the connection its SocketThread   *)
(* may establish are all named i.  A frame is its number in the order the  *)
(* encoder delivered it and its kind.  A write to an open connection is    *)
(* taken by TCP; one to a closed connection throws, which the handler      *)
(* swallows.                                                               *)
(***************************************************************************)
EXTENDS Naturals, Sequences

CONSTANT MaxCalls   \* bound: calls of connect()

ASSUME TcpVideoAssumption == MaxCalls \in Nat

VARIABLES
  alive,            \* the process has not died of an uncaught exception
  mSocket,
  mOutputStream,    \* the connection whose stream it is
  current,          \* the call whose threads mSocketThread, mHandlerThread and
                    \* videoHandler refer to
  attempt,          \* attempt[i]: where the SocketThread of call i stands
  handler,          \* handler[i]: the HandlerThread of call i
  open,             \* the connections this end has not closed
  wire              \* wire[i]: the frames written to connection i

tcpVideoVars == <<alive, mSocket, mOutputStream, current, attempt, handler, open, wire>>

None == 0                  \* a null field
Call == 1 .. MaxCalls
CallRef == Call \cup {None}

\* A key frame is "bare" when it has no configuration in front of it.
Kind == {"config", "key", "bare", "delta"}
Frame == [no : Nat, kind : Kind]
NoFrame == [no |-> 0, kind |-> "config"]
Written == [call : Call, no : Nat, kind : Kind]

AttemptPC == {"unborn", "start", "closeOld", "forget", "dial", "check", "getOut",
              "getIn", "done"}
Handler == [run : BOOLEAN, hand : Frame, queue : Seq(Frame)]

TcpVideoInit ==
  /\ alive = TRUE
  /\ mSocket = None /\ mOutputStream = None /\ current = None
  /\ attempt = [i \in Call |-> "unborn"]
  /\ handler = [i \in Call |-> [run |-> FALSE, hand |-> NoFrame, queue |-> <<>>]]
  /\ open = {}
  /\ wire = [i \in Call |-> <<>>]

TcpVideoTypeOK ==
  /\ alive \in BOOLEAN
  /\ mSocket \in CallRef /\ mOutputStream \in CallRef /\ current \in CallRef
  /\ attempt \in [Call -> AttemptPC]
  /\ handler \in [Call -> Handler]
  /\ open \subseteq Call
  /\ wire \in [Call -> Seq(Written)]
-----------------------------------------------------------------------------
\* The calls whose SocketThread is on its way.
InFlight == {i \in Call : attempt[i] \notin {"unborn", "done"}}

isConnect == mSocket # None

\* connect(): both threads of call i start; init() overwrites the fields of the
\* former call's handler, which goes on.
connect(i) ==
  /\ attempt[i] = "unborn" /\ \A j \in Call : j < i => attempt[j] # "unborn"
  /\ attempt' = [attempt EXCEPT ![i] = "start"]
  /\ handler' = [handler EXCEPT ![i].run = TRUE]
  /\ current' = i
  /\ UNCHANGED <<alive, mSocket, mOutputStream, open, wire>>

\* sendImage() of the frames fs: a Looper that has quit takes no more messages.
MutEnqueued(q, fs) == fs \o q    \* mutant: sendMessageAtFrontOfQueue
Enqueued(q, fs) == q \o fs

sendImage(fs) ==
  handler' = IF current # None /\ handler[current].run
             THEN [handler EXCEPT ![current].queue = Enqueued(@, fs)] ELSE handler

\* HandlerThread.quit(): what is queued is dropped, what is being written is not.
MutQuit == [handler EXCEPT ![current].run = FALSE]     \* mutant: quitSafely()
Quit == [handler EXCEPT ![current].run = FALSE, ![current].queue = <<>>]

\* What close() closes: the socket of the field and the socket of the stream,
\* which a closed stream closes too.
MutToClose == {}     \* mutant: the references are dropped, the socket stays open
ToClose == {mSocket, mOutputStream}

\* close(): the interrupt does not reach a thread that dials, and mOutputStream is
\* not set to null.  One step: what a SocketThread does between two of its lines
\* concerns a dialling that close() overtakes, before or after it just as well.
close ==
  /\ open' = open \ ToClose
  /\ mSocket' = None
  /\ handler' = IF current = None THEN handler ELSE Quit
  /\ UNCHANGED <<alive, mOutputStream, current, attempt, wire>>
-----------------------------------------------------------------------------
\* SocketThread.run().

Goto(i, pc) == attempt' = [attempt EXCEPT ![i] = pc]

\* A read of the field that close() has set to null meanwhile: the exception is
\* not an IOException and ends the process.
Dies == alive' = FALSE /\ open' = {}

Start(i) ==
  /\ attempt[i] = "start"
  /\ Goto(i, IF mSocket # None THEN "closeOld" ELSE "dial")
  /\ UNCHANGED <<alive, open, mSocket, mOutputStream>>

CloseOld(i) ==
  /\ attempt[i] = "closeOld"
  /\ IF mSocket = None THEN Dies ELSE open' = open \ {mSocket} /\ UNCHANGED alive
  /\ Goto(i, "forget")
  /\ UNCHANGED <<mSocket, mOutputStream>>

ForgetOld(i) ==
  /\ attempt[i] = "forget"
  /\ mSocket' = None
  /\ Goto(i, "dial")
  /\ UNCHANGED <<alive, open, mOutputStream>>

Dial(i) ==
  /\ attempt[i] = "dial"
  /\ \/ open' = open \cup {i} /\ mSocket' = i /\ Goto(i, "check")
     \/ Goto(i, "done") /\ UNCHANGED <<open, mSocket>>
  /\ UNCHANGED <<alive, mOutputStream>>

Check(i) ==
  /\ attempt[i] = "check"
  /\ Goto(i, IF isConnect THEN "getOut" ELSE "done")
  /\ UNCHANGED <<alive, open, mSocket, mOutputStream>>

\* The stream of a closed socket is refused with an IOException.
GetOut(i) ==
  /\ attempt[i] = "getOut"
  /\ IF mSocket = None THEN Dies /\ UNCHANGED mOutputStream
     ELSE /\ mOutputStream' = IF mSocket \in open THEN mSocket ELSE mOutputStream
          /\ UNCHANGED <<alive, open>>
  /\ Goto(i, IF mSocket \in open THEN "getIn" ELSE "done")
  /\ UNCHANGED mSocket

GetIn(i) ==
  /\ attempt[i] = "getIn"
  /\ IF mSocket = None THEN Dies ELSE UNCHANGED <<alive, open>>
  /\ Goto(i, "done")
  /\ UNCHANGED <<mSocket, mOutputStream>>

SocketThread(i) ==
  /\ alive
  /\ \/ Start(i) \/ CloseOld(i) \/ ForgetOld(i) \/ Dial(i) \/ Check(i)
     \/ GetOut(i) \/ GetIn(i)
  /\ UNCHANGED <<current, handler, wire>>
-----------------------------------------------------------------------------
\* handleMessage() of videoHandler, on the HandlerThread of call h: a frame is kept
\* if there is a stream, which the field never ceases to name.
TakeMessage(h) ==
  /\ handler[h].hand = NoFrame /\ handler[h].queue # <<>>
  /\ handler' = [handler EXCEPT
       ![h].queue = Tail(@),
       ![h].hand = IF mOutputStream # None THEN Head(handler[h].queue) ELSE NoFrame]
  /\ UNCHANGED wire

\* The field is read once more: the stream may be another one by now.
WriteFrame(h) ==
  /\ handler[h].hand # NoFrame
  /\ handler' = [handler EXCEPT ![h].hand = NoFrame]
  /\ wire' = IF mOutputStream \in open
             THEN [wire EXCEPT ![mOutputStream] =
                     Append(@, [call |-> h, no |-> handler[h].hand.no,
                                kind |-> handler[h].hand.kind])]
             ELSE wire

HandlerThread(h) ==
  /\ alive
  /\ TakeMessage(h) \/ WriteFrame(h)
  /\ UNCHANGED <<alive, mSocket, mOutputStream, current, attempt, open>>
=============================================================================
