---------------------------- MODULE IntercomCall ----------------------------
(***************************************************************************)
(* The video call between devices: com.test.door.MainActivity of each one  *)
(* on top of its TcpClient (calls it places) and its TcpServer (calls it   *)
(* is offered), and the four commands of Constants.java between them.      *)
(*                                                                         *)
(* Everything of MainActivity runs on the main Looper of its device: the   *)
(* user's actions and the two socket handlers' messages are its steps, one *)
(* at a time.  btn_stop puts that thread to sleep for a second after each  *)
(* hand-up it sends, so pressing it is up to three steps with every other  *)
(* thread at large in between.                                             *)
(*                                                                         *)
(* Abstractions: a typed room number is the device its address belongs to  *)
(* (AddressPlan has the numbering); the camera and the video socket are    *)
(* one value, where the video of a device goes.                            *)
(***************************************************************************)
EXTENDS TcpClient, TcpServer

CONSTANTS
  Caller,      \* bound: the devices whose users press btn_start
  Dialler,     \* bound: the devices whose users type and dial numbers
  Paced,       \* do users and sleeps leave the threads time to write?
  Lossy,       \* may the network lose a connection?
  MaxPending,  \* bound: replies waiting for serverSendThread
  MaxStops     \* bound: presses of btn_stop

ASSUME IntercomAssumption ==
  /\ Caller \subseteq Device /\ Dialler \subseteq Device
  /\ Paced \in BOOLEAN /\ Lossy \in BOOLEAN
  /\ MaxPending \in Nat /\ MaxStops \in Nat
  /\ Cmd = {"request", "accept", "refuse", "hangup"}

VARIABLES
  views,       \* the input views of the activity that are visible and enabled
  room,        \* the device whose room number is in the edit field
  address,     \* MainActivity.address: resolved from the last number dialled
  isStart,
  destCall,
  dialogs,     \* call dialogs on the screen, one upon the other
  dialogTop,   \* is alertDialog2 the one on top?
  stopping,    \* where btn_stop sleeps: "no", "client", "server"
  videoTo      \* where the camera's video goes

callVars == <<views, room, address, isStart, destCall, dialogs, dialogTop,
              stopping, videoTo>>

VARIABLES
  dials, rings, accepts, starts,  \* history: how often a connect, a dialog, an
                                  \* accepted dialog, a start upon an accept
  stops,       \* history: presses of btn_stop
  hungUp       \* history: hungUp[d]: btn_stop was the user's last word at d

histVars == <<dials, rings, accepts, starts, stops, hungUp>>
vars == <<sockVars, clientVars, serverVars, callVars, histVars>>

View == {"edit", "start", "call"}

\* onCreate / initView, but for what the keypad and the buttons set.
NoCallYet ==
  /\ SocketsInit /\ ClientInit /\ ServerInit
  /\ isStart = [d \in Device |-> FALSE]
  /\ destCall = [d \in Device |-> FALSE]
  /\ dialogs = [d \in Device |-> 0]
  /\ dialogTop = [d \in Device |-> FALSE]
  /\ stopping = [d \in Device |-> "no"]
  /\ videoTo = [d \in Device |-> NoDevice]
  /\ dials = 0 /\ rings = 0 /\ accepts = 0 /\ starts = 0 /\ stops = 0

Init ==
  /\ NoCallYet
  /\ views = [d \in Device |-> {"edit", "call"}]
  /\ room = [d \in Device |-> NoDevice]
  /\ address = [d \in Device |-> NoDevice]
  /\ hungUp = [d \in Device |-> FALSE]

TypeOK ==
  /\ SocketsTypeOK /\ ClientTypeOK /\ ServerTypeOK
  /\ views \in [Device -> SUBSET View]
  /\ room \in [Device -> Device \cup {NoDevice}]
  /\ address \in [Device -> Device \cup {NoDevice}]
  /\ isStart \in [Device -> BOOLEAN]
  /\ destCall \in [Device -> BOOLEAN]
  /\ dialogs \in [Device -> Nat]
  /\ dialogTop \in [Device -> BOOLEAN]
  /\ stopping \in [Device -> {"no", "client", "server"}]
  /\ videoTo \in [Device -> Device \cup {NoDevice}]
  /\ {dials, rings, accepts, starts, stops} \subseteq Nat
  /\ hungUp \in [Device -> BOOLEAN]
-----------------------------------------------------------------------------
\* The sends of d that have been asked for are on the wire.
Flushed(d) == serverHandler[d] = <<>> /\ \A m \in Cmd : sender[d][m] = 0

\* The main thread of d is free; a user acts on it when it is, on the activity
\* itself when no dialog covers it.
UiFree(d) == alive[d] /\ stopping[d] = "no"
UserFree(d) == UiFree(d) /\ (Paced => Flushed(d))
AtActivity(d) == UserFree(d) /\ dialogs[d] = 0

\* The host a Java null address stands for is the device itself.
Host(d, a) == IF a = NoDevice THEN d ELSE a

\* VisiableView(): shows the field and btn_call, but leaves btn_call disabled.
VisiableView(d) == views' = [views EXCEPT ![d] = (@ \cup {"edit"}) \ {"call"}]
-----------------------------------------------------------------------------
\* The user's actions.

TypeRoom(d, e) ==
  /\ AtActivity(d) /\ d \in Dialler
  /\ "edit" \in views[d]
  /\ room[d] # e /\ e # d
  /\ room' = [room EXCEPT ![d] = e]
  /\ UNCHANGED <<sockVars, clientVars, serverVars, views, address, isStart,
                 destCall, dialogs, dialogTop, stopping, videoTo, histVars>>

\* onKeyUp(136): resolves the number and shows the address in the edit field,
\* where the text watcher clears any text of more than four characters; so
\* callVideo() finds the field empty and does not connect.
KeyDial(d) ==
  /\ AtActivity(d) /\ d \in Dialler
  /\ room[d] # NoDevice
  /\ address' = [address EXCEPT ![d] = room[d]]
  /\ room' = [room EXCEPT ![d] = NoDevice]
  /\ UNCHANGED <<sockVars, clientVars, serverVars, views, isStart, destCall,
                 dialogs, dialogTop, stopping, videoTo, histVars>>

\* btn_start: callVideo() with text in the field.
StartPressed(d, t) ==
  /\ AtActivity(d) /\ d \in Caller
  /\ "start" \in views[d]
  /\ room[d] # NoDevice
  /\ connect(d, Host(d, address[d]), t)
  /\ views' = [views EXCEPT ![d] = {}]
  /\ dials' = dials + 1
  /\ hungUp' = [hungUp EXCEPT ![d] = FALSE]
  /\ UNCHANGED <<sockVars, serverVars, room, address, isStart, destCall, dialogs,
                 dialogTop, stopping, videoTo, rings, accepts, starts, stops>>

\* btn_call only changes what is shown.
CallPressed(d) ==
  /\ AtActivity(d) /\ d \in Dialler
  /\ "call" \in views[d]
  /\ room[d] # NoDevice
  /\ views' = [views EXCEPT ![d] = {}]
  /\ UNCHANGED <<sockVars, clientVars, serverVars, room, address, isStart,
                 destCall, dialogs, dialogTop, stopping, videoTo, histVars>>
-----------------------------------------------------------------------------
\* btn_stop.

\* The end of it: stopRecord() and all buttons back.
StopEnds(d) ==
  /\ stopping' = [stopping EXCEPT ![d] = "no"]
  /\ views' = [views EXCEPT ![d] = View]
  /\ videoTo' = [videoTo EXCEPT ![d] = NoDevice]

\* if (destCall) sendMsg(handUp) and sleep, else the end.
StopServerPart(d) ==
  IF destCall[d]
  THEN /\ Len(serverHandler[d]) < MaxPending
       /\ sendMsg(d, "hangup")
       /\ stopping' = [stopping EXCEPT ![d] = "server"]
       /\ UNCHANGED <<views, videoTo>>
  ELSE StopEnds(d) /\ UNCHANGED serverVars

StopPressed(d) ==
  /\ AtActivity(d)
  /\ stops < MaxStops
  /\ stops' = stops + 1
  /\ IF isConnect(d)
     THEN /\ sendByteCmd(d, "hangup")
          /\ stopping' = [stopping EXCEPT ![d] = "client"]
          /\ UNCHANGED <<serverVars, views, videoTo>>
     ELSE StopServerPart(d) /\ UNCHANGED clientVars
  /\ hungUp' = [hungUp EXCEPT ![d] = TRUE]
  /\ UNCHANGED <<sockVars, room, address, isStart, destCall, dialogs, dialogTop,
                 dials, rings, accepts, starts>>

\* After the first sleep: TcpClient.disconnect(), then the part of the server.
WakeClient(d) ==
  /\ alive[d] /\ stopping[d] = "client"
  /\ Paced => Flushed(d)
  /\ disconnect(d)
  /\ StopServerPart(d)
  /\ UNCHANGED <<alive, uiQueue, room, address, isStart, destCall, dialogs,
                 dialogTop, histVars>>

\* After the second sleep: TcpServer.disconnect().
WakeServer(d) ==
  /\ alive[d] /\ stopping[d] = "server"
  /\ Paced => Flushed(d)
  /\ srvDisconnect(d)
  /\ StopEnds(d)
  /\ UNCHANGED <<alive, uiQueue, clientVars, room, address, isStart, destCall,
                 dialogs, dialogTop, histVars>>
-----------------------------------------------------------------------------
\* The dialog of setDialog(): the user answers the one on top.

Dismissed(d) ==
  /\ dialogs' = [dialogs EXCEPT ![d] = @ - 1]
  /\ dialogTop' = [dialogTop EXCEPT ![d] = FALSE]

\* The dialog's answer goes to serverSendThread (mutant: nowhere).
MutAnswerUnsent(d, m) == UNCHANGED serverVars
Answer(d, m) == Len(serverHandler[d]) < MaxPending /\ sendMsg(d, m)

AcceptPressed(d) ==
  /\ UserFree(d) /\ dialogs[d] > 0
  /\ Answer(d, "accept")
  /\ IF srvAddress[d] # NoDevice
     THEN /\ views' = [views EXCEPT ![d] = {}]
          /\ videoTo' = [videoTo EXCEPT ![d] = srvAddress[d]]
          /\ destCall' = [destCall EXCEPT ![d] = TRUE]
     ELSE UNCHANGED <<views, videoTo, destCall>>
  /\ Dismissed(d)
  /\ accepts' = accepts + 1
  /\ hungUp' = [hungUp EXCEPT ![d] = FALSE]
  /\ UNCHANGED <<sockVars, clientVars, room, address, isStart, stopping, dials,
                 rings, starts, stops>>

RefusePressed(d) ==
  /\ UserFree(d) /\ dialogs[d] > 0
  /\ Answer(d, "refuse")
  /\ Dismissed(d)
  /\ UNCHANGED <<sockVars, clientVars, views, room, address, isStart, destCall,
                 stopping, videoTo, histVars>>
-----------------------------------------------------------------------------
\* The messages of TcpClient.uiHandler, with MainActivity's dataReceiveListener.

NextMessage(d, src, what) ==
  /\ UiFree(d)
  /\ uiQueue[d] # <<>>
  /\ Head(uiQueue[d]).src = src /\ Head(uiQueue[d]).what = what
  /\ uiQueue' = [uiQueue EXCEPT ![d] = Tail(@)]

\* What both onConnectFail() do: only if isStart is set.
StopIfStarted(d) ==
  IF isStart[d]
  THEN /\ videoTo' = [videoTo EXCEPT ![d] = NoDevice]
       /\ isStart' = [isStart EXCEPT ![d] = FALSE]
       /\ VisiableView(d)
  ELSE UNCHANGED <<videoTo, isStart, views>>

ClientFail(d) ==
  /\ NextMessage(d, "client", "fail")
  /\ StopIfStarted(d)
  /\ disconnect(d)
  /\ UNCHANGED <<alive, serverVars, room, address, destCall, dialogs, dialogTop,
                 stopping, histVars>>

\* onConnectSuccess() asks for the call (mutant: twice).
MutAskTwice(d) ==
  /\ sender' = [sender EXCEPT ![d]["request"] = @ + 2]
  /\ UNCHANGED <<mSocket, mOutputStream, mInputStream, isStop, mSocketThread, thread>>
Ask(d) == sendByteCmd(d, "request")

ClientSuccess(d) ==
  /\ NextMessage(d, "client", "success")
  /\ Ask(d)
  /\ UNCHANGED <<conns, alive, serverVars, callVars, histVars>>

\* The commands that end the call at the caller (mutant: a hand-up does not).
MutEnds(m) == m = "refuse"
Ends(m) == m \in {"hangup", "refuse"}

\* The listener looks at the first command of what one read returned, no further.
ClientData(d) ==
  /\ NextMessage(d, "client", "data")
  /\ LET m == Head(Head(uiQueue[d]).cmds) IN
     /\ IF m = "accept"
        THEN /\ videoTo' = [videoTo EXCEPT ![d] = Host(d, address[d])]
             /\ isStart' = [isStart EXCEPT ![d] = TRUE]
             /\ starts' = starts + 1
        ELSE /\ videoTo' = IF m = "hangup"
                           THEN [videoTo EXCEPT ![d] = NoDevice] ELSE videoTo
             /\ UNCHANGED <<isStart, starts>>
     /\ IF Ends(m)
        THEN disconnect(d) /\ VisiableView(d)
        ELSE UNCHANGED <<conns, clientVars, views>>
  /\ UNCHANGED <<alive, serverVars, room, address, destCall, dialogs, dialogTop,
                 stopping, dials, rings, accepts, stops, hungUp>>

\* The messages of TcpServer.mHandler, with MainActivity as its listener.

ServerFail(d) ==
  /\ NextMessage(d, "server", "fail")
  /\ StopIfStarted(d)
  /\ srvDisconnect(d)
  /\ UNCHANGED <<alive, clientVars, room, address, destCall, dialogs, dialogTop,
                 stopping, histVars>>

ServerRequest(d) ==
  /\ NextMessage(d, "server", "data")
  /\ Head(Head(uiQueue[d]).cmds) = "request"
  /\ dialogs' = [dialogs EXCEPT ![d] = @ + 1]
  /\ dialogTop' = [dialogTop EXCEPT ![d] = TRUE]
  /\ rings' = rings + 1
  /\ UNCHANGED <<conns, alive, clientVars, serverVars, views, room, address,
                 isStart, destCall, stopping, videoTo, dials, accepts, starts,
                 stops, hungUp>>

\* alertDialog2 is dismissed if it shows (mutants: whatever shows; never).
MutDismissAny(d) == Dismissed(d)
MutDialogStays(d) == UNCHANGED <<dialogs, dialogTop>>
DismissTop(d) ==
  IF dialogTop[d] THEN Dismissed(d) ELSE UNCHANGED <<dialogs, dialogTop>>

\* The other end hung up: stop if started, and take alertDialog2 away.
ServerHangUp(d) ==
  /\ NextMessage(d, "server", "data")
  /\ Head(Head(uiQueue[d]).cmds) = "hangup"
  /\ StopIfStarted(d)
  /\ DismissTop(d)
  /\ UNCHANGED <<conns, alive, clientVars, serverVars, room, address, destCall,
                 stopping, histVars>>

Looper(d) ==
  \/ ClientFail(d) \/ ClientSuccess(d) \/ ClientData(d)
  \/ ServerFail(d) \/ ServerRequest(d) \/ ServerHangUp(d)
-----------------------------------------------------------------------------
User(d) ==
  \/ \E e \in Device : TypeRoom(d, e)
  \/ KeyDial(d)
  \/ \E t \in Thread : StartPressed(d, t)
  \/ CallPressed(d) \/ StopPressed(d)
  \/ AcceptPressed(d) \/ RefusePressed(d)

WakeUp(d) == WakeClient(d) \/ WakeServer(d)

ClientThread(d, t) ==
  SocketThread(d, t) /\ UNCHANGED <<serverVars, callVars, histVars>>
ClientSend(d, m) ==
  SenderThread(d, m) /\ UNCHANGED <<serverVars, callVars, histVars>>
ServerAccept(d) ==
  ServerThread(d) /\ UNCHANGED <<clientVars, callVars, histVars>>
ServerReceive(d, r) ==
  ReceiveThread(d, r) /\ UNCHANGED <<clientVars, callVars, histVars>>
ServerSend(d) ==
  SendThread(d) /\ UNCHANGED <<clientVars, callVars, histVars>>

LinkLoss(c) ==
  /\ Lossy
  /\ LinkReset(c)
  /\ UNCHANGED <<clientVars, serverVars, callVars, histVars>>

Next ==
  \/ \E d \in Device :
       \/ User(d) \/ WakeUp(d) \/ Looper(d)
       \/ \E t \in Thread : ClientThread(d, t)
       \/ \E m \in Cmd : ClientSend(d, m)
       \/ ServerAccept(d) \/ ServerSend(d)
       \/ \E r \in Conn : ServerReceive(d, r)
  \/ \E c \in Conn : LinkLoss(c)

Spec == Init /\ [][Next]_vars

(***************************************************************************)
(* The threads of the two endpoints, the Looper and the sleeps of btn_stop *)
(* go on whenever they can; users and the network owe nothing.             *)
(***************************************************************************)
Fairness ==
  \A d \in Device :
    /\ WF_vars(WakeUp(d)) /\ WF_vars(Looper(d))
    /\ \A t \in Thread : WF_vars(ClientThread(d, t))
    /\ \A m \in Cmd : WF_vars(ClientSend(d, m))
    /\ WF_vars(ServerAccept(d)) /\ WF_vars(ServerSend(d))
    /\ \A r \in Conn : WF_vars(ServerReceive(d, r))

FairSpec == Spec /\ Fairness
-----------------------------------------------------------------------------
\* No camera starts by itself: each start upon an accept goes back to a press of
\* "accept" of its own, each press to a dialog, each dialog to a call placed;
\* no reconnection, repeated read or replaced connection multiplies them.
CausalChain == starts <= accepts /\ accepts <= rings /\ rings <= dials

\* The liveness properties speak of connections nothing went wrong with.
Broken(c) == conns[c].reset \/ ~alive[conns[c].from] \/ ~alive[conns[c].to]

\* The caller who hangs up before the answer takes the dialog off the callee's
\* screen: the hand-up is written and read though the caller closes after it.
HangUpTakesDialogAway ==
  \A c \in Conn : \A d, e \in Device :
    (/\ conns[c].from = d /\ conns[c].to = e
     /\ hungUp[d] /\ ~conns[c].open["cli"] /\ dialogs[e] > 0)
      ~> (dialogs[e] = 0 \/ Broken(c))

\* An accepted call starts the caller's video, unless a caller hung up before.
AnswerStartsCaller ==
  (accepts > starts) ~>
    \/ accepts = starts
    \/ \E d \in Caller : hungUp[d]
    \/ \E c \in Conn : Broken(c)

\* The callee who hangs up ends the call at the caller too: video and connection.
CalleeHangUpEndsCall ==
  \A c \in Conn : \A d, e \in Device :
    (conns[c].from = d /\ conns[c].to = e /\ stopping[e] = "server")
      ~> (videoTo[d] = NoDevice /\ ~isConnect(d)) \/ Broken(c)

\* A caller whose connection is lost stops its video, unless the user has hung up:
\* an answer handled after that starts a video no failure stops.
LossStopsCaller ==
  \A c \in Conn : \A d \in Device :
    (conns[c].from = d /\ conns[c].reset /\ isStart[d] /\ videoTo[d] # NoDevice)
      ~> (videoTo[d] = NoDevice \/ hungUp[d] \/ ~alive[d])
-----------------------------------------------------------------------------
(***************************************************************************)
(* What the texts of the application say and the code does not do.         *)
(***************************************************************************)

\* A hand-up "hangs up the video" (Constants.java:11, "the other end has hung up",
\* MainActivity.java:326): the device that handles one has no video running after.
HangUpStopsVideo ==
  [][\A d \in Device : ServerHangUp(d) => videoTo'[d] = NoDevice]_vars
=============================================================================
