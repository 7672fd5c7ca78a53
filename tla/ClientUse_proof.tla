--------------------------- MODULE ClientUse_proof ---------------------------
(***************************************************************************)
(* Theorems about ClientUse, for every value of its constants: the types;  *)
(* for a careful application, that no connection is forgotten and that     *)
(* replies stay in order; for any, that no reply is lost or doubled.       *)
(*                                                                         *)
(* OpenIsCurrent is not inductive.  It survives the Dial of a thread only  *)
(* if the socket field is empty then, which is so because the application  *)
(* connects with an empty field and no other attempt is under way to set   *)
(* it meanwhile: that is CarefulInv.                                       *)
(*                                                                         *)
(* Nor is ReplyInOnePlace.  A reply that is moved must not find one of its *)
(* kind already in the new place, and a reply yet to be written must be    *)
(* nowhere; what is overwritten must be empty: that is PlaceInv.           *)
(*                                                                         *)
(* Nor is HandedInOrder.  The replies of a connection must be in order in  *)
(* all the places they pass through, from one place to the next: that is   *)
(* OrderInv.  It survives a post only if no two threads hold replies of    *)
(* one connection, though they share the stream field: that is SoleInv.    *)
(***************************************************************************)
EXTENDS ClientUse, SocketsTheorems

TypeInv == ClientOK /\ TypeOK

CarefulInv ==
  /\ \A d \in Device : \A t, u \in InFlight(d) : t = u
  /\ \A d \in Device, t \in Thread :
       /\ thread[d][t].pc \notin {"close", "forget"}
       /\ thread[d][t].pc \in {"start", "dial"} => mSocket[d] = None
  /\ OpenIsCurrent
-----------------------------------------------------------------------------
\* The type invariant, with StreamsSet.

LEMMA TypeInit == Init => TypeInv
<1> SUFFICES ASSUME Init PROVE TypeInv
  OBVIOUS
<1>1. ClientOK
  BY ClientInitType DEF Init
<1>2. origin \in Seq(Conn) /\ Len(origin) <= MaxReply
  BY ClientUseAssumption DEF Init
<1>3. handed \in [Device -> Seq(Cmd)] /\ stopped \in [Device -> BOOLEAN]
  BY DEF Init
<1> QED
  BY <1>1, <1>2, <1>3 DEF TypeInv, TypeOK, ClientOK

LEMMA TypeStep == TypeInv /\ [Next]_vars => TypeInv'
<1> SUFFICES ASSUME TypeInv, [Next]_vars PROVE TypeInv'
  OBVIOUS
<1>a. ClientOK /\ SocketsTypeOK /\ ClientTypeOK /\ StreamsSet
  BY DEF TypeInv, ClientOK
<1>b. /\ origin \in Seq(Conn) /\ Len(origin) <= MaxReply
      /\ handed \in [Device -> Seq(Cmd)] /\ stopped \in [Device -> BOOLEAN]
  BY DEF TypeInv, TypeOK
\* All that a step leaves to show.
<1>c. ASSUME ClientOK', origin' \in Seq(Conn), Len(origin') <= MaxReply,
             handed' \in [Device -> Seq(Cmd)], stopped' \in [Device -> BOOLEAN]
      PROVE  TypeInv'
  BY <1>c DEF TypeInv, TypeOK, ClientOK
<1>d. ASSUME SocketsTypeOK', UNCHANGED clientVars PROVE ClientOK'
  BY <1>a, <1>d DEF ClientOK, ClientTypeOK, StreamsSet, clientVars
<1>1. ASSUME NEW d \in Device, NEW e \in Device, NEW t \in Thread, AppConnect(d, e, t)
      PROVE  TypeInv'
  <2>1. ClientTypeOK' /\ StreamsSet'
    BY <1>a, <1>1, ConnectType DEF AppConnect
  <2>2. SocketsTypeOK'
    BY <1>a, <1>1 DEF AppConnect, sockVars, SocketsTypeOK
  <2>3. ClientOK'
    BY <2>1, <2>2 DEF ClientOK
  <2> QED
    BY <1>b, <1>c, <1>1, <2>3 DEF AppConnect
<1>2. ASSUME NEW d \in Device, AppDisconnect(d) PROVE TypeInv'
  <2>1. ClientTypeOK' /\ StreamsSet' /\ conns' \in [Conn -> ConnRec]
    BY <1>a, <1>2, DisconnectType DEF AppDisconnect
  <2>2. ClientOK'
    BY <1>a, <1>2, <2>1 DEF AppDisconnect, ClientOK, SocketsTypeOK
  <2> QED
    BY <1>b, <1>c, <1>2, <2>2 DEF AppDisconnect
<1>3. ASSUME NEW d \in Device, HandleFail(d) PROVE TypeInv'
  <2>1. ClientTypeOK' /\ StreamsSet' /\ conns' \in [Conn -> ConnRec]
    BY <1>a, <1>3, DisconnectType DEF HandleFail
  <2>2. uiQueue' \in [Device -> Seq(Message)]
    BY <1>a, <1>3, QueueTail DEF HandleFail, SocketsTypeOK
  <2>3. ClientOK'
    BY <1>a, <1>3, <2>1, <2>2 DEF HandleFail, ClientOK, SocketsTypeOK
  <2> QED
    BY <1>b, <1>c, <1>3, <2>3 DEF HandleFail
<1>4. ASSUME NEW d \in Device, HandleSuccess(d) PROVE TypeInv'
  <2>1. uiQueue' \in [Device -> Seq(Message)]
    BY <1>a, <1>4, QueueTail DEF HandleSuccess, SocketsTypeOK
  <2>2. ClientOK'
    BY <1>a, <1>d, <1>4, <2>1 DEF HandleSuccess, SocketsTypeOK
  <2> QED
    BY <1>b, <1>c, <1>4, <2>2 DEF HandleSuccess, useVars
<1>5. ASSUME NEW d \in Device, HandleData(d) PROVE TypeInv'
  <2>1. uiQueue' \in [Device -> Seq(Message)] /\ Head(uiQueue[d]) \in Message
    BY <1>a, <1>5, QueueTail DEF HandleData, SocketsTypeOK
  <2>2. Head(uiQueue[d]).cmds \in Seq(Cmd)
    BY <2>1 DEF Message
  <2>3. handed[d] \o Head(uiQueue[d]).cmds \in Seq(Cmd)
    BY <1>b, <2>2
  <2>4. ClientOK'
    BY <1>a, <1>d, <1>5, <2>1 DEF HandleData, SocketsTypeOK
  <2> QED
    BY <1>b, <1>c, <1>5, <2>3, <2>4 DEF HandleData
<1>6. ASSUME NEW c \in Conn, PeerSend(c) PROVE TypeInv'
  <2>1. Len(origin) + 1 \in Cmd
    BY <1>b, <1>6, ClientUseAssumption DEF PeerSend
  <2>2. "srv" \in Side /\ c \in ConnRef
    BY DEF Side, ConnRef
  <2>3. conns' \in [Conn -> ConnRec]
    BY <1>a, <1>6, <2>1, <2>2, WrittenType DEF PeerSend, SocketsTypeOK
  <2>4. origin' \in Seq(Conn) /\ Len(origin') <= MaxReply
    BY <1>b, <1>6, ClientUseAssumption DEF PeerSend
  <2>5. ClientOK'
    BY <1>a, <1>d, <1>6, <2>3 DEF PeerSend, SocketsTypeOK
  <2> QED
    BY <1>b, <1>c, <1>6, <2>4, <2>5 DEF PeerSend
<1>7. ASSUME NEW c \in Conn, PeerClose(c) PROVE TypeInv'
  <2>1. "srv" \in Side
    BY DEF Side
  <2>2. conns' \in [Conn -> ConnRec]
    BY <1>a, <1>7, <2>1, ClosedType DEF PeerClose, SocketsTypeOK
  <2>3. ClientOK'
    BY <1>a, <1>d, <1>7, <2>2 DEF PeerClose, SocketsTypeOK
  <2> QED
    BY <1>b, <1>c, <1>7, <2>3 DEF PeerClose, useVars
<1>8. ASSUME NEW c \in Conn, LinkLoss(c) PROVE TypeInv'
  <2>1. conns' \in [Conn -> ConnRec]
    BY <1>a, <1>8 DEF LinkLoss, LinkReset, SocketsTypeOK, ConnRec
  <2>2. ClientOK'
    BY <1>a, <1>d, <1>8, <2>1 DEF LinkLoss, LinkReset, SocketsTypeOK
  <2> QED
    BY <1>b, <1>c, <1>8, <2>2 DEF LinkLoss, useVars
<1>9. ASSUME NEW d \in Device, NEW t \in Thread, ThreadStep(d, t) PROVE TypeInv'
  <2>1. ClientOK'
    BY <1>a, <1>9, SocketThreadType DEF ThreadStep
  <2> QED
    BY <1>b, <1>c, <1>9, <2>1 DEF ThreadStep, useVars
<1>10. CASE UNCHANGED vars
  <2>1. ClientOK'
    BY <1>a, <1>d, <1>10 DEF vars, sockVars, SocketsTypeOK
  <2> QED
    BY <1>b, <1>c, <1>10, <2>1 DEF vars, useVars
<1> QED
  BY <1>1, <1>2, <1>3, <1>4, <1>5, <1>6, <1>7, <1>8, <1>9, <1>10 DEF Next

\* Every state of the client, its connections and its queue is well formed,
\* whatever the application and the peers do (TcpClient.java:27-240).
THEOREM TypeCorrect == Spec => []TypeOK
<1>1. TypeInv => TypeOK
  BY DEF TypeInv
<1> QED
  BY <1>1, TypeInit, TypeStep, PTL DEF Spec

\* No SocketThread ever reads from a null stream, though disconnect() and other
\* attempts change the fields under it: mInputStream is set before the first
\* read and never cleared (TcpClient.java:77,107,157-178).
THEOREM ReadsAStream == Spec => []StreamsSet
<1>1. TypeInv => StreamsSet
  BY DEF TypeInv, ClientOK
<1> QED
  BY <1>1, TypeInit, TypeStep, PTL DEF Spec
-----------------------------------------------------------------------------
\* The careful application.

\* What keeps CarefulInv: no connection opens, the socket field stays, and no
\* thread starts an attempt or gets to where the field must be empty.
LEMMA QuietStep ==
  ASSUME CarefulInv, NoneOpened, UNCHANGED <<mSocket, thread>>
  PROVE  CarefulInv'
BY DEF CarefulInv, NoneOpened, OpenIsCurrent, InFlight

LEMMA DisconnectStep ==
  ASSUME TypeInv, CarefulInv, NEW d \in Device, disconnect(d)
  PROVE  CarefulInv'
<1>a. /\ conns \in [Conn -> ConnRec] /\ mSocket \in [Device -> ConnRef]
      /\ thread \in [Device -> [Thread -> ThreadRec]]
      /\ mSocketThread[d] \in Thread \cup {0}
      /\ "cli" \in Side
  BY DEF TypeInv, TypeOK, SocketsTypeOK, ClientTypeOK, Side
<1>1. ASSUME NEW e \in Device, NEW t \in Thread PROVE thread'[e][t].pc = thread[e][t].pc
  <2>1. CASE thread' = thread
    BY <2>1
  <2>2. CASE thread' = [thread EXCEPT ![d][mSocketThread[d]].interrupted = TRUE]
    BY <1>a, <2>2 DEF ThreadRec
  <2> QED
    BY <2>1, <2>2 DEF disconnect, Interrupted
<1>2. \A e \in Device : mSocket[e] = None => mSocket'[e] = None
  BY <1>a DEF disconnect
<1>3. NoneOpened /\ \A c \in Conn : c = mSocket[d] => ~conns'[c].open["cli"]
  <2>1. /\ NoneOpened
        /\ \A c \in Conn : c \in {mOutputStream[d], mInputStream[d], mSocket[d]}
                             => ~conns'[c].open["cli"]
    BY <1>a, ClosedOpensNone DEF disconnect, ToShut
  <2> QED
    BY <2>1
<1>4. OpenIsCurrent'
  <2> SUFFICES ASSUME NEW c \in Conn, NEW e \in Device,
                      conns'[c].from = e, conns'[c].open["cli"]
               PROVE  mSocket'[e] = c
    BY DEF OpenIsCurrent
  <2>1. mSocket[e] = c
    BY <1>3 DEF CarefulInv, OpenIsCurrent, NoneOpened
  <2>2. e # d
    BY <1>3, <2>1
  <2> QED
    BY <1>a, <2>1, <2>2 DEF disconnect, ToShut
<1>5. \A e \in Device : InFlight(e)' = InFlight(e)
  BY <1>1 DEF InFlight
<1> QED
  BY <1>1, <1>2, <1>4, <1>5 DEF CarefulInv

\* A thread moves on, to anywhere but "start", "dial", "close" and "forget".
LEMMA AdvanceStep ==
  ASSUME TypeInv, CarefulInv, NEW d \in Device, NEW t \in Thread,
         NEW r, thread' = [thread EXCEPT ![d][t] = r],
         r.pc \notin {"start", "dial", "close", "forget"},
         r.pc \in Attempting => t \in InFlight(d),
         NoneOpened, UNCHANGED mSocket
  PROVE  CarefulInv'
<1>a. thread \in [Device -> [Thread -> ThreadRec]]
  BY DEF TypeInv, TypeOK, ClientTypeOK
<1>1. \A e \in Device, u \in Thread :
        IF e = d /\ u = t THEN thread'[e][u] = r ELSE thread'[e][u] = thread[e][u]
  BY <1>a
<1>2. \A e \in Device : InFlight(e)' \subseteq InFlight(e)
  BY <1>1 DEF InFlight
<1>3. OpenIsCurrent'
  BY DEF CarefulInv, OpenIsCurrent, NoneOpened
<1> QED
  BY <1>1, <1>2, <1>3 DEF CarefulInv

LEMMA CarefulInit == Init => CarefulInv
<1> SUFFICES ASSUME Init PROVE CarefulInv
  OBVIOUS
<1>1. \A d \in Device, t \in Thread : thread[d][t].pc = "unborn"
  BY DEF Init, ClientInit, Unborn
<1>2. \A c \in Conn : ~conns[c].open["cli"]
  BY DEF Init, SocketsInit, Unused, Side
<1> QED
  BY <1>1, <1>2 DEF CarefulInv, InFlight, Attempting, OpenIsCurrent

\* The steps of a SocketThread.
LEMMA CarefulThreadStep ==
  ASSUME TypeInv, CarefulInv, NEW d \in Device, NEW t \in Thread, SocketThread(d, t)
  PROVE  CarefulInv'
<1>a. /\ conns \in [Conn -> ConnRec] /\ mSocket \in [Device -> ConnRef]
      /\ thread \in [Device -> [Thread -> ThreadRec]]
      /\ "cli" \in Side
  BY DEF TypeInv, TypeOK, SocketsTypeOK, ClientTypeOK, Side
<1>b. UNCHANGED conns => NoneOpened
  BY DEF NoneOpened
<1>c. ASSUME Finish(d, t), NoneOpened, UNCHANGED mSocket PROVE CarefulInv'
  <2> DEFINE r == [Unborn EXCEPT !.pc = "done"]
  <2>1. r.pc = "done"
    BY DEF Unborn
  <2>2. thread' = [thread EXCEPT ![d][t] = r]
    BY <1>c DEF Finish
  <2>3. /\ r.pc \notin {"start", "dial", "close", "forget"}
        /\ r.pc \notin Attempting
    BY <2>1 DEF Attempting
  <2> HIDE DEF r
  <2> QED
    BY <1>c, <2>2, <2>3, AdvanceStep
<1>d. ASSUME NEW pc \in {"check", "streams", "announce", "loop"}, Goto(d, t, pc),
             pc # "loop" => t \in InFlight(d), NoneOpened, UNCHANGED mSocket
      PROVE  CarefulInv'
  <2> DEFINE r == [thread[d][t] EXCEPT !.pc = pc]
  <2>1. r.pc = pc /\ thread' = [thread EXCEPT ![d][t] = r]
    BY <1>a, <1>d DEF Goto, ThreadRec
  <2>2. /\ r.pc \notin {"start", "dial", "close", "forget"}
        /\ r.pc \in Attempting => t \in InFlight(d)
    BY <1>d, <2>1 DEF Attempting
  <2> HIDE DEF r
  <2> QED
    BY <1>d, <2>1, <2>2, AdvanceStep
<1>1. CASE Start(d, t)
  <2>1. mSocket[d] = None /\ thread[d][t].pc = "start"
    BY <1>1 DEF Start, At, CarefulInv
  <2>2. \A e \in Device, u \in Thread :
          IF e = d /\ u = t THEN thread'[e][u].pc = "dial"
                           ELSE thread'[e][u] = thread[e][u]
    BY <1>a, <1>1, <2>1 DEF Start, Goto, ThreadRec
  <2>3. \A e \in Device : InFlight(e)' = InFlight(e)
    BY <2>1, <2>2 DEF InFlight, Attempting
  <2>4. OpenIsCurrent'
    BY <1>1 DEF Start, sockVars, CarefulInv, OpenIsCurrent
  <2>5. UNCHANGED mSocket
    BY <1>1 DEF Start
  <2> QED
    BY <2>1, <2>2, <2>3, <2>4, <2>5 DEF CarefulInv
<1>2. CASE CloseOld(d, t)
  BY <1>2 DEF CloseOld, At, CarefulInv
<1>3. CASE ForgetOld(d, t)
  BY <1>3 DEF ForgetOld, At, CarefulInv
<1>4. CASE Dial(d, t)
  <2>0. thread[d][t].pc = "dial" /\ mSocket[d] = None /\ t \in InFlight(d)
    BY <1>4 DEF Dial, At, CarefulInv, InFlight, Attempting
  <2>1. CASE Fail(d, t) /\ UNCHANGED <<conns, mSocket>>
    BY <1>b, <1>c, <2>1 DEF Fail
  <2>2. ASSUME NEW c \in Conn, NextConn(c),
               conns' = [conns EXCEPT ![c] = Established(d, thread[d][t].to)],
               mSocket' = [mSocket EXCEPT ![d] = c], Goto(d, t, "check")
        PROVE  CarefulInv'
    <3>1. \A e \in Device, u \in Thread :
            IF e = d /\ u = t THEN thread'[e][u].pc = "check"
                             ELSE thread'[e][u] = thread[e][u]
      BY <1>a, <2>2 DEF Goto, ThreadRec
    <3>2. \A e \in Device : InFlight(e)' = InFlight(e)
      BY <2>0, <3>1 DEF InFlight, Attempting
    <3>3. /\ mSocket'[d] = c
          /\ \A e \in Device : e # d => mSocket'[e] = mSocket[e]
      BY <1>a, <2>2
    \* No other thread of d is where the field must be empty.
    <3>4. \A e \in Device, u \in Thread :
            thread'[e][u].pc \in {"start", "dial"} => mSocket'[e] = None
      <4> SUFFICES ASSUME NEW e \in Device, NEW u \in Thread,
                          thread'[e][u].pc \in {"start", "dial"}
                   PROVE  mSocket'[e] = None
        OBVIOUS
      <4>1. ~(e = d /\ u = t) /\ thread'[e][u] = thread[e][u]
        BY <3>1
      <4>2. u \in InFlight(e) /\ mSocket[e] = None
        BY <4>1 DEF CarefulInv, InFlight, Attempting
      <4>3. e # d
        BY <2>0, <4>1, <4>2 DEF CarefulInv
      <4> QED
        BY <3>3, <4>2, <4>3
    \* Nor has d a connection open that the new one would replace.
    <3>5. OpenIsCurrent'
      <4> SUFFICES ASSUME NEW b \in Conn, NEW e \in Device,
                          conns'[b].from = e, conns'[b].open["cli"]
                   PROVE  mSocket'[e] = b
        BY DEF OpenIsCurrent
      <4>1. CASE b = c
        <5>1. conns'[b] = Established(d, thread[d][t].to)
          BY <1>a, <2>2, <4>1
        <5>2. e = d
          BY <5>1 DEF Established, Unused
        <5> QED
          BY <3>3, <4>1, <5>2
      <4>2. CASE b # c
        <5>1. conns'[b] = conns[b]
          BY <1>a, <2>2, <4>2
        <5>2. mSocket[e] = b
          BY <5>1 DEF CarefulInv, OpenIsCurrent
        <5>3. e # d
          BY <2>0, <5>2 DEF None, Conn
        <5> QED
          BY <3>3, <5>2, <5>3
      <4> QED
        BY <4>1, <4>2
    <3>6. \A e \in Device, u \in Thread : thread'[e][u].pc \notin {"close", "forget"}
      BY <3>1 DEF CarefulInv
    <3> QED
      BY <3>2, <3>4, <3>5, <3>6 DEF CarefulInv
  <2> QED
    BY <1>4, <2>1, <2>2 DEF Dial
<1>5. CASE Check(d, t)
  <2>1. t \in InFlight(d) /\ NoneOpened /\ UNCHANGED mSocket
    BY <1>b, <1>5 DEF Check, At, InFlight, Attempting
  <2> QED
    BY <1>c, <1>d, <1>5, <2>1 DEF Check, NoSocket, Fail
<1>6. CASE GetStreams(d, t)
  <2>1. t \in InFlight(d) /\ UNCHANGED mSocket
    BY <1>6 DEF GetStreams, At, InFlight, Attempting
  <2>2. CASE Crash(d) /\ UNCHANGED thread
    <3>0. SocketsTypeOK /\ Crash(d)
      BY <2>2 DEF TypeInv, TypeOK
    <3>1. NoneOpened
      BY <3>0, CrashType
    <3> QED
      BY <2>1, <2>2, <3>1, QuietStep
  <2>3. CASE Fail(d, t) /\ UNCHANGED conns
    BY <1>b, <1>c, <2>1, <2>3 DEF Fail
  <2>4. CASE Goto(d, t, "announce") /\ UNCHANGED sockVars
    BY <1>b, <1>d, <2>1, <2>4 DEF sockVars
  <2> QED
    BY <1>6, <2>2, <2>3, <2>4 DEF GetStreams
<1>7. CASE Announce(d, t)
  BY <1>b, <1>d, <1>7 DEF Announce
<1>8. CASE Loop(d, t)
  <2> DEFINE r == [thread[d][t] EXCEPT !.pc = "read", !.stream = mInputStream[d]]
  <2>1. NoneOpened /\ UNCHANGED mSocket
    BY <1>b, <1>8 DEF Loop, sockVars
  <2>2. CASE thread' = [thread EXCEPT ![d][t] = r]
    <3>1. r.pc = "read"
      BY <1>a DEF ThreadRec
    <3>2. r.pc \notin {"start", "dial", "close", "forget"} /\ r.pc \notin Attempting
      BY <3>1 DEF Attempting
    <3> HIDE DEF r
    <3> QED
      BY <2>1, <2>2, <3>2, AdvanceStep
  <2> QED
    BY <1>a, <1>c, <1>8, <2>1, <2>2 DEF Loop
<1>9. CASE Read(d, t)
  <2> DEFINE c == thread[d][t].stream
  <2>0. c \in Conn /\ UNCHANGED mSocket
    BY <1>a, <1>9 DEF Read, At, TypeInv, ClientOK, StreamsSet, ThreadRec, ConnRef
  <2>1. ASSUME NEW n \in 1 .. Len(conns[c].inbox["cli"]), conns' = Taken(c, "cli", n),
               thread' = [thread EXCEPT ![d][t] =
                  [@ EXCEPT !.pc = "post", !.stream = None,
                            !.chunk = Copy(conns[c].inbox["cli"], n)]]
        PROVE  CarefulInv'
    <3> DEFINE r == [thread[d][t] EXCEPT !.pc = "post", !.stream = None,
                            !.chunk = Copy(conns[c].inbox["cli"], n)]
    <3>1. r.pc = "post" /\ thread' = [thread EXCEPT ![d][t] = r]
      BY <1>a, <2>1 DEF ThreadRec
    <3>2. NoneOpened
      <4>1. n \in Nat /\ "cli" \in Side /\ c \in Conn
        BY <1>a, <2>0
      <4> HIDE DEF c
      <4> QED
        BY <1>a, <2>1, <4>1, TakenOpensNone
    <3>3. r.pc \notin {"start", "dial", "close", "forget"} /\ r.pc \notin Attempting
      BY <3>1 DEF Attempting
    <3> HIDE DEF r, c
    <3> QED
      BY <2>0, <3>1, <3>2, <3>3, AdvanceStep
  <2>2. CASE /\ thread' = [thread EXCEPT ![d][t] = [@ EXCEPT !.pc = "loop", !.stream = None]]
             /\ UNCHANGED conns
    <3> DEFINE r == [thread[d][t] EXCEPT !.pc = "loop", !.stream = None]
    <3>1. r.pc = "loop" /\ thread' = [thread EXCEPT ![d][t] = r]
      BY <1>a, <2>2 DEF ThreadRec
    <3>2. r.pc \notin {"start", "dial", "close", "forget"} /\ r.pc \notin Attempting
      BY <3>1 DEF Attempting
    <3> HIDE DEF r, c
    <3> QED
      BY <1>b, <2>0, <2>2, <3>1, <3>2, AdvanceStep
  <2>3. CASE Fail(d, t) /\ UNCHANGED conns
    BY <1>b, <1>c, <2>0, <2>3 DEF Fail
  <2> QED
    BY <1>9, <2>1, <2>2, <2>3 DEF Read
<1>10. CASE PostData(d, t)
  <2> DEFINE r == [thread[d][t] EXCEPT !.pc = "loop", !.chunk = <<>>]
  <2>1. r.pc = "loop" /\ thread' = [thread EXCEPT ![d][t] = r]
    BY <1>a, <1>10 DEF PostData, ThreadRec
  <2>2. r.pc \notin {"start", "dial", "close", "forget"} /\ r.pc \notin Attempting
    BY <2>1 DEF Attempting
  <2>3. NoneOpened /\ UNCHANGED mSocket
    BY <1>b, <1>10 DEF PostData
  <2> HIDE DEF r
  <2> QED
    BY <2>1, <2>2, <2>3, AdvanceStep
<1> QED
  BY <1>1, <1>2, <1>3, <1>4, <1>5, <1>6, <1>7, <1>8, <1>9, <1>10 DEF SocketThread

LEMMA CarefulStep ==
  ASSUME Careful
  PROVE  TypeInv /\ CarefulInv /\ [Next]_vars => CarefulInv'
<1> SUFFICES ASSUME TypeInv, CarefulInv, [Next]_vars PROVE CarefulInv'
  OBVIOUS
<1>a. /\ conns \in [Conn -> ConnRec] /\ mSocket \in [Device -> ConnRef]
      /\ thread \in [Device -> [Thread -> ThreadRec]]
      /\ origin \in Seq(Conn)
      /\ "cli" \in Side /\ "srv" \in Side
  BY DEF TypeInv, TypeOK, SocketsTypeOK, ClientTypeOK, Side
<1>b. UNCHANGED <<conns, mSocket, thread>> => CarefulInv'
  BY QuietStep DEF NoneOpened
<1>1. ASSUME NEW d \in Device, NEW e \in Device, NEW t \in Thread, AppConnect(d, e, t)
      PROVE  CarefulInv'
  <2>1. InFlight(d) = {} /\ mSocket[d] = None /\ UNCHANGED <<conns, mSocket>>
    BY <1>1 DEF AppConnect, isConnect, connect, sockVars
  <2>2. \A f \in Device, u \in Thread :
          IF f = d /\ u = t THEN thread'[f][u].pc = "start"
                           ELSE thread'[f][u] = thread[f][u]
    BY <1>a, <1>1 DEF AppConnect, connect, ThreadRec
  <2>3. \A f \in Device : InFlight(f)' = IF f = d THEN {t} ELSE InFlight(f)
    BY <2>1, <2>2 DEF InFlight, Attempting
  <2>4. OpenIsCurrent'
    BY <2>1 DEF CarefulInv, OpenIsCurrent
  <2> QED
    BY <2>1, <2>2, <2>3, <2>4 DEF CarefulInv
<1>2. ASSUME NEW d \in Device, AppDisconnect(d) PROVE CarefulInv'
  BY <1>2, DisconnectStep DEF AppDisconnect
<1>3. ASSUME NEW d \in Device, HandleFail(d) PROVE CarefulInv'
  BY <1>3, DisconnectStep DEF HandleFail
<1>4. ASSUME NEW d \in Device, HandleSuccess(d) PROVE CarefulInv'
  BY <1>b, <1>4 DEF HandleSuccess, clientVars
<1>5. ASSUME NEW d \in Device, HandleData(d) PROVE CarefulInv'
  BY <1>b, <1>5 DEF HandleData, clientVars
<1>6. ASSUME NEW c \in Conn, PeerSend(c) PROVE CarefulInv'
  <2>1. Len(origin) + 1 \in Cmd /\ c \in ConnRef
    BY <1>a, <1>6, ClientUseAssumption DEF PeerSend, ConnRef
  <2>2. NoneOpened
    BY <1>a, <1>6, <2>1, WrittenOpensNone DEF PeerSend
  <2> QED
    BY <1>6, <2>2, QuietStep DEF PeerSend, clientVars
<1>7. ASSUME NEW c \in Conn, PeerClose(c) PROVE CarefulInv'
  <2>1. NoneOpened
    BY <1>a, <1>7, ClosedOpensNone DEF PeerClose
  <2> QED
    BY <1>7, <2>1, QuietStep DEF PeerClose, clientVars
<1>8. ASSUME NEW c \in Conn, LinkLoss(c) PROVE CarefulInv'
  <2>1. NoneOpened
    BY <1>a, <1>8 DEF LinkLoss, LinkReset, NoneOpened, ConnRec
  <2> QED
    BY <1>8, <2>1, QuietStep DEF LinkLoss, clientVars
<1>9. ASSUME NEW d \in Device, NEW t \in Thread, ThreadStep(d, t) PROVE CarefulInv'
  BY <1>9, CarefulThreadStep DEF ThreadStep
<1>10. CASE UNCHANGED vars
  BY <1>b, <1>10 DEF vars, sockVars, clientVars
<1> QED
  BY <1>1, <1>2, <1>3, <1>4, <1>5, <1>6, <1>7, <1>8, <1>9, <1>10 DEF Next

\* An application that connects only when the former attempt is over and its
\* connection disconnected never leaves a connection open that the client's
\* field has forgotten, for any number of devices, threads and connections
\* (TcpClient.java:60-79,157-178).
THEOREM NoneForgotten ==
  ASSUME Careful
  PROVE  Spec => []OpenIsCurrent
<1>1. CarefulInv => OpenIsCurrent
  BY DEF CarefulInv
<1>2. TypeInv /\ CarefulInv /\ [Next]_vars => CarefulInv'
  BY CarefulStep
<1> QED
  BY <1>1, <1>2, TypeInit, TypeStep, CarefulInit, PTL DEF Spec
-----------------------------------------------------------------------------
\* What the process dies of.  DiesOnlyStopped is not inductive: an attempt between
\* its dialling and its streams must know that only a disconnect() can have cleared
\* the field, and that isStop is still what it left.
StopSeen(d) ==
  /\ \A t \in Thread :
       thread[d][t].pc \in {"check", "streams"} /\ mSocket[d] = None => isStop[d]
  /\ ~alive[d] => isStop[d] /\ \E t \in Thread : thread[d][t].pc \in Attempting

StopInv == \A d \in Device : StopSeen(d)

\* Nothing of the device changes, or only threads that do not come to "check".
LEMMA StopSeenStays ==
  ASSUME NEW d \in Device, StopSeen(d), mSocket'[d] = mSocket[d], isStop'[d] = isStop[d],
         alive'[d] = alive[d],
         \A t \in Thread : thread'[d][t].pc = thread[d][t].pc
  PROVE  StopSeen(d)'
BY DEF StopSeen

\* A thread of a process that lives goes on and leaves the two fields alone.
LEMMA StopThreadStays ==
  ASSUME NEW d \in Device, NEW t \in Thread, StopSeen(d), alive'[d],
         mSocket'[d] = mSocket[d], isStop'[d] = isStop[d],
         \A u \in Thread : u # t => thread'[d][u].pc = thread[d][u].pc,
         thread'[d][t].pc = "check" => FALSE,
         thread'[d][t].pc = "streams" => mSocket[d] # None
  PROVE  StopSeen(d)'
BY DEF StopSeen

LEMMA StopThreadStep ==
  ASSUME TypeInv, CarefulInv, StopInv, NEW d \in Device, NEW t \in Thread,
         SocketThread(d, t)
  PROVE  StopInv'
<1>a. /\ conns \in [Conn -> ConnRec] /\ mSocket \in [Device -> ConnRef]
      /\ thread \in [Device -> [Thread -> ThreadRec]]
      /\ isStop \in [Device -> BOOLEAN] /\ alive \in [Device -> BOOLEAN]
  BY DEF TypeInv, TypeOK, SocketsTypeOK, ClientTypeOK
<1>b. StopSeen(d) /\ alive[d]
  BY DEF StopInv, SocketThread, Start, CloseOld, ForgetOld, Dial, Check, GetStreams,
         Announce, Loop, Read, PostData, At
\* The other devices.
<1>c. ASSUME NEW e \in Device, e # d PROVE StopSeen(e)'
  <2>1. mSocket'[e] = mSocket[e] /\ isStop'[e] = isStop[e]
    BY <1>a, <1>c DEF SocketThread, Start, CloseOld, ForgetOld, Dial, Check, GetStreams,
                Announce, Loop, Read, PostData, Fail
  <2>2. alive'[e] = alive[e]
    BY <1>a, <1>c DEF SocketThread, Start, CloseOld, ForgetOld, Dial, Check, GetStreams,
                Announce, Loop, Read, PostData, Fail, Crash, sockVars, NoSocket
  <2>3. thread'[e] = thread[e]
    BY <1>a, <1>c DEF SocketThread, Start, CloseOld, ForgetOld, Dial, Check, GetStreams,
                Announce, Loop, Read, PostData, Fail, Goto, Finish, NoSocket
  <2> QED
    BY <2>1, <2>2, <2>3, StopSeenStays DEF StopInv
<1> SUFFICES StopSeen(d)'
  BY <1>c DEF StopInv
<1>d. ASSUME Finish(d, t), mSocket' = mSocket, isStop' = isStop, alive' = alive
      PROVE  StopSeen(d)'
  <2>1. /\ thread'[d][t].pc = "done"
        /\ \A u \in Thread : u # t => thread'[d][u] = thread[d][u]
    BY <1>a, <1>d DEF Finish, Unborn
  <2> QED
    BY <1>b, <1>d, <2>1, StopThreadStays
<1>e. ASSUME NEW pc, Goto(d, t, pc), pc # "check", pc = "streams" => mSocket[d] # None,
             mSocket' = mSocket, isStop' = isStop, alive' = alive
      PROVE  StopSeen(d)'
  <2>1. /\ thread'[d][t].pc = pc
        /\ \A u \in Thread : u # t => thread'[d][u] = thread[d][u]
    BY <1>a, <1>e DEF Goto, ThreadRec
  <2> QED
    BY <1>b, <1>e, <2>1, StopThreadStays
<1>f. Fail(d, t) /\ mSocket' = mSocket /\ isStop' = isStop /\ alive' = alive => StopSeen(d)'
  BY <1>d DEF Fail
<1>1. CASE Start(d, t)
  BY <1>1, <1>e DEF Start, sockVars
<1>2. CASE CloseOld(d, t)
  BY <1>2 DEF CloseOld, At, CarefulInv
<1>3. CASE ForgetOld(d, t)
  BY <1>3 DEF ForgetOld, At, CarefulInv
<1>4. CASE Dial(d, t)
  <2>1. ASSUME NEW c \in Conn, mSocket' = [mSocket EXCEPT ![d] = c], Goto(d, t, "check")
        PROVE  StopSeen(d)'
    <3>1. mSocket'[d] # None
      BY <1>a, <2>1 DEF None, Conn
    <3>2. alive'[d]
      BY <1>4, <1>b DEF Dial
    <3> QED
      BY <3>1, <3>2 DEF StopSeen
  <2> QED
    BY <1>4, <1>f, <2>1 DEF Dial
<1>5. CASE Check(d, t)
  <2>1. CASE isConnect(d)
    BY <1>5, <1>e, <2>1 DEF Check, isConnect
  <2>2. CASE ~isConnect(d)
    BY <1>5, <1>f, <2>2 DEF Check, NoSocket
  <2> QED
    BY <2>1, <2>2
<1>6. CASE GetStreams(d, t)
  <2>0. thread[d][t].pc = "streams" /\ mSocket' = mSocket /\ isStop' = isStop
    BY <1>6 DEF GetStreams, At
  <2>1. CASE mSocket[d] = None /\ Crash(d) /\ UNCHANGED thread
    <3>1. isStop[d]
      BY <1>b, <2>0, <2>1 DEF StopSeen
    <3>2. "streams" \in Attempting
      BY DEF Attempting
    <3> QED
      BY <2>0, <2>1, <3>1, <3>2 DEF StopSeen
  <2>2. CASE Fail(d, t) /\ UNCHANGED alive
    BY <1>f, <2>0, <2>2
  <2>3. CASE Goto(d, t, "announce") /\ UNCHANGED sockVars
    BY <1>e, <2>0, <2>3 DEF sockVars
  <2> QED
    BY <1>6, <2>1, <2>2, <2>3 DEF GetStreams
\* The attempt that announces itself is the only one: no other is where the flag counts.
<1>7. CASE Announce(d, t)
  <2>1. /\ thread'[d][t].pc = "loop"
        /\ \A u \in Thread : u # t => thread'[d][u] = thread[d][u]
    BY <1>a, <1>7 DEF Announce, Goto, ThreadRec
  <2>2. t \in InFlight(d) /\ alive'[d]
    BY <1>7, <1>b DEF Announce, At, InFlight, Attempting
  <2>3. \A u \in Thread : thread'[d][u].pc \notin {"check", "streams"}
    <3> SUFFICES ASSUME NEW u \in Thread, u # t, thread[d][u].pc \in {"check", "streams"}
                 PROVE  FALSE
      BY <2>1
    <3>1. u \in InFlight(d)
      BY DEF InFlight, Attempting
    <3> QED
      BY <2>2, <3>1 DEF CarefulInv
  <2> QED
    BY <2>2, <2>3 DEF StopSeen
<1>8. CASE Loop(d, t)
  <2>1. CASE thread' = [thread EXCEPT ![d][t] =
                          [@ EXCEPT !.pc = "read", !.stream = mInputStream[d]]]
    <3>1. /\ thread'[d][t].pc = "read"
          /\ \A u \in Thread : u # t => thread'[d][u] = thread[d][u]
      BY <1>a, <2>1 DEF ThreadRec
    <3> QED
      BY <1>8, <1>b, <3>1, StopThreadStays DEF Loop, sockVars
  <2>2. CASE Finish(d, t)
    BY <1>8, <1>d, <2>2 DEF Loop, sockVars
  <2> QED
    BY <1>8, <2>1, <2>2 DEF Loop
<1>9. CASE Read(d, t)
  <2>1. ASSUME NEW r, thread' = [thread EXCEPT ![d][t] = r], r.pc \in {"post", "loop"}
        PROVE  StopSeen(d)'
    <3>1. /\ thread'[d][t].pc \in {"post", "loop"}
          /\ \A u \in Thread : u # t => thread'[d][u] = thread[d][u]
      BY <1>a, <2>1
    <3> QED
      BY <1>9, <1>b, <3>1, StopThreadStays DEF Read
  <2>2. ASSUME NEW n, thread' = [thread EXCEPT ![d][t] =
                  [@ EXCEPT !.pc = "post", !.stream = None, !.chunk = n]]
        PROVE  StopSeen(d)'
    <3> DEFINE r == [thread[d][t] EXCEPT !.pc = "post", !.stream = None, !.chunk = n]
    <3>1. r.pc = "post" /\ thread' = [thread EXCEPT ![d][t] = r]
      BY <1>a, <2>2 DEF ThreadRec
    <3> HIDE DEF r
    <3> QED
      BY <2>1, <3>1
  <2>3. CASE thread' = [thread EXCEPT ![d][t] = [@ EXCEPT !.pc = "loop", !.stream = None]]
    <3> DEFINE r == [thread[d][t] EXCEPT !.pc = "loop", !.stream = None]
    <3>1. r.pc = "loop" /\ thread' = [thread EXCEPT ![d][t] = r]
      BY <1>a, <2>3 DEF ThreadRec
    <3> HIDE DEF r
    <3> QED
      BY <2>1, <3>1
  <2>4. CASE Fail(d, t)
    BY <1>9, <1>f, <2>4 DEF Read
  <2> QED
    BY <1>9, <2>2, <2>3, <2>4 DEF Read
<1>10. CASE PostData(d, t)
  <2>1. /\ thread'[d][t].pc = "loop"
        /\ \A u \in Thread : u # t => thread'[d][u] = thread[d][u]
    BY <1>a, <1>10 DEF PostData, ThreadRec
  <2> QED
    BY <1>10, <1>b, <2>1, StopThreadStays DEF PostData
<1> QED
  BY <1>1, <1>2, <1>3, <1>4, <1>5, <1>6, <1>7, <1>8, <1>9, <1>10 DEF SocketThread

\* disconnect() of a process that lives sets the flag.
LEMMA StopDisconnectStep ==
  ASSUME TypeInv, StopInv, NEW d \in Device, alive[d], disconnect(d), UNCHANGED alive
  PROVE  StopInv'
<1>a. /\ mSocket \in [Device -> ConnRef] /\ isStop \in [Device -> BOOLEAN]
      /\ thread \in [Device -> [Thread -> ThreadRec]]
  BY DEF TypeInv, TypeOK, ClientTypeOK
<1>1. isStop'[d] /\ alive'[d]
  BY <1>a DEF disconnect
<1>2. \A e \in Device : e # d => /\ mSocket'[e] = mSocket[e] /\ isStop'[e] = isStop[e]
                                  /\ thread'[e] = thread[e]
  BY <1>a DEF disconnect, Interrupted
<1>3. StopSeen(d)'
  BY <1>1 DEF StopSeen
<1> QED
  BY <1>2, <1>3, StopSeenStays DEF StopInv

LEMMA StopStep ==
  ASSUME Careful
  PROVE  TypeInv /\ CarefulInv /\ StopInv /\ [Next]_vars => StopInv'
<1> SUFFICES ASSUME TypeInv, CarefulInv, StopInv, [Next]_vars PROVE StopInv'
  OBVIOUS
<1>a. thread \in [Device -> [Thread -> ThreadRec]]
  BY DEF TypeInv, TypeOK, ClientTypeOK
<1>b. UNCHANGED <<alive, mSocket, isStop, thread>> => StopInv'
  BY StopSeenStays DEF StopInv
<1>1. ASSUME NEW d \in Device, NEW e \in Device, NEW t \in Thread, AppConnect(d, e, t)
      PROVE  StopInv'
  <2>1. alive[d] /\ UNCHANGED <<alive, mSocket, isStop>>
    BY <1>1 DEF AppConnect, connect, sockVars
  <2>2. \A f \in Device, u \in Thread :
          IF f = d /\ u = t THEN thread'[f][u].pc = "start"
                           ELSE thread'[f][u] = thread[f][u]
    BY <1>a, <1>1 DEF AppConnect, connect, ThreadRec
  <2>3. StopSeen(d)'
    BY <2>1, <2>2, StopThreadStays DEF StopInv
  <2>4. ASSUME NEW f \in Device, f # d PROVE StopSeen(f)'
    BY <2>1, <2>2, <2>4, StopSeenStays DEF StopInv
  <2> QED
    BY <2>3, <2>4 DEF StopInv
<1>2. ASSUME NEW d \in Device, AppDisconnect(d) \/ HandleFail(d) PROVE StopInv'
  BY <1>2, StopDisconnectStep DEF AppDisconnect, HandleFail
<1>3. ASSUME NEW d \in Device, HandleSuccess(d) \/ HandleData(d) PROVE StopInv'
  BY <1>b, <1>3 DEF HandleSuccess, HandleData, clientVars
<1>4. ASSUME NEW c \in Conn, PeerSend(c) \/ PeerClose(c) \/ LinkLoss(c) PROVE StopInv'
  BY <1>b, <1>4 DEF PeerSend, PeerClose, LinkLoss, LinkReset, clientVars
<1>5. ASSUME NEW d \in Device, NEW t \in Thread, ThreadStep(d, t) PROVE StopInv'
  BY <1>5, StopThreadStep DEF ThreadStep
<1>6. CASE UNCHANGED vars
  BY <1>b, <1>6 DEF vars, sockVars, clientVars
<1> QED
  BY <1>1, <1>2, <1>3, <1>4, <1>5, <1>6 DEF Next

LEMMA StopInit == Init => StopInv
BY DEF Init, ClientInit, SocketsInit, Unborn, StopInv, StopSeen

\* A careful application's process dies of nothing but a disconnect() that overtakes
\* an attempt between the check of its socket and the streams, for any number of
\* devices, threads and connections (TcpClient.java:75-77,157-171).
THEOREM DeathIsAStop ==
  ASSUME Careful
  PROVE  Spec => []DiesOnlyStopped
<1>1. StopInv => DiesOnlyStopped
  BY DEF StopInv, StopSeen, DiesOnlyStopped, InFlight
<1>2. TypeInv /\ CarefulInv /\ [Next]_vars => CarefulInv'
  BY CarefulStep
<1>3. TypeInv /\ CarefulInv /\ StopInv /\ [Next]_vars => StopInv'
  BY StopStep
<1> QED
  BY <1>1, <1>2, <1>3, TypeInit, TypeStep, CarefulInit, StopInit, PTL DEF Spec
-----------------------------------------------------------------------------
(***************************************************************************)
(* No reply is lost or doubled.  The replies a holder has are what Hold of *)
(* SocketsTheorems makes of the state; Tidy is what makes the moves whole: *)
(* a buffer that is overwritten is empty, and so is a message that tells   *)
(* of no data.                                                             *)
(***************************************************************************)
Inbox == [c \in Conn |-> conns[c].inbox["cli"]]
Chunks == [d \in Device |-> [t \in Thread |-> thread[d][t].chunk]]
Held == Hold(Thread, Inbox, Chunks, uiQueue, handed)

Tidy ==
  /\ UnusedEmpty
  /\ \A d \in Device, t \in Thread : thread[d][t].pc # "post" => thread[d][t].chunk = <<>>
  /\ \A d \in Device : \A k \in DOMAIN uiQueue[d] :
       uiQueue[d][k].what # "data" => uiQueue[d][k].cmds = <<>>

Custody ==
  /\ \A r \in 1 .. Len(origin) : Once(Held, r)
  /\ \A r \in Nat : r > Len(origin) => Nowhere(Held, r)

PlaceInv == Tidy /\ Custody

\* What the steps that write no reply come to.
Carried == Tidy' /\ \A r \in Nat : Kept(Held, Held', r)

InboxStays == UnusedEmpty' /\ \A c \in Conn : conns'[c].inbox["cli"] = conns[c].inbox["cli"]
ThreadsStay ==
  \A d \in Device, t \in Thread :
    /\ thread'[d][t].chunk = thread[d][t].chunk
    /\ thread[d][t].pc = "post" => thread'[d][t].pc = "post"

\* What a step may do to the replies: nothing; thread t posts what its buffer has;
\* it reads n commands of its stream; the Looper hands over what its first message
\* has.  What is posted or handed may be nothing.
Stays == InboxStays /\ ThreadsStay /\ UNCHANGED <<uiQueue, handed>>

Posts(d, t) ==
  /\ InboxStays /\ UNCHANGED handed
  /\ \E what \in {"fail", "success", "data"} :
       /\ what # "data" => thread[d][t].chunk = <<>>
       /\ uiQueue' = Posted(d, "client", what, thread[d][t].chunk)
  /\ \E r : r.chunk = <<>> /\ thread' = [thread EXCEPT ![d][t] = r]

Reads(d, t) ==
  /\ thread[d][t].pc = "read" /\ UNCHANGED <<uiQueue, handed>>
  /\ \E c \in Conn : \E n \in 1 .. Len(conns[c].inbox["cli"]) :
       /\ conns' = Taken(c, "cli", n)
       /\ \E r : /\ r.pc = "post" /\ r.chunk = SubSeq(conns[c].inbox["cli"], 1, n)
                 /\ thread' = [thread EXCEPT ![d][t] = r]

Handles(d) ==
  /\ InboxStays /\ ThreadsStay /\ uiQueue[d] # <<>>
  /\ uiQueue' = [uiQueue EXCEPT ![d] = Tail(@)]
  /\ \/ handed' = [handed EXCEPT ![d] = @ \o Head(uiQueue[d]).cmds]
     \/ UNCHANGED handed /\ Head(uiQueue[d]).what # "data"

Moves ==
  \/ Stays
  \/ \E d \in Device : Handles(d) \/ \E t \in Thread : Posts(d, t) \/ Reads(d, t)

LEMMA HeldTypes ==
  ASSUME TypeInv
  PROVE  /\ Inbox \in [Conn -> Seq(Cmd)] /\ Chunks \in [Device -> [Thread -> Seq(Cmd)]]
         /\ uiQueue \in [Device -> Seq(Message)] /\ handed \in [Device -> Seq(Cmd)]
         /\ conns \in [Conn -> ConnRec] /\ "cli" \in Side /\ "srv" \in Side
         /\ thread \in [Device -> [Thread -> ThreadRec]]
<1>1. /\ conns \in [Conn -> ConnRec] /\ uiQueue \in [Device -> Seq(Message)]
      /\ thread \in [Device -> [Thread -> ThreadRec]] /\ handed \in [Device -> Seq(Cmd)]
      /\ "cli" \in Side /\ "srv" \in Side
  BY DEF TypeInv, TypeOK, SocketsTypeOK, ClientTypeOK, Side
<1>2. \A c \in Conn : conns[c].inbox["cli"] \in Seq(Cmd)
  BY <1>1 DEF ConnRec
<1>3. \A d \in Device, t \in Thread : thread[d][t].chunk \in Seq(Cmd)
  BY <1>1 DEF ThreadRec
<1> QED
  BY <1>1, <1>2, <1>3 DEF Inbox, Chunks

LEMMA InboxSame == InboxStays => Inbox' = Inbox
BY DEF InboxStays, Inbox

LEMMA ChunksSame == ThreadsStay => Chunks' = Chunks
<1> SUFFICES ASSUME ThreadsStay PROVE Chunks' = Chunks
  OBVIOUS
<1>1. \A d \in Device, t \in Thread : thread'[d][t].chunk = thread[d][t].chunk
  BY DEF ThreadsStay
<1> QED
  BY <1>1 DEF Chunks

\* One buffer gets q.
LEMMA ChunksSet ==
  ASSUME NEW d \in Device, NEW t \in Thread, NEW q,
         \A x \in Device, y \in Thread :
           thread'[x][y].chunk = IF x = d /\ y = t THEN q ELSE thread[x][y].chunk
  PROVE  Chunks' = [Chunks EXCEPT ![d][t] = q]
<1> DEFINE C == [Chunks EXCEPT ![d][t] = q]
<1>1. /\ \A x \in Device : x # d => C[x] = Chunks[x]
      /\ C[d] = [Chunks[d] EXCEPT ![t] = q]
      /\ \A x \in Device : Chunks[x] = [y \in Thread |-> thread[x][y].chunk]
      /\ C = [x \in Device |-> C[x]]
  BY DEF Chunks
<1>2. \A x \in Device : x # d => [y \in Thread |-> thread'[x][y].chunk] = C[x]
  BY <1>1
<1>3. [y \in Thread |-> thread'[d][y].chunk] = C[d]
  <2> DEFINE L == [y \in Thread |-> thread'[d][y].chunk]
             R == [y \in Thread |-> IF y = t THEN q ELSE thread[d][y].chunk]
  <2>1. C[d] = R
    <3>1. C[d] = [Chunks[d] EXCEPT ![t] = q]
      BY <1>1
    <3>2. Chunks[d] = [y \in Thread |-> thread[d][y].chunk]
      BY <1>1
    <3> HIDE DEF C
    <3> QED
      BY <3>1, <3>2
  <2>2. \A y \in Thread : L[y] = R[y]
    OBVIOUS
  <2>3. L = [y \in Thread |-> L[y]] /\ R = [y \in Thread |-> R[y]]
    OBVIOUS
  <2> HIDE DEF C, R
  <2>4. L = R
    <3> HIDE DEF L
    <3> QED
      BY <2>2, <2>3
  <2> QED
    BY <2>1, <2>4
<1> HIDE DEF C
<1>4. Chunks' = [x \in Device |-> [y \in Thread |-> thread'[x][y].chunk]]
  BY DEF Chunks
<1>5. Chunks' = C
  BY <1>1, <1>2, <1>3, <1>4
<1> QED
  BY <1>5 DEF C

LEMMA QuietInbox ==
  ASSUME TypeInv, Tidy, ConnsQuiet
  PROVE  InboxStays
<1>1. \A c \in Conn : conns'[c].inbox["cli"] = conns[c].inbox["cli"]
  BY DEF ConnsQuiet
<1>2. UnusedEmpty'
  BY QuietUnused DEF Tidy
<1> QED
  BY <1>1, <1>2 DEF InboxStays

LEMMA StayCarried ==
  ASSUME TypeInv, Tidy, Stays
  PROVE  Carried
<1>1. Held' = Held
  BY InboxSame, ChunksSame DEF Stays, Held
<1>2. Tidy'
  BY DEF Stays, Tidy, ThreadsStay, InboxStays
<1> QED
  BY <1>1, <1>2 DEF Carried, Kept

\* Thread t posts what its buffer has, be it nothing.
LEMMA PostCarried ==
  ASSUME TypeInv, Tidy, InboxStays, UNCHANGED handed,
         NEW d \in Device, NEW t \in Thread, NEW what \in {"fail", "success", "data"},
         what # "data" => thread[d][t].chunk = <<>>,
         uiQueue' = Posted(d, "client", what, thread[d][t].chunk),
         NEW r2, thread' = [thread EXCEPT ![d][t] = r2], r2.chunk = <<>>
  PROVE  Carried
<1> DEFINE m == [src |-> "client", what |-> what, cmds |-> thread[d][t].chunk]
<1>1. thread[d][t].chunk \in Seq(Cmd) /\ uiQueue[d] \in Seq(Message)
  BY HeldTypes DEF ThreadRec
<1>2. m \in Message /\ m.cmds = thread[d][t].chunk /\ m.what = what
  BY <1>1 DEF Message
<1>3. uiQueue' = [uiQueue EXCEPT ![d] = Append(uiQueue[d], m)]
  BY DEF Posted
<1> HIDE DEF m
<1>4. Chunks' = [Chunks EXCEPT ![d][t] = <<>>] /\ Chunks[d][t] = thread[d][t].chunk
  <2>1. \A x \in Device, y \in Thread :
          thread'[x][y].chunk = IF x = d /\ y = t THEN <<>> ELSE thread[x][y].chunk
    BY HeldTypes
  <2> QED
    BY <2>1, ChunksSet DEF Chunks
<1>5. ASSUME NEW r \in Nat PROVE Kept(Held, Held', r)
  <2>1. Kept(Hold(Thread, Inbox, Chunks, uiQueue, handed),
             Hold(Thread, Inbox, [Chunks EXCEPT ![d][t] = <<>>],
                  [uiQueue EXCEPT ![d] = Append(uiQueue[d], m)], handed), r)
    BY <1>2, <1>4, HeldTypes, PostKeeps
  <2> QED
    BY <1>3, <1>4, <2>1, InboxSame DEF Held
<1>6. Tidy'
  <2>1. \A x \in Device, y \in Thread : thread'[x][y].pc # "post" => thread'[x][y].chunk = <<>>
    BY HeldTypes DEF Tidy
  <2>2. ASSUME NEW x \in Device, NEW k \in DOMAIN uiQueue'[x], uiQueue'[x][k].what # "data"
        PROVE  uiQueue'[x][k].cmds = <<>>
    <3>1. CASE x # d
      BY <1>3, <2>2, <3>1, HeldTypes DEF Tidy
    <3>2. CASE x = d /\ k \in DOMAIN uiQueue[d]
      <4>1. uiQueue'[d] = Append(uiQueue[d], m)
        BY <1>3, HeldTypes
      <4>2. uiQueue'[d][k] = uiQueue[d][k]
        BY <1>1, <3>2, <4>1
      <4> QED
        BY <2>2, <3>2, <4>2 DEF Tidy
    <3>3. CASE x = d /\ k \notin DOMAIN uiQueue[d]
      <4>1. uiQueue'[d][k] = m
        BY <1>1, <1>3, <2>2, <3>3, HeldTypes
      <4> QED
        BY <1>2, <2>2, <3>3, <4>1
    <3> QED
      BY <3>1, <3>2, <3>3
  <2> QED
    BY <2>1, <2>2 DEF Tidy, InboxStays
<1> QED
  BY <1>5, <1>6 DEF Carried

\* The Looper takes a message; handed gets what is in it, be it nothing.
LEMMA HandleCarried ==
  ASSUME TypeInv, Tidy, InboxStays, ThreadsStay, NEW d \in Device, uiQueue[d] # <<>>,
         uiQueue' = [uiQueue EXCEPT ![d] = Tail(@)],
         \/ handed' = [handed EXCEPT ![d] = @ \o Head(uiQueue[d]).cmds]
         \/ UNCHANGED handed /\ Head(uiQueue[d]).what # "data"
  PROVE  Carried
<1>1. /\ uiQueue[d] \in Seq(Message) /\ Head(uiQueue[d]) = uiQueue[d][1]
      /\ 1 \in DOMAIN uiQueue[d] /\ handed[d] \in Seq(Cmd) /\ Len(uiQueue[d]) \in Nat
  BY HeldTypes
<1>2. handed' = [handed EXCEPT ![d] = handed[d] \o Head(uiQueue[d]).cmds]
  <2>1. CASE handed' = [handed EXCEPT ![d] = @ \o Head(uiQueue[d]).cmds]
    BY <2>1
  <2>2. CASE UNCHANGED handed /\ Head(uiQueue[d]).what # "data"
    <3>1. Head(uiQueue[d]).cmds = <<>>
      BY <1>1, <2>2 DEF Tidy
    <3>2. handed[d] \o <<>> = handed[d]
      BY <1>1
    <3> QED
      BY <2>2, <3>1, <3>2, HeldTypes
  <2> QED
    BY <2>1, <2>2
<1>3. ASSUME NEW r \in Nat PROVE Kept(Held, Held', r)
  <2>1. Kept(Hold(Thread, Inbox, Chunks, uiQueue, handed),
             Hold(Thread, Inbox, Chunks, [uiQueue EXCEPT ![d] = Tail(uiQueue[d])],
                  [handed EXCEPT ![d] = handed[d] \o Head(uiQueue[d]).cmds]), r)
    BY HeldTypes, HandleKeeps
  <2> QED
    BY <1>2, <2>1, InboxSame, ChunksSame DEF Held
<1>4. Tidy'
  <2>1. ASSUME NEW x \in Device, NEW k \in DOMAIN uiQueue'[x], uiQueue'[x][k].what # "data"
        PROVE  uiQueue'[x][k].cmds = <<>>
    <3>1. CASE x # d
      BY <2>1, <3>1, HeldTypes DEF Tidy
    <3>2. CASE x = d
      <4>1. k + 1 \in DOMAIN uiQueue[d] /\ uiQueue'[d][k] = uiQueue[d][k + 1]
        BY <1>1, <2>1, <3>2, HeldTypes
      <4> QED
        BY <2>1, <3>2, <4>1 DEF Tidy
    <3> QED
      BY <3>1, <3>2
  <2> QED
    BY <2>1 DEF Tidy, InboxStays, ThreadsStay
<1> QED
  BY <1>3, <1>4 DEF Carried

\* Thread t reads n commands of connection c.
LEMMA ReadCarried ==
  ASSUME TypeInv, Tidy, UNCHANGED <<uiQueue, handed>>,
         NEW d \in Device, NEW t \in Thread, thread[d][t].pc = "read",
         NEW c \in Conn, NEW n \in 1 .. Len(conns[c].inbox["cli"]),
         conns' = Taken(c, "cli", n),
         NEW r2, thread' = [thread EXCEPT ![d][t] = r2], r2.pc = "post",
         r2.chunk = SubSeq(conns[c].inbox["cli"], 1, n)
  PROVE  Carried
<1>1. thread[d][t].chunk = <<>>
  BY DEF Tidy
<1>2. /\ UnusedEmpty'
      /\ \A b \in Conn :
           conns'[b].inbox["cli"] =
             IF b = c THEN SubSeq(conns[c].inbox["cli"], n + 1, Len(conns[c].inbox["cli"]))
                      ELSE conns[b].inbox["cli"]
  BY HeldTypes, TakenInbox DEF Tidy
<1>3. /\ Inbox[c] = conns[c].inbox["cli"]
      /\ Inbox' = [Inbox EXCEPT ![c] = SubSeq(Inbox[c], n + 1, Len(Inbox[c]))]
  BY <1>2 DEF Inbox
<1>4. /\ Chunks[d][t] = <<>>
      /\ Chunks' = [Chunks EXCEPT ![d][t] = SubSeq(Inbox[c], 1, n)]
  <2>0. PICK q : q = SubSeq(Inbox[c], 1, n)
    OBVIOUS
  <2>1. r2.chunk = q
    BY <1>3, <2>0
  <2>2. \A x \in Device, y \in Thread :
          thread'[x][y].chunk = IF x = d /\ y = t THEN q ELSE thread[x][y].chunk
    BY <2>1, HeldTypes
  <2>3. Chunks' = [Chunks EXCEPT ![d][t] = q]
    BY ONLY <2>2, ChunksSet
  <2>4. Chunks[d][t] = <<>>
    BY <1>1 DEF Chunks
  <2> QED
    BY <2>0, <2>3, <2>4
<1>5. ASSUME NEW r \in Nat PROVE Kept(Held, Held', r)
  <2>1. Kept(Hold(Thread, Inbox, Chunks, uiQueue, handed),
             Hold(Thread, [Inbox EXCEPT ![c] = SubSeq(Inbox[c], n + 1, Len(Inbox[c]))],
                  [Chunks EXCEPT ![d][t] = SubSeq(Inbox[c], 1, n)], uiQueue, handed), r)
    BY <1>3, <1>4, HeldTypes, ReadKeeps
  <2> QED
    BY <1>3, <1>4, <2>1 DEF Held
<1>6. Tidy'
  BY <1>2, HeldTypes DEF Tidy
<1> QED
  BY <1>5, <1>6 DEF Carried

LEMMA MovesCarried == TypeInv /\ Tidy /\ Moves => Carried
<1> SUFFICES ASSUME TypeInv, Tidy, Moves PROVE Carried
  OBVIOUS
<1>1. CASE Stays
  BY <1>1, StayCarried
<1>2. ASSUME NEW d \in Device, Handles(d) PROVE Carried
  BY <1>2, HandleCarried DEF Handles
<1>3. ASSUME NEW d \in Device, NEW t \in Thread, Posts(d, t) PROVE Carried
  BY <1>3, PostCarried DEF Posts
<1>4. ASSUME NEW d \in Device, NEW t \in Thread, Reads(d, t) PROVE Carried
  <2>1. thread[d][t].pc = "read" /\ UNCHANGED <<uiQueue, handed>>
    BY <1>4 DEF Reads
  <2>2. ASSUME NEW c \in Conn, NEW n \in 1 .. Len(conns[c].inbox["cli"]),
               conns' = Taken(c, "cli", n),
               NEW r, r.pc = "post", r.chunk = SubSeq(conns[c].inbox["cli"], 1, n),
               thread' = [thread EXCEPT ![d][t] = r]
        PROVE  Carried
    BY <2>1, <2>2, ReadCarried
  <2> QED
    BY <1>4, <2>2 DEF Reads
<1> QED
  BY <1>1, <1>2, <1>3, <1>4 DEF Moves

LEMMA StayMoves ==
  ASSUME InboxStays, ThreadsStay, UNCHANGED <<uiQueue, handed>>
  PROVE  Moves
BY DEF Moves, Stays

LEMMA PostMoves ==
  ASSUME InboxStays, UNCHANGED handed,
         NEW d \in Device, NEW t \in Thread, NEW what \in {"fail", "success", "data"},
         what # "data" => thread[d][t].chunk = <<>>,
         uiQueue' = Posted(d, "client", what, thread[d][t].chunk),
         NEW r2, thread' = [thread EXCEPT ![d][t] = r2], r2.chunk = <<>>
  PROVE  Moves
<1>1. Posts(d, t)
  BY DEF Posts
<1> QED
  BY <1>1 DEF Moves

LEMMA HandleMoves ==
  ASSUME InboxStays, ThreadsStay, NEW d \in Device, uiQueue[d] # <<>>,
         uiQueue' = [uiQueue EXCEPT ![d] = Tail(@)],
         \/ handed' = [handed EXCEPT ![d] = @ \o Head(uiQueue[d]).cmds]
         \/ UNCHANGED handed /\ Head(uiQueue[d]).what # "data"
  PROVE  Moves
BY DEF Moves, Handles

LEMMA ReadMoves ==
  ASSUME UNCHANGED <<uiQueue, handed>>,
         NEW d \in Device, NEW t \in Thread, thread[d][t].pc = "read",
         NEW c \in Conn, NEW n \in 1 .. Len(conns[c].inbox["cli"]),
         conns' = Taken(c, "cli", n),
         NEW r2, thread' = [thread EXCEPT ![d][t] = r2], r2.pc = "post",
         r2.chunk = SubSeq(conns[c].inbox["cli"], 1, n)
  PROVE  Moves
<1>1. Reads(d, t)
  BY DEF Reads
<1> QED
  BY <1>1 DEF Moves

\* Thread t gets the record r2, its buffer as it is.
LEMMA OneThreadStays ==
  ASSUME TypeInv, NEW d \in Device, NEW t \in Thread, thread[d][t].pc # "post",
         NEW r2, thread' = [thread EXCEPT ![d][t] = r2], r2.chunk = thread[d][t].chunk
  PROVE  ThreadsStay
BY HeldTypes DEF ThreadsStay

LEMMA GotoStays ==
  ASSUME TypeInv, NEW d \in Device, NEW t \in Thread, thread[d][t].pc # "post",
         NEW pc, Goto(d, t, pc)
  PROVE  ThreadsStay
<1> DEFINE r == [thread[d][t] EXCEPT !.pc = pc]
<1>1. thread' = [thread EXCEPT ![d][t] = r]
  BY DEF Goto
<1>2. r.chunk = thread[d][t].chunk
  BY HeldTypes DEF ThreadRec
<1> HIDE DEF r
<1> QED
  BY <1>1, <1>2, OneThreadStays

LEMMA FinishStays ==
  ASSUME TypeInv, Tidy, NEW d \in Device, NEW t \in Thread, thread[d][t].pc # "post",
         Finish(d, t)
  PROVE  ThreadsStay
<1>1. thread[d][t].chunk = <<>> /\ [Unborn EXCEPT !.pc = "done"].chunk = <<>>
  BY DEF Tidy, Unborn
<1> QED
  BY <1>1, OneThreadStays DEF Finish

LEMMA SameConns == Tidy /\ UNCHANGED conns => InboxStays
BY DEF Tidy, InboxStays, UnusedEmpty

LEMMA FailMoves ==
  ASSUME TypeInv, Tidy, InboxStays, UNCHANGED handed, NEW d \in Device, NEW t \in Thread,
         thread[d][t].pc # "post", Fail(d, t)
  PROVE  Moves
<1> DEFINE r == [Unborn EXCEPT !.pc = "done"]
<1>1. thread[d][t].chunk = <<>> /\ r.chunk = <<>>
  BY DEF Tidy, Unborn
<1>2. /\ uiQueue' = Posted(d, "client", "fail", thread[d][t].chunk)
      /\ thread' = [thread EXCEPT ![d][t] = r]
  BY <1>1 DEF Fail, Finish
<1> HIDE DEF r
<1> QED
  BY <1>1, <1>2, PostMoves

\* disconnect() touches no reply.
LEMMA DisconnectStays ==
  ASSUME TypeInv, Tidy, NEW d \in Device, disconnect(d)
  PROVE  InboxStays /\ ThreadsStay
<1>1. InboxStays
  <2>1. ConnsQuiet
    BY HeldTypes, ClosedQuiet DEF disconnect
  <2> QED
    BY <2>1, QuietInbox
<1>2. ThreadsStay
  <2> DEFINE u == mSocketThread[d]
  <2>1. CASE u # 0 /\ thread[d][u].pc \in Attempting \cup Reading
    <3>1. thread' = [thread EXCEPT ![d][u].interrupted = TRUE]
      BY <2>1 DEF disconnect, Interrupted
    <3>2. u \in Thread
      BY <2>1 DEF TypeInv, TypeOK, ClientTypeOK
    <3> HIDE DEF u
    <3> QED
      BY <3>1, <3>2, HeldTypes DEF ThreadRec, ThreadsStay
  <2>2. CASE ~(u # 0 /\ thread[d][u].pc \in Attempting \cup Reading)
    BY <2>2 DEF disconnect, Interrupted, ThreadsStay
  <2> QED
    BY <2>1, <2>2
<1> QED
  BY <1>1, <1>2

LEMMA ThreadMoves ==
  ASSUME TypeInv, Tidy, NEW d \in Device, NEW t \in Thread, ThreadStep(d, t)
  PROVE  Moves
<1>a. UNCHANGED handed /\ SocketThread(d, t) /\ (UNCHANGED conns => InboxStays)
  BY SameConns DEF ThreadStep, useVars
<1>1. CASE Start(d, t)
  BY <1>a, <1>1, GotoStays, StayMoves DEF Start, At, sockVars
<1>2. CASE CloseOld(d, t)
  <2>1. InboxStays
    BY <1>2, HeldTypes, ClosedQuiet, CrashQuiet, QuietInbox DEF CloseOld
  <2>2. ThreadsStay /\ UNCHANGED uiQueue
    BY <1>2, GotoStays DEF CloseOld, Crash, At, ThreadsStay
  <2> QED
    BY <1>a, <2>1, <2>2, StayMoves
<1>3. CASE ForgetOld(d, t)
  BY <1>a, <1>3, GotoStays, StayMoves DEF ForgetOld, At, sockVars
<1>4. CASE Dial(d, t)
  <2>0. thread[d][t].pc # "post"
    BY <1>4 DEF Dial, At
  <2>1. ASSUME NEW c \in Conn, NextConn(c), Goto(d, t, "check"), UNCHANGED uiQueue,
               conns' = [conns EXCEPT ![c] = Established(d, thread[d][t].to)]
        PROVE  Moves
    <3>1. InboxStays
      BY <2>1, HeldTypes, EstablishedInbox DEF NextConn, InboxStays, Tidy
    <3> QED
      BY <1>a, <2>0, <2>1, <3>1, GotoStays, StayMoves
  <2>2. CASE Fail(d, t) /\ UNCHANGED conns
    BY <1>a, <2>0, <2>2, FailMoves
  <2> QED
    BY <1>4, <2>1, <2>2 DEF Dial
<1>5. CASE Check(d, t)
  <2>1. UNCHANGED conns /\ thread[d][t].pc # "post"
    BY <1>5 DEF Check, At
  <2>2. CASE Goto(d, t, "streams") /\ UNCHANGED uiQueue
    BY <1>a, <2>1, <2>2, GotoStays, StayMoves
  <2>3. CASE Fail(d, t)
    BY <1>a, <2>1, <2>3, FailMoves
  <2> QED
    BY <1>5, <2>2, <2>3 DEF Check, NoSocket
<1>6. CASE GetStreams(d, t)
  <2>0. thread[d][t].pc # "post"
    BY <1>6 DEF GetStreams, At
  <2>1. CASE Crash(d) /\ UNCHANGED thread
    <3>1. InboxStays /\ ThreadsStay /\ UNCHANGED uiQueue
      BY <2>1, HeldTypes, CrashQuiet, QuietInbox DEF Crash, ThreadsStay
    <3> QED
      BY <1>a, <3>1, StayMoves
  <2>2. CASE Fail(d, t) /\ UNCHANGED conns
    BY <1>a, <2>0, <2>2, FailMoves
  <2>3. CASE Goto(d, t, "announce") /\ UNCHANGED sockVars
    BY <1>a, <2>0, <2>3, GotoStays, StayMoves DEF sockVars
  <2> QED
    BY <1>6, <2>1, <2>2, <2>3 DEF GetStreams
<1>7. CASE Announce(d, t)
  <2> DEFINE r == [thread[d][t] EXCEPT !.pc = "loop"]
  <2>1. thread[d][t].chunk = <<>> /\ r.chunk = <<>>
    BY <1>7, HeldTypes DEF Announce, At, Tidy, ThreadRec
  <2>2. /\ thread' = [thread EXCEPT ![d][t] = r] /\ UNCHANGED conns
        /\ uiQueue' = Posted(d, "client", "success", thread[d][t].chunk)
    BY <1>7, <2>1 DEF Announce, Goto
  <2> HIDE DEF r
  <2> QED
    BY <1>a, <2>1, <2>2, PostMoves
<1>8. CASE Loop(d, t)
  <2> DEFINE r == [thread[d][t] EXCEPT !.pc = "read", !.stream = mInputStream[d]]
  <2>1. r.chunk = thread[d][t].chunk /\ thread[d][t].pc # "post"
    BY <1>8, HeldTypes DEF Loop, At, ThreadRec
  <2>2. thread' = [thread EXCEPT ![d][t] = r] \/ Finish(d, t)
    BY <1>8 DEF Loop
  <2> HIDE DEF r
  <2>3. ThreadsStay
    BY <2>1, <2>2, FinishStays, OneThreadStays
  <2> QED
    BY <1>a, <1>8, <2>3, StayMoves DEF Loop, sockVars
<1>9. CASE Read(d, t)
  <2> DEFINE c == thread[d][t].stream
  <2>0. c \in Conn /\ thread[d][t].pc = "read"
    BY <1>9, HeldTypes DEF Read, At, TypeInv, ClientOK, StreamsSet, ThreadRec, ConnRef
  <2>1. ASSUME NEW n \in 1 .. Len(conns[c].inbox["cli"]), conns' = Taken(c, "cli", n),
               thread' = [thread EXCEPT ![d][t] =
                  [@ EXCEPT !.pc = "post", !.stream = None,
                            !.chunk = Copy(conns[c].inbox["cli"], n)]],
               UNCHANGED uiQueue
        PROVE  Moves
    <3> DEFINE r == [thread[d][t] EXCEPT !.pc = "post", !.stream = None,
                            !.chunk = Copy(conns[c].inbox["cli"], n)]
    <3>1. /\ r.pc = "post" /\ r.chunk = SubSeq(conns[c].inbox["cli"], 1, n)
          /\ thread' = [thread EXCEPT ![d][t] = r]
      BY <2>1, HeldTypes DEF ThreadRec, Copy
    <3> HIDE DEF r, c
    <3>2. PICK b \in Conn : b = c
      BY <2>0
    <3>3. /\ conns' = Taken(b, "cli", n) /\ n \in 1 .. Len(conns[b].inbox["cli"])
          /\ r.chunk = SubSeq(conns[b].inbox["cli"], 1, n)
          /\ UNCHANGED <<uiQueue, handed>>
      BY <1>a, <2>1, <3>1, <3>2
    <3> QED
      BY <2>0, <3>1, <3>3, ReadMoves
  <2>2. CASE /\ thread' = [thread EXCEPT ![d][t] = [@ EXCEPT !.pc = "loop", !.stream = None]]
             /\ UNCHANGED <<conns, uiQueue>>
    <3> DEFINE r == [thread[d][t] EXCEPT !.pc = "loop", !.stream = None]
    <3>1. r.chunk = thread[d][t].chunk /\ thread' = [thread EXCEPT ![d][t] = r]
      BY <2>2, HeldTypes DEF ThreadRec
    <3> HIDE DEF r, c
    <3> QED
      BY <1>a, <2>0, <2>2, <3>1, OneThreadStays, StayMoves
  <2>3. CASE Fail(d, t) /\ UNCHANGED conns
    BY <1>a, <2>0, <2>3, FailMoves
  <2> QED
    BY <1>9, <2>1, <2>2, <2>3 DEF Read
<1>10. CASE PostData(d, t)
  <2> DEFINE r == [thread[d][t] EXCEPT !.pc = "loop", !.chunk = <<>>]
  <2>1. r.chunk = <<>> /\ thread' = [thread EXCEPT ![d][t] = r]
    BY <1>10, HeldTypes DEF PostData, ThreadRec
  <2>2. uiQueue' = Posted(d, "client", "data", thread[d][t].chunk) /\ UNCHANGED conns
    BY <1>10 DEF PostData, What
  <2> HIDE DEF r
  <2> QED
    BY <1>a, <2>1, <2>2, PostMoves
<1> QED
  BY <1>a, <1>1, <1>2, <1>3, <1>4, <1>5, <1>6, <1>7, <1>8, <1>9, <1>10 DEF SocketThread

\* Whatever writes no reply moves the replies that are there, and no more.
LEMMA StepMoves ==
  ASSUME TypeInv, Tidy, [Next]_vars, ~\E c \in Conn : PeerSend(c)
  PROVE  Moves /\ UNCHANGED origin
<1>a. UNCHANGED conns => InboxStays
  BY SameConns
<1>b. UNCHANGED thread => ThreadsStay
  BY DEF ThreadsStay
<1>1. ASSUME NEW d \in Device, NEW e \in Device, NEW t \in Thread, AppConnect(d, e, t)
      PROVE  Moves /\ UNCHANGED origin
  <2> DEFINE r == [thread[d][t] EXCEPT !.pc = "start", !.to = e]
  <2>1. /\ thread[d][t].pc # "post" /\ r.chunk = thread[d][t].chunk
        /\ thread' = [thread EXCEPT ![d][t] = r]
    BY <1>1, HeldTypes DEF AppConnect, connect, ThreadRec
  <2>2. UNCHANGED <<conns, uiQueue, origin, handed>>
    BY <1>1 DEF AppConnect, sockVars
  <2> HIDE DEF r
  <2> QED
    BY <1>a, <2>1, <2>2, OneThreadStays, StayMoves
<1>2. ASSUME NEW d \in Device, AppDisconnect(d) PROVE Moves /\ UNCHANGED origin
  BY <1>2, DisconnectStays, StayMoves DEF AppDisconnect
<1>3. ASSUME NEW d \in Device, HandleFail(d) PROVE Moves /\ UNCHANGED origin
  BY <1>3, DisconnectStays, HandleMoves DEF HandleFail
<1>4. ASSUME NEW d \in Device, HandleSuccess(d) PROVE Moves /\ UNCHANGED origin
  BY <1>a, <1>b, <1>4, HandleMoves DEF HandleSuccess, clientVars, useVars
<1>5. ASSUME NEW d \in Device, HandleData(d) PROVE Moves /\ UNCHANGED origin
  BY <1>a, <1>b, <1>5, HandleMoves DEF HandleData, clientVars
<1>6. ASSUME NEW c \in Conn, PeerClose(c) PROVE Moves /\ UNCHANGED origin
  <2>1. InboxStays
    BY <1>6, HeldTypes, ClosedQuiet, QuietInbox DEF PeerClose
  <2> QED
    BY <1>b, <1>6, <2>1, StayMoves DEF PeerClose, clientVars, useVars
<1>7. ASSUME NEW c \in Conn, LinkLoss(c) PROVE Moves /\ UNCHANGED origin
  <2>1. InboxStays
    BY <1>7, HeldTypes, ResetQuiet, QuietInbox DEF LinkLoss
  <2> QED
    BY <1>b, <1>7, <2>1, StayMoves DEF LinkLoss, LinkReset, clientVars, useVars
<1>8. ASSUME NEW d \in Device, NEW t \in Thread, ThreadStep(d, t)
      PROVE  Moves /\ UNCHANGED origin
  BY <1>8, ThreadMoves DEF ThreadStep, useVars
<1>9. CASE UNCHANGED vars
  BY <1>a, <1>b, <1>9, StayMoves DEF vars, sockVars, clientVars, useVars
<1> QED
  BY <1>1, <1>2, <1>3, <1>4, <1>5, <1>6, <1>7, <1>8, <1>9 DEF Next

\* A peer writes reply Len(origin) + 1, or nothing gets through.
LEMMA PeerSendPlaces ==
  ASSUME TypeInv, PlaceInv, NEW c \in Conn, PeerSend(c)
  PROVE  PlaceInv'
<1> DEFINE m == Len(origin) + 1
<1>a. origin \in Seq(Conn) /\ Len(origin) \in Nat /\ m \in Cmd /\ c \in ConnRef
  BY ClientUseAssumption DEF TypeInv, TypeOK, PeerSend, ConnRef
<1>b. "srv" \in Side /\ Other("srv") = "cli"
  BY OtherSide DEF Side
<1>c. UNCHANGED <<uiQueue, thread, handed>> /\ Chunks' = Chunks
  BY DEF PeerSend, clientVars, Chunks
<1>1. /\ UnusedEmpty'
      /\ \A b \in Conn :
           conns'[b].inbox["cli"] =
             IF b = c /\ conns[c].open["srv"] /\ ~conns[c].reset /\ conns[c].open["cli"]
             THEN Append(conns[c].inbox["cli"], m) ELSE conns[b].inbox["cli"]
  <2>1. conns' = Written(c, "srv", m)
    BY DEF PeerSend
  <2> HIDE DEF m
  <2> QED
    BY <1>a, <1>b, <2>1, HeldTypes, WrittenInbox DEF PlaceInv, Tidy
<1>2. Tidy'
  BY <1>c, <1>1 DEF PlaceInv, Tidy
<1>3. CASE conns[c].open["cli"] /\ ~conns[c].reset
  <2>1. Inbox' = [Inbox EXCEPT ![c] = Append(Inbox[c], m)]
    BY <1>1, <1>3 DEF PeerSend, Inbox
  <2>2. origin' = Append(origin, c) /\ Len(origin') = m
    BY <1>3, <1>a DEF PeerSend
  <2>3. /\ \A r : r # m => Kept(Held, Held', r)
        /\ Nowhere(Held, m) => Once(Held', m)
    <3> HIDE DEF m
    <3>1. LET S2 == Hold(Thread, [Inbox EXCEPT ![c] = Append(Inbox[c], m)], Chunks,
                         uiQueue, handed)
          IN  (\A r : r # m => Kept(Held, S2, r)) /\ (Nowhere(Held, m) => Once(S2, m))
      BY HeldTypes, WriteKeeps DEF Held
    <3>2. Held' = Hold(Thread, [Inbox EXCEPT ![c] = Append(Inbox[c], m)], Chunks,
                       uiQueue, handed)
      BY <1>c, <2>1 DEF Held
    <3> QED
      BY <3>1, <3>2
  <2>4. m \in Nat /\ m > Len(origin) /\ Nowhere(Held, m) /\ Once(Held', m)
    BY <1>a, <2>3 DEF PlaceInv, Custody
  <2>5. ASSUME NEW r \in 1 .. Len(origin') PROVE Once(Held', r)
    <3>1. r = m \/ (r # m /\ r \in 1 .. Len(origin))
      BY <1>a, <2>2
    <3> QED
      BY <2>3, <2>4, <3>1 DEF PlaceInv, Custody, Kept
  <2>6. ASSUME NEW r \in Nat, r > Len(origin') PROVE Nowhere(Held', r)
    <3>1. r # m /\ r > Len(origin)
      BY <1>a, <2>2, <2>6
    <3> QED
      BY <2>3, <3>1 DEF PlaceInv, Custody, Kept
  <2> QED
    BY <1>2, <2>5, <2>6 DEF PlaceInv, Custody
<1>4. CASE ~(conns[c].open["cli"] /\ ~conns[c].reset)
  <2>1. Inbox' = Inbox /\ UNCHANGED origin
    BY <1>1, <1>4 DEF PeerSend, Inbox
  <2>2. Held' = Held
    BY <1>c, <2>1 DEF Held
  <2> QED
    BY <1>2, <2>1, <2>2 DEF PlaceInv, Custody
<1> QED
  BY <1>3, <1>4

LEMMA PlaceStep == TypeInv /\ PlaceInv /\ [Next]_vars => PlaceInv'
<1> SUFFICES ASSUME TypeInv, PlaceInv, [Next]_vars PROVE PlaceInv'
  OBVIOUS
<1>1. CASE \E c \in Conn : PeerSend(c)
  BY <1>1, PeerSendPlaces
<1>2. CASE ~\E c \in Conn : PeerSend(c)
  <2>1. Carried /\ UNCHANGED origin
    BY <1>2, StepMoves, MovesCarried DEF PlaceInv
  <2>2. Len(origin) \in Nat
    BY DEF TypeInv, TypeOK
  <2> QED
    BY <2>1, <2>2 DEF PlaceInv, Custody, Carried, Kept
<1> QED
  BY <1>1, <1>2

LEMMA PlaceInit == Init => PlaceInv
<1> SUFFICES ASSUME Init PROVE PlaceInv
  OBVIOUS
<1>1. /\ \A c \in Conn : \A s \in Side : conns[c].inbox[s] = <<>> /\ ~conns[c].open[s]
      /\ \A d \in Device, t \in Thread : thread[d][t].chunk = <<>>
      /\ \A d \in Device : uiQueue[d] = <<>> /\ handed[d] = <<>>
      /\ origin = <<>>
  BY DEF Init, SocketsInit, ClientInit, Unborn, Unused
<1>2. Tidy
  BY <1>1 DEF Tidy, UnusedEmpty
<1>3. ASSUME NEW r PROVE Nowhere(Held, r)
  <2>1. /\ \A c \in Conn : Inbox[c] = <<>>
        /\ \A d \in Device, t \in Thread : Chunks[d][t] = <<>>
    BY <1>1 DEF Inbox, Chunks, Side
  <2>2. ASSUME NEW h \in Holder(Thread) PROVE Held[h] = <<>>
    BY <1>1, <2>1, HolderIs, HoldIs DEF Held
  <2>3. DOMAIN Held = Holder(Thread)
    BY HoldIs DEF Held
  <2> QED
    BY <2>2, <2>3 DEF Nowhere, Placed
<1> QED
  BY <1>1, <1>2, <1>3 DEF PlaceInv, Custody

\* What stands in one place of the holders is in one place of the state.
LEMMA OnceIsOne ==
  ASSUME TypeInv, NEW r, Once(Held, r)
  PROVE  Cardinality(Whereabouts(r)) = 1
<1>a. \A d \in Device : DOMAIN uiQueue[d] \subseteq Nat \ {0}
  BY HeldTypes
<1>b. /\ DOMAIN Held = Holder(Thread)
      /\ \A c \in Conn : Held[<<"unread", c, 0>>] = conns[c].inbox["cli"]
      /\ \A d \in Device, t \in Thread : Held[<<"read", d, t>>] = thread[d][t].chunk
      /\ \A d \in Device, k \in Nat \ {0} :
           Held[<<"posted", d, k>>] =
             IF k \in DOMAIN uiQueue[d] THEN uiQueue[d][k].cmds ELSE <<>>
      /\ \A d \in Device : Held[<<"handed", d, 0>>] = handed[d]
  <2>1. /\ \A c \in Conn : Inbox[c] = conns[c].inbox["cli"]
        /\ \A d \in Device, t \in Thread : Chunks[d][t] = thread[d][t].chunk
    BY DEF Inbox, Chunks
  <2> QED
    BY <2>1, HoldIs DEF Held
<1>c. \A x : x \in Whereabouts(r) <=>
        \/ \E c \in Conn : x \in Marks(<<"unread", c, 0>>, conns[c].inbox["cli"], r)
        \/ \E d \in Device, t \in Thread :
             x \in Marks(<<"read", d, t>>, thread[d][t].chunk, r)
        \/ \E d \in Device : \E k \in DOMAIN uiQueue[d] :
             x \in Marks(<<"posted", d, k>>, uiQueue[d][k].cmds, r)
        \/ \E d \in Device : x \in Marks(<<"handed", d, 0>>, handed[d], r)
  <2> DEFINE A == UNION {Marks(<<"unread", c, 0>>, conns[c].inbox["cli"], r) : c \in Conn}
             Q(d) == UNION {Marks(<<"read", d, t>>, thread[d][t].chunk, r) : t \in Thread}
             B == UNION {Q(d) : d \in Device}
             P(d) == UNION {Marks(<<"posted", d, k>>, uiQueue[d][k].cmds, r) :
                              k \in DOMAIN uiQueue[d]}
             C == UNION {P(d) : d \in Device}
             D == UNION {Marks(<<"handed", d, 0>>, handed[d], r) : d \in Device}
  <2>1. Whereabouts(r) = A \cup B \cup C \cup D
    BY DEF Whereabouts
  <2>2. ASSUME NEW x PROVE /\ x \in A <=> \E c \in Conn :
                                  x \in Marks(<<"unread", c, 0>>, conns[c].inbox["cli"], r)
                           /\ x \in D <=> \E d \in Device :
                                  x \in Marks(<<"handed", d, 0>>, handed[d], r)
    OBVIOUS
  <2>3. ASSUME NEW x, NEW d PROVE x \in Q(d) <=> \E t \in Thread :
                             x \in Marks(<<"read", d, t>>, thread[d][t].chunk, r)
    OBVIOUS
  <2>4. ASSUME NEW x, NEW d PROVE x \in P(d) <=> \E k \in DOMAIN uiQueue[d] :
                             x \in Marks(<<"posted", d, k>>, uiQueue[d][k].cmds, r)
    OBVIOUS
  <2> HIDE DEF A, D, P, Q
  <2>5. ASSUME NEW x PROVE /\ x \in B <=> \E d \in Device : x \in Q(d)
                           /\ x \in C <=> \E d \in Device : x \in P(d)
    OBVIOUS
  <2> HIDE DEF B, C
  <2> QED
    BY <2>1, <2>2, <2>3, <2>4, <2>5
<1>1. ASSUME NEW x \in Whereabouts(r)
      PROVE  \E h, i : x = <<h, i>> /\ Placed(Held, h, i, r)
  <2>1. CASE \E c \in Conn : x \in Marks(<<"unread", c, 0>>, conns[c].inbox["cli"], r)
    BY <1>b, <2>1, HolderIs DEF Marks, Placed
  <2>2. CASE \E d \in Device, t \in Thread :
               x \in Marks(<<"read", d, t>>, thread[d][t].chunk, r)
    BY <1>b, <2>2, HolderIs DEF Marks, Placed
  <2>3. CASE \E d \in Device : \E k \in DOMAIN uiQueue[d] :
               x \in Marks(<<"posted", d, k>>, uiQueue[d][k].cmds, r)
    BY <1>a, <1>b, <2>3, HolderIs DEF Marks, Placed
  <2>4. CASE \E d \in Device : x \in Marks(<<"handed", d, 0>>, handed[d], r)
    BY <1>b, <2>4, HolderIs DEF Marks, Placed
  <2> QED
    BY <1>1, <1>c, <2>1, <2>2, <2>3, <2>4
<1>2. ASSUME NEW h, NEW i, Placed(Held, h, i, r) PROVE <<h, i>> \in Whereabouts(r)
  <2>0. h \in Holder(Thread) /\ i \in DOMAIN Held[h] /\ Held[h][i] = r
    BY <1>b, <1>2 DEF Placed
  <2>1. <<h, i>> \in Marks(h, Held[h], r)
    BY <2>0 DEF Marks
  <2>2. CASE \E c \in Conn : h = <<"unread", c, 0>>
    BY <1>b, <1>c, <2>1, <2>2
  <2>3. CASE \E d \in Device, t \in Thread : h = <<"read", d, t>>
    BY <1>b, <1>c, <2>1, <2>3
  <2>4. CASE \E d \in Device, k \in Nat \ {0} : h = <<"posted", d, k>>
    <3>1. PICK d \in Device, k \in Nat \ {0} : h = <<"posted", d, k>>
      BY <2>4
    <3>2. k \in DOMAIN uiQueue[d] /\ Held[h] = uiQueue[d][k].cmds
      BY <1>b, <2>0, <3>1
    <3> QED
      BY <1>c, <2>1, <3>1, <3>2
  <2>5. CASE \E d \in Device : h = <<"handed", d, 0>>
    BY <1>b, <1>c, <2>1, <2>5
  <2> QED
    BY <2>0, <2>2, <2>3, <2>4, <2>5, HolderIs
<1> QED
  BY <1>1, <1>2, OnceCounts

\* A reply that reached the client's host is neither lost nor handed to the
\* listener twice, however often the application connects and disconnects and
\* however many SocketThreads read the stream the shared field holds
\* (TcpClient.java:100-126, 248-257).
THEOREM NoReplyLost == Spec => []ReplyInOnePlace
<1>1. TypeInv /\ PlaceInv => ReplyInOnePlace
  BY OnceIsOne DEF PlaceInv, Custody, ReplyInOnePlace
<1> QED
  BY <1>1, TypeInit, TypeStep, PlaceInit, PlaceStep, PTL DEF Spec
-----------------------------------------------------------------------------
(***************************************************************************)
(* The order of the replies, for a careful application.                    *)
(***************************************************************************)

\* What a thread with the record r has to do with connection c: it is reading from
\* it, has read from it, or, being the latest thread, may yet come to read from it.
ClaimsWith(d, t, r, c) ==
  \/ r.pc = "read" /\ r.stream = c
  \/ Of(origin, r.chunk, c)
  \/ t = mSocketThread[d] /\ r.pc \in {"check", "streams"} /\ mSocket[d] = c
  \/ t = mSocketThread[d] /\ r.pc \in Reading \cup {"announce"} /\ mInputStream[d] = c

Claims(d, t, c) == ClaimsWith(d, t, thread[d][t], c)

\* Only the latest thread is in an attempt, and any other one that reads has been
\* interrupted, as has the latest itself once the socket field is empty.
Leads(d, t, r) ==
  /\ r.pc \in Attempting => t = mSocketThread[d]
  /\ r.pc \in Reading => t = mSocketThread[d] \/ r.interrupted
  /\ r.pc \in Reading \cup {"announce"} /\ mSocket[d] = None => r.interrupted

SoleAt(d) ==
  /\ \A t \in Thread : Leads(d, t, thread[d][t])
  /\ \A c \in Conn : \A t, u \in Thread : Claims(d, t, c) /\ Claims(d, u, c) => t = u

Fresh ==
  \A c \in Conn : conns[c].from = NoDevice =>
    /\ \A d \in Device : mSocket[d] # c /\ mInputStream[d] # c
    /\ \A d \in Device, t \in Thread : thread[d][t].stream # c
    /\ \A i \in DOMAIN origin : origin[i] # c

SoleInv == Fresh /\ \A d \in Device : SoleAt(d)

\* The fields that SoleAt(d) is about.
SameFields(d) ==
  mSocket'[d] = mSocket[d] /\ mInputStream'[d] = mInputStream[d]
  /\ mSocketThread'[d] = mSocketThread[d]

\* A device whose threads and fields stay, and whose buffers hold commands of no
\* other connections than before.
LEMMA SoleStays ==
  ASSUME NEW d \in Device, SoleAt(d), SameFields(d), thread'[d] = thread[d],
         \A t \in Thread, c \in Conn :
           Of(origin', thread[d][t].chunk, c) => Of(origin, thread[d][t].chunk, c)
  PROVE  SoleAt(d)'
<1>1. \A t \in Thread : Leads(d, t, thread[d][t])'
  BY DEF SoleAt, SameFields, Leads
<1>2. ASSUME NEW t \in Thread, NEW c \in Conn, Claims(d, t, c)' PROVE Claims(d, t, c)
  BY <1>2 DEF SameFields, Claims, ClaimsWith
<1> QED
  BY <1>1, <1>2 DEF SoleAt

\* Thread t gets the record r.  The fields may change if it is the latest thread.
LEMMA SoleThread ==
  ASSUME TypeInv, \A e \in Device : SoleAt(e), NEW d \in Device, NEW t \in Thread,
         NEW r, thread' = [thread EXCEPT ![d][t] = r],
         UNCHANGED <<mSocketThread, origin>>,
         \A e \in Device \ {d} : SameFields(e),
         SameFields(d) \/ t = mSocketThread[d],
         Leads(d, t, r)',
         \A c \in Conn, u \in Thread : ClaimsWith(d, t, r, c)' /\ Claims(d, u, c) => t = u
  PROVE  \A e \in Device : SoleAt(e)'
<1>a. /\ \A e \in Device \ {d} : thread'[e] = thread[e]
      /\ thread'[d][t] = r /\ \A u \in Thread \ {t} : thread'[d][u] = thread[d][u]
  BY HeldTypes
<1>1. ASSUME NEW e \in Device \ {d} PROVE SoleAt(e)'
  BY <1>a, SoleStays
<1>2. ASSUME NEW u \in Thread \ {t}
      PROVE  Leads(d, u, thread[d][u])' /\ \A c \in Conn : Claims(d, u, c)' => Claims(d, u, c)
  <2>1. Leads(d, u, thread[d][u])
    BY DEF SoleAt
  <2>2. CASE SameFields(d)
    BY <1>a, <2>1, <2>2 DEF SameFields, Leads, Claims, ClaimsWith
  <2>3. CASE t = mSocketThread[d]
    BY <1>a, <2>1, <2>3 DEF Leads, Claims, ClaimsWith, Attempting
  <2> QED
    BY <2>2, <2>3
<1>3. \A u \in Thread : Leads(d, u, thread[d][u])'
  BY <1>a, <1>2
<1>4. ASSUME NEW c \in Conn PROVE /\ Claims(d, t, c)' <=> ClaimsWith(d, t, r, c)'
  BY <1>a DEF Claims
<1>5. ASSUME NEW c \in Conn, NEW u \in Thread, NEW v \in Thread,
             Claims(d, u, c)', Claims(d, v, c)'
      PROVE  u = v
  <2>1. CASE u = t \/ v = t
    BY <1>2, <1>4, <1>5, <2>1
  <2>2. CASE u # t /\ v # t
    BY <1>2, <1>5, <2>2 DEF SoleAt
  <2> QED
    BY <2>1, <2>2
<1>6. SoleAt(d)'
  BY <1>3, <1>5 DEF SoleAt
<1> QED
  BY <1>1, <1>6

\* Thread t gets the record r, which claims nothing that the one before did not.
LEMMA SoleMove ==
  ASSUME TypeInv, \A e \in Device : SoleAt(e), NEW d \in Device, NEW t \in Thread,
         NEW r, thread' = [thread EXCEPT ![d][t] = r],
         UNCHANGED <<mSocket, mInputStream, mSocketThread, origin>>,
         Leads(d, t, r),
         \A c \in Conn : ClaimsWith(d, t, r, c) => Claims(d, t, c)
  PROVE  \A e \in Device : SoleAt(e)'
<1>1. Leads(d, t, r)' /\ \A e \in Device : SameFields(e)
  BY DEF Leads, SameFields
<1>2. ASSUME NEW c \in Conn, NEW u \in Thread, ClaimsWith(d, t, r, c)', Claims(d, u, c)
      PROVE  t = u
  <2>1. ClaimsWith(d, t, r, c)
    BY <1>2 DEF ClaimsWith
  <2> QED
    BY <1>2, <2>1 DEF SoleAt
<1> QED
  BY <1>1, <1>2, SoleThread

LEMMA SoleGoto ==
  ASSUME TypeInv, \A e \in Device : SoleAt(e), NEW d \in Device, NEW t \in Thread,
         UNCHANGED <<mSocket, mInputStream, mSocketThread, origin>>,
         NEW pc, Goto(d, t, pc), pc # "read",
         Leads(d, t, [thread[d][t] EXCEPT !.pc = pc]),
         \/ pc \in {"start", "dial", "done"}
         \/ pc = "streams" /\ thread[d][t].pc = "check"
         \/ pc = "loop" /\ thread[d][t].pc = "announce"
  PROVE  \A e \in Device : SoleAt(e)'
<1> DEFINE r == [thread[d][t] EXCEPT !.pc = pc]
<1>1. thread' = [thread EXCEPT ![d][t] = r] /\ Leads(d, t, r)
  BY DEF Goto
<1>2. r.pc = pc /\ r.chunk = thread[d][t].chunk
  BY HeldTypes DEF ThreadRec
<1> HIDE DEF r
<1>3. ASSUME NEW c \in Conn, ClaimsWith(d, t, r, c) PROVE Claims(d, t, c)
  BY <1>2, <1>3 DEF ClaimsWith, Claims, Reading
<1> QED
  BY <1>1, <1>3, SoleMove

LEMMA SoleFinish ==
  ASSUME TypeInv, \A e \in Device : SoleAt(e), NEW d \in Device, NEW t \in Thread,
         UNCHANGED <<mSocket, mInputStream, mSocketThread, origin>>, Finish(d, t)
  PROVE  \A e \in Device : SoleAt(e)'
<1> DEFINE r == [Unborn EXCEPT !.pc = "done"]
<1>1. thread' = [thread EXCEPT ![d][t] = r] /\ r.pc = "done" /\ r.chunk = <<>>
  BY DEF Finish, Unborn
<1> HIDE DEF r
<1>2. Leads(d, t, r) /\ \A c \in Conn : ~ClaimsWith(d, t, r, c)
  BY <1>1, OrderEmpty DEF Leads, ClaimsWith, Attempting, Reading
<1> QED
  BY <1>1, <1>2, SoleMove

\* disconnect() interrupts the latest thread, if it has not ended, and clears the
\* socket field.
LEMMA SoleDisconnect ==
  ASSUME TypeInv, \A e \in Device : SoleAt(e), NEW d \in Device, disconnect(d),
         UNCHANGED origin
  PROVE  \A e \in Device : SoleAt(e)'
<1>a. /\ thread \in [Device -> [Thread -> ThreadRec]] /\ mSocket \in [Device -> ConnRef]
      /\ mSocketThread[d] \in Thread \cup {0}
  BY DEF TypeInv, TypeOK, ClientTypeOK
<1>b. UNCHANGED <<mInputStream, mSocketThread, origin>> /\ mSocket'[d] = None
  BY <1>a DEF disconnect
<1>1. ASSUME NEW e \in Device, e # d PROVE SoleAt(e)'
  <2>1. SameFields(e) /\ thread'[e] = thread[e]
    BY <1>a, <1>1 DEF disconnect, Interrupted, SameFields
  <2> QED
    BY <1>b, <2>1, SoleStays
<1>2. ASSUME NEW t \in Thread
      PROVE  /\ thread'[d][t].pc = thread[d][t].pc
             /\ thread'[d][t].stream = thread[d][t].stream
             /\ thread'[d][t].chunk = thread[d][t].chunk
             /\ thread[d][t].interrupted => thread'[d][t].interrupted
             /\ t = mSocketThread[d] /\ thread[d][t].pc \in Attempting \cup Reading
                  => thread'[d][t].interrupted
  <2> DEFINE u == mSocketThread[d]
  <2>1. CASE u # 0 /\ thread[d][u].pc \in Attempting \cup Reading
    <3>1. thread' = [thread EXCEPT ![d][u].interrupted = TRUE] /\ u \in Thread
      BY <1>a, <2>1 DEF disconnect, Interrupted
    <3> HIDE DEF u
    <3>2. CASE t = u
      BY <1>a, <3>1, <3>2 DEF ThreadRec
    <3>3. CASE t # u
      <4>1. thread'[d][t] = thread[d][t]
        BY <1>a, <3>1, <3>3
      <4> QED
        BY <3>3, <4>1 DEF u
    <3> QED
      BY <3>2, <3>3
  <2>2. CASE ~(u # 0 /\ thread[d][u].pc \in Attempting \cup Reading)
    <3>1. thread' = thread /\ t # 0
      BY <2>2 DEF disconnect, Interrupted, Thread
    <3> QED
      BY <2>2, <3>1
  <2> QED
    BY <2>1, <2>2
<1>3. ASSUME NEW t \in Thread PROVE Leads(d, t, thread[d][t])'
  <2>1. Leads(d, t, thread[d][t])
    BY DEF SoleAt
  <2>2. thread'[d][t].pc \in Reading \cup {"announce"} => thread'[d][t].interrupted
    BY <1>2, <2>1 DEF Leads, Attempting, Reading
  <2> QED
    BY <1>2, <1>b, <2>1, <2>2 DEF Leads
<1>4. ASSUME NEW t \in Thread, NEW c \in Conn, Claims(d, t, c)' PROVE Claims(d, t, c)
  BY <1>2, <1>4, <1>b DEF Claims, ClaimsWith, None, Conn
<1>5. SoleAt(d)'
  BY <1>3, <1>4 DEF SoleAt
<1> QED
  BY <1>1, <1>5

\* A new thread becomes the latest one: no other is in an attempt, and all that read
\* have been interrupted since the socket field is empty.
LEMMA SoleConnect ==
  ASSUME TypeInv, \A e \in Device : SoleAt(e), NEW d \in Device, NEW f \in Device,
         NEW t \in Thread, connect(d, f, t), InFlight(d) = {}, mSocket[d] = None,
         thread[d][t].chunk = <<>>, UNCHANGED origin
  PROVE  \A e \in Device : SoleAt(e)'
<1> DEFINE r == [thread[d][t] EXCEPT !.pc = "start", !.to = f]
<1>a. /\ thread \in [Device -> [Thread -> ThreadRec]]
      /\ mSocketThread \in [Device -> Thread \cup {0}]
  BY DEF TypeInv, TypeOK, ClientTypeOK
<1>b. /\ thread' = [thread EXCEPT ![d][t] = r] /\ r.pc = "start" /\ r.chunk = <<>>
      /\ mSocketThread' = [mSocketThread EXCEPT ![d] = t]
      /\ UNCHANGED <<mSocket, mInputStream, origin>>
  BY <1>a DEF connect, ThreadRec
<1> HIDE DEF r
<1>c. /\ \A e \in Device \ {d} : thread'[e] = thread[e] /\ SameFields(e)
      /\ thread'[d][t] = r /\ mSocketThread'[d] = t
      /\ \A u \in Thread \ {t} : thread'[d][u] = thread[d][u]
  BY <1>a, <1>b DEF SameFields
<1>1. ASSUME NEW e \in Device \ {d} PROVE SoleAt(e)'
  BY <1>b, <1>c, SoleStays
<1>2. ASSUME NEW u \in Thread \ {t}
      PROVE  Leads(d, u, thread[d][u])' /\ \A c \in Conn : Claims(d, u, c)' => Claims(d, u, c)
  <2>1. Leads(d, u, thread[d][u]) /\ thread[d][u].pc \notin Attempting
    BY DEF SoleAt, InFlight
  <2> QED
    BY <1>b, <1>c, <2>1 DEF Leads, Claims, ClaimsWith, Attempting
<1>3. Leads(d, t, thread[d][t])' /\ \A c \in Conn : ~Claims(d, t, c)'
  BY <1>b, <1>c, OrderEmpty DEF Leads, Claims, ClaimsWith, Attempting, Reading
<1>4. SoleAt(d)'
  <2>1. \A u \in Thread : Leads(d, u, thread[d][u])'
    BY <1>2, <1>3
  <2>2. ASSUME NEW c \in Conn, NEW u \in Thread, NEW v \in Thread,
               Claims(d, u, c)', Claims(d, v, c)'
        PROVE  u = v
    <3>1. Claims(d, u, c) /\ Claims(d, v, c)
      BY <1>2, <1>3, <2>2
    <3> QED
      BY <3>1 DEF SoleAt
  <2> QED
    BY <2>1, <2>2 DEF SoleAt
<1> QED
  BY <1>1, <1>4

\* A connection yet to be made is in none of the fields.
LEMMA FreshStays ==
  ASSUME Fresh, \A c \in Conn : conns'[c].from = conns[c].from, UNCHANGED origin,
         \A d \in Device : mSocket'[d] \in {mSocket[d], None},
         \A d \in Device : mInputStream'[d] \in {mInputStream[d], mSocket[d]},
         \A d \in Device, t \in Thread :
           thread'[d][t].stream \in {thread[d][t].stream, mInputStream[d], None}
  PROVE  Fresh'
<1>1. \A c \in Conn : c # None
  BY DEF Conn, None
<1> QED
  BY <1>1 DEF Fresh

\* A connection is made: it is in the socket field of the thread that dialled.
LEMMA SoleDial ==
  ASSUME TypeInv, SoleInv, NEW d \in Device, NEW t \in Thread, thread[d][t].pc = "dial",
         NEW c \in Conn, NextConn(c),
         conns' = [conns EXCEPT ![c] = Established(d, thread[d][t].to)],
         mSocket' = [mSocket EXCEPT ![d] = c], Goto(d, t, "check"),
         UNCHANGED <<mInputStream, mSocketThread, origin>>,
         thread[d][t].chunk = <<>>
  PROVE  SoleInv'
<1> PICK r : r = [thread[d][t] EXCEPT !.pc = "check"]
  OBVIOUS
<1>a. /\ thread \in [Device -> [Thread -> ThreadRec]] /\ mSocket \in [Device -> ConnRef]
      /\ conns \in [Conn -> ConnRec]
  BY DEF TypeInv, TypeOK, ClientTypeOK, SocketsTypeOK
<1>b. /\ thread' = [thread EXCEPT ![d][t] = r] /\ r.pc = "check"
      /\ r.chunk = <<>> /\ r.stream = thread[d][t].stream
  BY <1>a DEF Goto, ThreadRec
<1>c. mSocket'[d] = c /\ \A e \in Device \ {d} : mSocket'[e] = mSocket[e]
  BY <1>a
<1>1. t = mSocketThread[d] /\ c # None
  BY DEF SoleInv, SoleAt, Leads, Attempting, Conn, None
\* Nobody else has to do with it.
<1>2. ASSUME NEW u \in Thread, NEW b \in Conn, ClaimsWith(d, t, r, b)', Claims(d, u, b)
      PROVE  t = u
  <2>1. b = c
    BY <1>b, <1>c, <1>2, OrderEmpty DEF ClaimsWith, Reading
  <2>2. ~Of(origin, thread[d][u].chunk, c)
    <3>1. \A i \in DOMAIN origin : origin[i] # c
      BY DEF SoleInv, Fresh, NextConn
    <3> QED
      BY <3>1 DEF Of
  <2>3. thread[d][u].stream # c /\ mSocket[d] # c /\ mInputStream[d] # c
    BY DEF SoleInv, Fresh, NextConn
  <2> QED
    BY <1>2, <2>1, <2>2, <2>3 DEF Claims, ClaimsWith
<1>3. Leads(d, t, r)'
  BY <1>b, <1>1 DEF Leads, Attempting, Reading
<1>4. \A e \in Device : SoleAt(e)'
  <2>1. \A e \in Device \ {d} : SameFields(e)
    BY <1>c DEF SameFields
  <2> QED
    BY <1>b, <1>1, <1>2, <1>3, <2>1, SoleThread DEF SoleInv
<1>5. Fresh'
  <2>1. /\ conns'[c].from = d /\ d # NoDevice
        /\ \A b \in Conn \ {c} : conns'[b] = conns[b]
    BY <1>a, SocketsAssumption DEF Established, Unused
  <2>2. \A e \in Device, u \in Thread : thread'[e][u].stream = thread[e][u].stream
    BY <1>a, <1>b
  <2> QED
    BY <1>c, <2>1, <2>2 DEF SoleInv, Fresh
<1> QED
  BY <1>4, <1>5 DEF SoleInv

\* The commands handed over, h, and those of the messages q still to be handled are
\* in order, one after the other; p is to come after all of them.
Line(o, h, q) ==
  /\ Sorted(o, h)
  /\ \A k \in DOMAIN q : Sorted(o, q[k].cmds) /\ Before(o, h, q[k].cmds)
  /\ \A k, l \in DOMAIN q : k < l => Before(o, q[k].cmds, q[l].cmds)

Past(o, h, q, p) == Before(o, h, p) /\ \A k \in DOMAIN q : Before(o, q[k].cmds, p)

\* A device's replies; those of its threads may come in any order.
InOrder(d) ==
  /\ Line(origin, handed[d], uiQueue[d])
  /\ \A t \in Thread : /\ Sorted(origin, thread[d][t].chunk)
                       /\ Past(origin, handed[d], uiQueue[d], thread[d][t].chunk)

\* The unread replies of a connection are its own, in order, and come after all else.
Unread(c, p) ==
  /\ Sorted(origin, p)
  /\ \A b : Of(origin, p, b) => b = c
  /\ \A d \in Device : /\ Past(origin, handed[d], uiQueue[d], p)
                       /\ \A t \in Thread : Before(origin, thread[d][t].chunk, p)

OrderInv ==
  /\ \A d \in Device : InOrder(d)
  /\ \A c \in Conn : Unread(c, conns[c].inbox["cli"])

LEMMA LinePosted ==
  ASSUME NEW q \in Seq(Message), NEW m \in Message, NEW o, NEW h, Line(o, h, q),
         Sorted(o, m.cmds), Past(o, h, q, m.cmds)
  PROVE  Line(o, h, Append(q, m))
<1> DEFINE s == Append(q, m)
<1>1. /\ Len(q) \in Nat /\ DOMAIN q = 1 .. Len(q) /\ DOMAIN s = 1 .. Len(q) + 1
      /\ \A k \in DOMAIN q : s[k] = q[k]
      /\ s[Len(q) + 1] = m
  OBVIOUS
<1> HIDE DEF s
<1>2. ASSUME NEW k \in DOMAIN s PROVE Sorted(o, s[k].cmds) /\ Before(o, h, s[k].cmds)
  <2>1. k \in DOMAIN q \/ k = Len(q) + 1
    BY <1>1
  <2> QED
    BY <1>1, <2>1 DEF Line, Past
<1>3. ASSUME NEW k \in DOMAIN s, NEW l \in DOMAIN s, k < l
      PROVE  Before(o, s[k].cmds, s[l].cmds)
  <2>1. k \in DOMAIN q /\ (l \in DOMAIN q \/ l = Len(q) + 1)
    BY <1>1, <1>3
  <2> QED
    BY <1>1, <1>3, <2>1 DEF Line, Past
<1> QED
  BY <1>2, <1>3 DEF Line, s

LEMMA PastPosted ==
  ASSUME NEW q \in Seq(Message), NEW m \in Message, NEW o, NEW h, NEW p, Past(o, h, q, p),
         Before(o, m.cmds, p)
  PROVE  Past(o, h, Append(q, m), p)
<1>1. /\ Len(q) \in Nat /\ DOMAIN q = 1 .. Len(q) /\ DOMAIN Append(q, m) = 1 .. Len(q) + 1
      /\ \A k \in DOMAIN q : Append(q, m)[k] = q[k]
      /\ Append(q, m)[Len(q) + 1] = m
  OBVIOUS
<1>2. ASSUME NEW k \in DOMAIN Append(q, m) PROVE Before(o, Append(q, m)[k].cmds, p)
  <2>1. k \in DOMAIN q \/ k = Len(q) + 1
    BY <1>1
  <2> QED
    BY <1>1, <2>1 DEF Past
<1> QED
  BY <1>2 DEF Past

LEMMA LineHandled ==
  ASSUME NEW q \in Seq(Message), q # <<>>, NEW h \in Seq(Cmd), NEW o, Line(o, h, q)
  PROVE  /\ Line(o, h \o Head(q).cmds, Tail(q))
         /\ \A p : Past(o, h, q, p) => Past(o, h \o Head(q).cmds, Tail(q), p)
<1> DEFINE m == Head(q).cmds  s == Tail(q)
<1>1. /\ Len(q) \in Nat /\ 1 \in DOMAIN q /\ Head(q) = q[1] /\ q[1] \in Message
      /\ DOMAIN s = 1 .. Len(q) - 1
      /\ \A k \in DOMAIN s : k + 1 \in DOMAIN q /\ s[k] = q[k + 1] /\ 1 < k + 1
  OBVIOUS
<1>2. m \in Seq(Cmd) /\ m = q[1].cmds
  BY <1>1 DEF Message
<1>3. /\ Sorted(o, h) /\ Sorted(o, m) /\ Before(o, h, m)
      /\ \A k \in DOMAIN s : /\ Sorted(o, s[k].cmds) /\ Before(o, h, s[k].cmds)
                             /\ Before(o, m, s[k].cmds)
  BY <1>1, <1>2 DEF Line
<1>4. ASSUME NEW k \in DOMAIN s, NEW l \in DOMAIN s, k < l
      PROVE  Before(o, s[k].cmds, s[l].cmds)
  <2>1. k + 1 < l + 1
    BY <1>1, <1>4
  <2> QED
    BY <1>1, <2>1 DEF Line
<1>5. ASSUME NEW p, Past(o, h, q, p)
      PROVE  Before(o, h, p) /\ Before(o, m, p) /\ \A k \in DOMAIN s : Before(o, s[k].cmds, p)
  BY <1>1, <1>2, <1>5 DEF Past
<1> HIDE DEF m, s
<1>6. /\ Sorted(o, h \o m)
      /\ \A p : Before(o, h \o m, p) <=> Before(o, h, p) /\ Before(o, m, p)
  BY <1>2, <1>3, OrderConcat
<1>7. Line(o, h \o m, s)
  BY <1>3, <1>4, <1>6 DEF Line
<1>8. ASSUME NEW p, Past(o, h, q, p) PROVE Past(o, h \o m, s, p)
  BY <1>5, <1>6, <1>8 DEF Past
<1> QED
  BY <1>7, <1>8 DEF m, s

\* One more command is written.
LEMMA LineKept ==
  ASSUME NEW X, NEW o \in Seq(X), NEW c \in X, NEW h, NEW q, Line(o, h, q)
  PROVE  /\ Line(Append(o, c), h, q)
         /\ \A p : Sorted(o, p) /\ Past(o, h, q, p) => Past(Append(o, c), h, q, p)
BY OrderKept DEF Line, Past

\* The replies stay where they are.
LEMMA OrderStays ==
  ASSUME OrderInv, Stays, UNCHANGED origin
  PROVE  OrderInv'
<1>1. /\ \A d \in Device, t \in Thread : thread'[d][t].chunk = thread[d][t].chunk
      /\ \A c \in Conn : conns'[c].inbox["cli"] = conns[c].inbox["cli"]
      /\ UNCHANGED <<uiQueue, handed, origin>>
  BY DEF Stays, ThreadsStay, InboxStays
<1>2. ASSUME NEW d \in Device PROVE InOrder(d)'
  BY <1>1 DEF OrderInv, InOrder
<1>3. ASSUME NEW c \in Conn PROVE Unread(c, conns[c].inbox["cli"])'
  <2>1. Unread(c, conns[c].inbox["cli"])
    BY DEF OrderInv
  <2> QED
    BY <1>1, <2>1 DEF Unread
<1> QED
  BY <1>2, <1>3 DEF OrderInv

\* Of two buffers with nothing of a connection in common either may come first.
LEMMA BeforeApart ==
  ASSUME NEW o, NEW p, NEW q, Sorted(o, p), Sorted(o, q), \A c : ~(Of(o, p, c) /\ Of(o, q, c))
  PROVE  Before(o, p, q)
BY DEF Before, Sorted, Of

\* A thread posts what it has read.
LEMMA OrderPosts ==
  ASSUME TypeInv, OrderInv, NEW d \in Device, NEW t \in Thread, SoleAt(d), Posts(d, t),
         UNCHANGED origin
  PROVE  OrderInv'
<1> DEFINE p == thread[d][t].chunk
<1>0. PICK m \in Message : m.cmds = p /\ uiQueue' = [uiQueue EXCEPT ![d] = Append(@, m)]
  <2>1. PICK what \in {"fail", "success", "data"} : uiQueue' = Posted(d, "client", what, p)
    BY DEF Posts
  <2>2. p \in Seq(Cmd)
    BY HeldTypes DEF ThreadRec
  <2>3. [src |-> "client", what |-> what, cmds |-> p] \in Message
    BY <2>2 DEF Message
  <2> QED
    BY <2>1, <2>3 DEF Posted
<1>1. /\ thread'[d][t].chunk = <<>>
      /\ \A e \in Device, u \in Thread : e # d \/ u # t => thread'[e][u] = thread[e][u]
  BY HeldTypes DEF Posts
<1>2. /\ uiQueue[d] \in Seq(Message) /\ uiQueue'[d] = Append(uiQueue[d], m)
      /\ \A e \in Device : e # d => uiQueue'[e] = uiQueue[e]
      /\ \A c \in Conn : conns'[c].inbox["cli"] = conns[c].inbox["cli"]
      /\ UNCHANGED <<handed, origin>>
  BY <1>0, HeldTypes DEF Posts, InboxStays
<1>3. /\ Line(origin, handed[d], uiQueue[d])
      /\ Sorted(origin, p) /\ Past(origin, handed[d], uiQueue[d], p)
  BY DEF OrderInv, InOrder
<1> HIDE DEF p
<1>4. ASSUME NEW u \in Thread, u # t PROVE Before(origin, p, thread[d][u].chunk)
  <2>1. Sorted(origin, thread[d][u].chunk)
    BY DEF OrderInv, InOrder
  <2>2. ASSUME NEW c, Of(origin, p, c), Of(origin, thread[d][u].chunk, c) PROVE FALSE
    <3>1. c \in Conn
      BY <2>2 DEF Of, TypeInv, TypeOK
    <3>2. Claims(d, t, c) /\ Claims(d, u, c)
      BY <2>2 DEF Claims, ClaimsWith, p
    <3> QED
      BY <1>4, <3>1, <3>2 DEF SoleAt
  <2> QED
    BY <1>3, <2>1, <2>2, BeforeApart
<1>5. Line(origin, handed[d], Append(uiQueue[d], m))
  BY <1>0, <1>2, <1>3, LinePosted DEF p
<1>6. ASSUME NEW r, Past(origin, handed[d], uiQueue[d], r), Before(origin, p, r)
      PROVE  Past(origin, handed[d], Append(uiQueue[d], m), r)
  BY <1>0, <1>2, <1>6, PastPosted DEF p
<1>7. InOrder(d)'
  <2>1. ASSUME NEW u \in Thread
        PROVE  /\ Sorted(origin, thread'[d][u].chunk)
               /\ Past(origin, handed[d], Append(uiQueue[d], m), thread'[d][u].chunk)
    <3>1. CASE u = t
      BY <1>1, <3>1, OrderEmpty DEF Past
    <3>2. CASE u # t
      <4>1. /\ Sorted(origin, thread[d][u].chunk)
            /\ Past(origin, handed[d], uiQueue[d], thread[d][u].chunk)
        BY DEF OrderInv, InOrder
      <4> QED
        BY <1>1, <1>4, <1>6, <3>2, <4>1
    <3> QED
      BY <3>1, <3>2
  <2> QED
    BY <1>2, <1>5, <2>1 DEF InOrder
<1>8. ASSUME NEW e \in Device, e # d PROVE InOrder(e)'
  <2>1. InOrder(e)
    BY DEF OrderInv
  <2> QED
    BY <1>1, <1>2, <1>8, <2>1 DEF InOrder
<1>9. ASSUME NEW c \in Conn PROVE Unread(c, conns[c].inbox["cli"])'
  <2> DEFINE q == conns[c].inbox["cli"]
  <2>1. Unread(c, q) /\ conns'[c].inbox["cli"] = q
    BY <1>2 DEF OrderInv
  <2> HIDE DEF q
  <2>2. ASSUME NEW e \in Device PROVE Past(origin, handed[e], uiQueue'[e], q)
    <3>1. Past(origin, handed[e], uiQueue[e], q) /\ Before(origin, thread[e][t].chunk, q)
      BY <2>1 DEF Unread
    <3> QED
      BY <1>2, <1>6, <3>1 DEF p
  <2>3. ASSUME NEW e \in Device, NEW u \in Thread PROVE Before(origin, thread'[e][u].chunk, q)
    <3>1. thread'[e][u].chunk = <<>> \/ thread'[e][u].chunk = thread[e][u].chunk
      BY <1>1
    <3> QED
      BY <2>1, <3>1, OrderEmpty DEF Unread
  <2> QED
    BY <1>2, <2>1, <2>2, <2>3 DEF Unread
<1> QED
  BY <1>7, <1>8, <1>9 DEF OrderInv

\* The Looper hands over what is in a message, be it nothing.
LEMMA OrderHandles ==
  ASSUME TypeInv, Tidy, OrderInv, NEW d \in Device, Handles(d), UNCHANGED origin
  PROVE  OrderInv'
<1>1. /\ \A e \in Device, u \in Thread : thread'[e][u].chunk = thread[e][u].chunk
      /\ \A c \in Conn : conns'[c].inbox["cli"] = conns[c].inbox["cli"]
      /\ uiQueue[d] \in Seq(Message) /\ uiQueue[d] # <<>> /\ handed[d] \in Seq(Cmd)
      /\ uiQueue'[d] = Tail(uiQueue[d])
      /\ \A e \in Device : e # d => uiQueue'[e] = uiQueue[e] /\ handed'[e] = handed[e]
  BY HeldTypes DEF Handles, ThreadsStay, InboxStays
<1>2. handed'[d] = handed[d] \o Head(uiQueue[d]).cmds
  <2>1. CASE handed' = [handed EXCEPT ![d] = @ \o Head(uiQueue[d]).cmds]
    BY <2>1, HeldTypes
  <2>2. CASE UNCHANGED handed /\ Head(uiQueue[d]).what # "data"
    <3>1. Head(uiQueue[d]) = uiQueue[d][1] /\ 1 \in DOMAIN uiQueue[d]
      BY <1>1
    <3>2. Head(uiQueue[d]).cmds = <<>>
      BY <2>2, <3>1 DEF Tidy
    <3>3. handed[d] \o <<>> = handed[d]
      BY <1>1
    <3> QED
      BY <2>2, <3>2, <3>3
  <2> QED
    BY <2>1, <2>2 DEF Handles
<1>3. Line(origin, handed[d], uiQueue[d])
  BY DEF OrderInv, InOrder
<1>4. /\ Line(origin, handed'[d], uiQueue'[d])
      /\ \A p : Past(origin, handed[d], uiQueue[d], p) => Past(origin, handed'[d], uiQueue'[d], p)
  BY <1>1, <1>2, <1>3, LineHandled
<1>5. InOrder(d)'
  <2>1. InOrder(d)
    BY DEF OrderInv
  <2> QED
    BY <1>1, <1>4, <2>1 DEF InOrder
<1>6. ASSUME NEW e \in Device, e # d PROVE InOrder(e)'
  <2>1. InOrder(e)
    BY DEF OrderInv
  <2> QED
    BY <1>1, <1>6, <2>1 DEF InOrder
<1>7. ASSUME NEW c \in Conn PROVE Unread(c, conns[c].inbox["cli"])'
  <2>1. Unread(c, conns[c].inbox["cli"])
    BY DEF OrderInv
  <2>2. ASSUME NEW e \in Device
        PROVE  Past(origin, handed'[e], uiQueue'[e], conns[c].inbox["cli"])
    BY <1>1, <1>4, <2>1 DEF Unread
  <2> QED
    BY <1>1, <2>1, <2>2 DEF Unread
<1> QED
  BY <1>5, <1>6, <1>7 DEF OrderInv

\* A thread reads from connection c.
LEMMA OrderReads ==
  ASSUME TypeInv, Tidy, OrderInv, NEW d \in Device, NEW t \in Thread, Reads(d, t),
         UNCHANGED origin
  PROVE  OrderInv'
<1>1. PICK c \in Conn : \E n \in 1 .. Len(conns[c].inbox["cli"]) :
        /\ conns' = Taken(c, "cli", n)
        /\ \E r : r.chunk = SubSeq(conns[c].inbox["cli"], 1, n)
                  /\ thread' = [thread EXCEPT ![d][t] = r]
  BY DEF Reads
<1> DEFINE p == conns[c].inbox["cli"]
<1>2. PICK n \in 1 .. Len(p) :
        /\ conns' = Taken(c, "cli", n)
        /\ \E r : r.chunk = SubSeq(p, 1, n) /\ thread' = [thread EXCEPT ![d][t] = r]
  BY <1>1
<1> DEFINE a == SubSeq(p, 1, n)  b == SubSeq(p, n + 1, Len(p))
<1>3. /\ thread'[d][t].chunk = a
      /\ \A e \in Device, u \in Thread : e # d \/ u # t => thread'[e][u] = thread[e][u]
  BY <1>2, HeldTypes
<1>4. /\ conns'[c].inbox["cli"] = b
      /\ \A x \in Conn : x # c => conns'[x].inbox["cli"] = conns[x].inbox["cli"]
  <2>1. conns' = Taken(c, "cli", n) /\ UnusedEmpty
    BY <1>2 DEF Tidy
  <2> QED
    BY <2>1, HeldTypes, TakenInbox
<1>5. p \in Seq(Cmd)
  BY HeldTypes DEF ConnRec
<1> HIDE DEF p
<1>6. a \in Seq(Cmd) /\ b \in Seq(Cmd) /\ p = a \o b
  BY <1>5, CutInTwo
<1>7. Unread(c, p) /\ UNCHANGED <<uiQueue, handed, origin>>
  BY DEF OrderInv, p, Reads
<1> HIDE DEF a, b
<1>8. /\ Sorted(origin, a) /\ Sorted(origin, b) /\ Before(origin, a, b)
      /\ \A q : Before(origin, q, p) => Before(origin, q, a) /\ Before(origin, q, b)
      /\ \A x : Of(origin, a, x) \/ Of(origin, b, x) => x = c
  BY <1>6, <1>7, OrderConcat DEF Unread
<1>9. \A e \in Device : /\ Past(origin, handed[e], uiQueue[e], a)
                        /\ Past(origin, handed[e], uiQueue[e], b)
  <2>1. \A e \in Device : Past(origin, handed[e], uiQueue[e], p)
    BY <1>7 DEF Unread
  <2> QED
    BY <1>8, <2>1 DEF Past
<1>10. ASSUME NEW e \in Device PROVE InOrder(e)'
  <2>1. InOrder(e)
    BY DEF OrderInv
  <2>2. ASSUME NEW u \in Thread
        PROVE  /\ Sorted(origin, thread'[e][u].chunk)
               /\ Past(origin, handed[e], uiQueue[e], thread'[e][u].chunk)
    BY <1>3, <1>8, <1>9, <2>1 DEF InOrder
  <2> QED
    BY <1>7, <2>1, <2>2 DEF InOrder
<1>11. ASSUME NEW x \in Conn PROVE Unread(x, conns[x].inbox["cli"])'
  <2>1. CASE x = c
    <3>1. ASSUME NEW e \in Device, NEW u \in Thread
          PROVE  Before(origin, thread'[e][u].chunk, b)
      <4>1. Before(origin, thread[e][u].chunk, p)
        BY <1>7 DEF Unread
      <4> QED
        BY <1>3, <1>8, <4>1
    <3> QED
      BY <1>4, <1>7, <1>8, <1>9, <2>1, <3>1 DEF Unread
  <2>2. CASE x # c
    <3> DEFINE q == conns[x].inbox["cli"]
    <3>1. Unread(x, q) /\ conns'[x].inbox["cli"] = q
      BY <1>4, <2>2 DEF OrderInv
    <3> HIDE DEF q
    <3>2. Before(origin, a, q)
      BY <1>8, <2>2, <3>1, BeforeApart DEF Unread
    <3>3. ASSUME NEW e \in Device, NEW u \in Thread
          PROVE  Before(origin, thread'[e][u].chunk, q)
      BY <1>3, <3>1, <3>2 DEF Unread
    <3> QED
      BY <1>7, <3>1, <3>3 DEF Unread
  <2> QED
    BY <2>1, <2>2
<1> QED
  BY <1>10, <1>11 DEF OrderInv

\* A peer's write adds the next reply at the end of what is unread on c, or nothing.
LEMMA PeerSendAdds ==
  ASSUME TypeInv, UnusedEmpty, NEW c \in Conn, PeerSend(c)
  PROVE  /\ UNCHANGED <<uiQueue, thread, handed>>
         /\ \A b \in Conn : b # c => conns'[b].inbox["cli"] = conns[b].inbox["cli"]
         /\ \/ /\ origin' = Append(origin, c)
               /\ conns'[c].inbox["cli"] = Append(conns[c].inbox["cli"], Len(origin) + 1)
            \/ UNCHANGED origin /\ conns'[c].inbox["cli"] = conns[c].inbox["cli"]
<1> DEFINE m == Len(origin) + 1
<1>a. Len(origin) \in Nat /\ m \in Cmd /\ c \in ConnRef
  BY ClientUseAssumption DEF TypeInv, TypeOK, PeerSend, ConnRef
<1>b. "srv" \in Side /\ Other("srv") = "cli"
  BY OtherSide DEF Side
<1>c. conns' = Written(c, "srv", m) /\ UNCHANGED <<uiQueue, thread, handed>>
  BY DEF PeerSend, clientVars
<1> HIDE DEF m
<1>1. \A b \in Conn :
        conns'[b].inbox["cli"] =
          IF b = c /\ conns[c].open["srv"] /\ ~conns[c].reset /\ conns[c].open["cli"]
          THEN Append(conns[c].inbox["cli"], m) ELSE conns[b].inbox["cli"]
  BY <1>a, <1>b, <1>c, HeldTypes, WrittenInbox
<1> QED
  BY <1>1, <1>c DEF PeerSend, m

LEMMA OrderSent ==
  ASSUME TypeInv, Tidy, OrderInv, NEW c \in Conn, PeerSend(c)
  PROVE  /\ OrderInv'
         /\ \A d \in Device, t \in Thread, b \in Conn :
              Of(origin', thread[d][t].chunk, b) <=> Of(origin, thread[d][t].chunk, b)
<1> DEFINE w == Append(origin, c)  m == Len(origin) + 1
<1>a. /\ UNCHANGED <<uiQueue, thread, handed>>
      /\ \A b \in Conn : b # c => conns'[b].inbox["cli"] = conns[b].inbox["cli"]
      /\ \/ origin' = w /\ conns'[c].inbox["cli"] = Append(conns[c].inbox["cli"], m)
         \/ UNCHANGED origin /\ conns'[c].inbox["cli"] = conns[c].inbox["cli"]
  BY PeerSendAdds DEF Tidy
<1>b. origin \in Seq(Conn)
  BY DEF TypeInv, TypeOK
<1>c. \A b \in Conn : conns[b].inbox["cli"] \in Seq(Nat)
  <2>1. Cmd \subseteq Nat
    BY ClientUseAssumption
  <2>2. \A b \in Conn : conns[b].inbox["cli"] \in Seq(Cmd)
    BY HeldTypes DEF ConnRec
  <2> QED
    BY <2>1, <2>2, SeqMonotonic
<1>1. CASE UNCHANGED origin /\ conns'[c].inbox["cli"] = conns[c].inbox["cli"]
  <2>1. ASSUME NEW d \in Device PROVE InOrder(d)'
    BY <1>a, <1>1 DEF OrderInv, InOrder
  <2>2. ASSUME NEW b \in Conn PROVE Unread(b, conns[b].inbox["cli"])'
    <3>1. Unread(b, conns[b].inbox["cli"]) /\ conns'[b].inbox["cli"] = conns[b].inbox["cli"]
      BY <1>a, <1>1 DEF OrderInv
    <3> QED
      BY <1>a, <1>1, <3>1 DEF Unread
  <2>3. OrderInv'
    BY <2>1, <2>2 DEF OrderInv
  <2>4. \A d \in Device, t \in Thread, b \in Conn :
          Of(origin', thread[d][t].chunk, b) <=> Of(origin, thread[d][t].chunk, b)
    BY <1>1
  <2> QED
    BY <2>3, <2>4
<1>2. CASE origin' = w /\ conns'[c].inbox["cli"] = Append(conns[c].inbox["cli"], m)
  <2>1. /\ \A q : Sorted(origin, q) => Sorted(w, q) /\ \A b : Of(w, q, b) <=> Of(origin, q, b)
        /\ \A p, q : Sorted(origin, p) /\ Sorted(origin, q) /\ Before(origin, p, q)
             => Before(w, p, q)
    BY <1>b, OrderKept
  <2>2. \A h, q : Line(origin, h, q) =>
          /\ Line(w, h, q)
          /\ \A p : Sorted(origin, p) /\ Past(origin, h, q, p) => Past(w, h, q, p)
    BY <1>b, LineKept
  <2>3. ASSUME NEW p \in Seq(Nat), Sorted(origin, p)
        PROVE  /\ Sorted(w, Append(p, m))
               /\ \A i \in DOMAIN Append(p, m) :
                    w[Append(p, m)[i]] = c <=> (i = Len(p) + 1 \/ origin[p[i]] = c)
               /\ \A q : Sorted(origin, q) /\ Before(origin, q, p) => Before(w, q, Append(p, m))
    BY <1>b, <2>3, OrderLast
  <2> HIDE DEF w, m
  <2>4. ASSUME NEW d \in Device PROVE InOrder(d)'
    <3>1. InOrder(d)
      BY DEF OrderInv
    <3> QED
      BY <1>a, <1>2, <2>1, <2>2, <3>1 DEF InOrder
  <2>5. \A d \in Device, t \in Thread : Sorted(origin, thread[d][t].chunk)
    BY DEF OrderInv, InOrder
  <2>6. \A d \in Device : Line(origin, handed[d], uiQueue[d])
    BY DEF OrderInv, InOrder
  <2>7. ASSUME NEW b \in Conn, b # c PROVE Unread(b, conns[b].inbox["cli"])'
    <3> DEFINE p == conns[b].inbox["cli"]
    <3>1. Unread(b, p) /\ conns'[b].inbox["cli"] = p
      BY <1>a, <2>7 DEF OrderInv
    <3> HIDE DEF p
    <3>2. Sorted(w, p) /\ \A x : Of(w, p, x) => x = b
      BY <2>1, <3>1 DEF Unread
    <3>3. ASSUME NEW d \in Device PROVE Past(w, handed[d], uiQueue[d], p)
      BY <2>2, <2>6, <3>1 DEF Unread
    <3>4. ASSUME NEW d \in Device, NEW t \in Thread PROVE Before(w, thread[d][t].chunk, p)
      BY <2>1, <2>5, <3>1 DEF Unread
    <3> QED
      BY <1>a, <1>2, <3>1, <3>2, <3>3, <3>4 DEF Unread
  <2>8. Unread(c, conns[c].inbox["cli"])'
    <3> DEFINE p == conns[c].inbox["cli"]
    <3> DEFINE s == Append(p, m)
    <3>1. Unread(c, p) /\ conns'[c].inbox["cli"] = s /\ p \in Seq(Nat)
      BY <1>c, <1>2 DEF OrderInv
    <3> HIDE DEF p
    <3>2. /\ Sorted(w, s)
          /\ \A q : Sorted(origin, q) /\ Before(origin, q, p) => Before(w, q, s)
          /\ \A i \in DOMAIN s : w[s[i]] = c <=> (i = Len(p) + 1 \/ origin[p[i]] = c)
      BY <2>3, <3>1 DEF Unread
    <3>3. \A i \in DOMAIN s : i = Len(p) + 1 \/ i \in DOMAIN p
      BY <3>1
    <3>4. \A i \in DOMAIN p : origin[p[i]] = c
      BY <3>1 DEF Unread, Of, Sorted
    <3> HIDE DEF s
    <3>5. \A x : Of(w, s, x) => x = c
      BY <3>2, <3>3, <3>4 DEF Of
    <3>6. ASSUME NEW d \in Device PROVE Past(w, handed[d], uiQueue[d], s)
      <4>1. /\ Sorted(origin, handed[d]) /\ Before(origin, handed[d], p)
            /\ \A k \in DOMAIN uiQueue[d] : /\ Sorted(origin, uiQueue[d][k].cmds)
                                            /\ Before(origin, uiQueue[d][k].cmds, p)
        BY <2>6, <3>1 DEF Unread, Line, Past
      <4> QED
        BY <3>2, <4>1 DEF Past
    <3>7. ASSUME NEW d \in Device, NEW t \in Thread PROVE Before(w, thread[d][t].chunk, s)
      BY <2>5, <3>1, <3>2 DEF Unread
    <3> QED
      BY <1>a, <1>2, <3>1, <3>2, <3>5, <3>6, <3>7 DEF Unread
  <2>9. \A d \in Device, t \in Thread, b \in Conn :
          Of(origin', thread[d][t].chunk, b) <=> Of(origin, thread[d][t].chunk, b)
    BY <1>2, <2>1, <2>5
  <2> QED
    BY <2>4, <2>7, <2>8, <2>9 DEF OrderInv
<1> QED
  BY <1>a, <1>1, <1>2

\* The steps of a SocketThread.
LEMMA SoleThreadStep ==
  ASSUME TypeInv, CarefulInv, Tidy, OrderInv, SoleInv, NEW d \in Device, NEW t \in Thread,
         ThreadStep(d, t)
  PROVE  SoleInv'
<1>a. /\ thread \in [Device -> [Thread -> ThreadRec]] /\ mSocket \in [Device -> ConnRef]
      /\ mInputStream \in [Device -> ConnRef]
      /\ conns \in [Conn -> ConnRec] /\ "cli" \in Side
      /\ \A e \in Device : SoleAt(e)
      /\ UNCHANGED <<origin, handed>> /\ SocketThread(d, t)
  BY DEF TypeInv, TypeOK, ClientTypeOK, SocketsTypeOK, Side, SoleInv, ThreadStep, useVars
<1>b. Leads(d, t, thread[d][t])
  BY <1>a DEF SoleAt
\* The connections stay as they were made, and t takes over no stream.
<1>c. ASSUME \A c \in Conn : conns'[c].from = conns[c].from, UNCHANGED mSocket,
             \A e \in Device : mInputStream'[e] \in {mInputStream[e], mSocket[e]},
             NEW r, thread' = [thread EXCEPT ![d][t] = r],
             r.stream \in {thread[d][t].stream, mInputStream[d], None},
             \A e \in Device : SoleAt(e)'
      PROVE  SoleInv'
  <2>1. \A e \in Device, u \in Thread :
          thread'[e][u].stream \in {thread[e][u].stream, mInputStream[e], None}
    BY <1>a, <1>c
  <2> QED
    BY <1>a, <1>c, <2>1, FreshStays DEF SoleInv
<1>d. ASSUME NEW pc, Goto(d, t, pc) PROVE
        \E r : /\ r = [thread[d][t] EXCEPT !.pc = pc] /\ thread' = [thread EXCEPT ![d][t] = r]
               /\ r.stream = thread[d][t].stream /\ r.interrupted = thread[d][t].interrupted
               /\ r.pc = pc /\ r.chunk = thread[d][t].chunk
  <2> PICK r : r = [thread[d][t] EXCEPT !.pc = pc]
    OBVIOUS
  <2>1. /\ r = [thread[d][t] EXCEPT !.pc = pc] /\ thread' = [thread EXCEPT ![d][t] = r]
        /\ r.stream = thread[d][t].stream /\ r.interrupted = thread[d][t].interrupted
        /\ r.pc = pc /\ r.chunk = thread[d][t].chunk
    BY <1>a, <1>d DEF Goto, ThreadRec
  <2> QED
    BY <2>1
<1>e. ASSUME Finish(d, t), UNCHANGED <<conns, mSocket, mInputStream, mSocketThread>>
      PROVE  SoleInv'
  <2>1. \A e \in Device : SoleAt(e)'
    BY <1>a, <1>e, SoleFinish
  <2> DEFINE r == [Unborn EXCEPT !.pc = "done"]
  <2>2. thread' = [thread EXCEPT ![d][t] = r] /\ r.stream = None
    BY <1>e DEF Finish, Unborn
  <2> HIDE DEF r
  <2> QED
    BY <1>c, <1>e, <2>1, <2>2
<1>f. ASSUME NEW pc, Goto(d, t, pc), UNCHANGED <<conns, mSocket, mInputStream, mSocketThread>>,
             \/ pc = "dial" /\ thread[d][t].pc = "start"
             \/ pc = "streams" /\ thread[d][t].pc = "check"
             \/ pc = "loop" /\ thread[d][t].pc = "announce"
      PROVE  SoleInv'
  <2>1. PICK r : /\ r = [thread[d][t] EXCEPT !.pc = pc]
                 /\ thread' = [thread EXCEPT ![d][t] = r]
                 /\ r.stream = thread[d][t].stream /\ r.interrupted = thread[d][t].interrupted
                 /\ r.pc = pc /\ r.chunk = thread[d][t].chunk
    BY <1>d, <1>f
  <2>2. Leads(d, t, r)
    BY <1>b, <1>f, <2>1 DEF Leads, Attempting, Reading
  <2>3. \A e \in Device : SoleAt(e)'
    BY <1>a, <1>f, <2>1, <2>2, SoleGoto
  <2> QED
    BY <1>c, <1>f, <2>1, <2>3
<1>1. CASE Start(d, t)
  <2>1. mSocket[d] = None /\ thread[d][t].pc = "start"
    BY <1>1 DEF Start, At, CarefulInv
  <2> QED
    BY <1>1, <1>f, <2>1 DEF Start, sockVars
<1>2. CASE CloseOld(d, t)
  BY <1>2 DEF CloseOld, At, CarefulInv
<1>3. CASE ForgetOld(d, t)
  BY <1>3 DEF ForgetOld, At, CarefulInv
<1>4. CASE Dial(d, t)
  <2>1. ASSUME NEW c \in Conn, NextConn(c), Goto(d, t, "check"),
               conns' = [conns EXCEPT ![c] = Established(d, thread[d][t].to)],
               mSocket' = [mSocket EXCEPT ![d] = c]
        PROVE  SoleInv'
    <3>1. thread[d][t].pc = "dial" /\ UNCHANGED <<mInputStream, mSocketThread, origin>>
      BY <1>a, <1>4 DEF Dial, At
    <3>2. thread[d][t].chunk = <<>>
      BY <3>1 DEF Tidy
    <3> QED
      BY <2>1, <3>1, <3>2, SoleDial
  <2>2. CASE Fail(d, t) /\ UNCHANGED <<conns, mSocket>>
    BY <1>4, <1>e, <2>2 DEF Dial, Fail
  <2> QED
    BY <1>4, <2>1, <2>2 DEF Dial
<1>5. CASE Check(d, t)
  BY <1>5, <1>e, <1>f DEF Check, NoSocket, Fail, At
<1>6. CASE GetStreams(d, t)
  <2>0. thread[d][t].pc = "streams" /\ UNCHANGED <<mSocket, mSocketThread>>
    BY <1>6 DEF GetStreams, At
  <2>1. CASE Crash(d) /\ UNCHANGED <<thread, mInputStream>>
    <3>1. \A c \in Conn : conns'[c].from = conns[c].from
      BY <1>a, <2>1, CrashNamed DEF ConnsNamed
    <3>2. \A e \in Device : SoleAt(e)'
      BY <1>a, <2>0, <2>1, SoleStays DEF SameFields
    <3>3. Fresh'
      BY <1>a, <2>0, <2>1, <3>1, FreshStays DEF SoleInv
    <3> QED
      BY <3>2, <3>3 DEF SoleInv
  <2>2. CASE Fail(d, t) /\ UNCHANGED <<conns, mInputStream>>
    BY <1>e, <2>0, <2>2 DEF Fail
  <2>3. CASE /\ mInputStream' = [mInputStream EXCEPT ![d] = mSocket[d]] /\ mSocket[d] # None
             /\ Goto(d, t, "announce") /\ UNCHANGED sockVars
    <3>1. PICK r : /\ thread' = [thread EXCEPT ![d][t] = r]
                   /\ r.stream = thread[d][t].stream
                   /\ r.pc = "announce" /\ r.chunk = thread[d][t].chunk
      BY <1>d, <2>3
    <3>2. t = mSocketThread[d]
      BY <1>b, <2>0 DEF Leads, Attempting
    <3>3. mInputStream'[d] = mSocket[d] /\ \A e \in Device \ {d} : SameFields(e)
      BY <1>a, <2>0, <2>3 DEF SameFields
    <3>4. Leads(d, t, r)'
      BY <2>0, <2>3, <3>1, <3>2 DEF Leads, Attempting, Reading
    <3>5. ASSUME NEW c \in Conn, NEW u \in Thread, ClaimsWith(d, t, r, c)', Claims(d, u, c)
          PROVE  t = u
      <4>1. Claims(d, t, c)
        BY <1>a, <2>0, <3>1, <3>2, <3>3, <3>5 DEF ClaimsWith, Claims
      <4> QED
        BY <1>a, <3>5, <4>1 DEF SoleAt
    <3>6. \A e \in Device : SoleAt(e)'
      BY <1>a, <2>0, <3>1, <3>2, <3>3, <3>4, <3>5, SoleThread
    <3>7. \A e \in Device : mInputStream'[e] \in {mInputStream[e], mSocket[e]}
      BY <1>a, <2>3
    <3> QED
      BY <1>c, <2>0, <2>3, <3>1, <3>6, <3>7 DEF sockVars
  <2> QED
    BY <1>6, <2>1, <2>2, <2>3 DEF GetStreams
<1>7. CASE Announce(d, t)
  BY <1>7, <1>f DEF Announce, At
\* A thread that goes on reading is the latest one: any other has been interrupted.
<1>8. CASE Loop(d, t)
  <2>1. UNCHANGED <<conns, mSocket, mInputStream, mSocketThread>> /\ thread[d][t].pc = "loop"
    BY <1>8 DEF Loop, At, sockVars
  <2>2. CASE /\ isConnect(d) /\ ~thread[d][t].interrupted
             /\ thread' = [thread EXCEPT ![d][t] =
                             [@ EXCEPT !.pc = "read", !.stream = mInputStream[d]]]
    <3> PICK r : r = [thread[d][t] EXCEPT !.pc = "read", !.stream = mInputStream[d]]
      OBVIOUS
    <3>1. /\ thread' = [thread EXCEPT ![d][t] = r]
          /\ r.pc = "read" /\ r.stream = mInputStream[d]
          /\ r.chunk = thread[d][t].chunk /\ r.interrupted = thread[d][t].interrupted
      BY <1>a, <2>2 DEF ThreadRec
    <3>2. t = mSocketThread[d]
      BY <1>b, <2>1, <2>2 DEF Leads, Reading
    <3>3. Leads(d, t, r)
      BY <2>2, <3>1, <3>2 DEF Leads, Attempting, isConnect
    <3>4. ASSUME NEW c \in Conn, ClaimsWith(d, t, r, c) PROVE Claims(d, t, c)
      BY <2>1, <3>1, <3>2, <3>4 DEF ClaimsWith, Claims, Reading
    <3>5. \A e \in Device : SoleAt(e)'
      BY <1>a, <2>1, <3>1, <3>3, <3>4, SoleMove
    <3> QED
      BY <1>c, <2>1, <3>1, <3>5
  <2> QED
    BY <1>8, <1>e, <2>1, <2>2 DEF Loop
<1>9. CASE Read(d, t)
  <2> DEFINE c == thread[d][t].stream
  <2>0. /\ c \in Conn /\ thread[d][t].pc = "read"
        /\ UNCHANGED <<mSocket, mInputStream, mSocketThread>>
    BY <1>a, <1>9 DEF Read, At, TypeInv, ClientOK, StreamsSet, ThreadRec, ConnRef
  \* Whatever comes of the read, t has to do with c alone, as before.
  <2>1. ASSUME NEW r, thread' = [thread EXCEPT ![d][t] = r], r.pc \in {"post", "loop"},
               r.stream = None, r.interrupted = thread[d][t].interrupted,
               \A b \in Conn : Of(origin, r.chunk, b) => b = c,
               \A b \in Conn : conns'[b].from = conns[b].from
        PROVE  SoleInv'
    <3>1. Leads(d, t, r)
      BY <1>b, <2>0, <2>1 DEF Leads, Attempting, Reading
    <3>2. ASSUME NEW b \in Conn, ClaimsWith(d, t, r, b) PROVE Claims(d, t, b)
      BY <2>0, <2>1, <3>2 DEF ClaimsWith, Claims, Reading
    <3>3. \A e \in Device : SoleAt(e)'
      BY <1>a, <2>0, <2>1, <3>1, <3>2, SoleMove
    <3> QED
      BY <1>c, <2>0, <2>1, <3>3
  <2>2. ASSUME NEW n \in 1 .. Len(conns[c].inbox["cli"]), conns' = Taken(c, "cli", n),
               thread' = [thread EXCEPT ![d][t] =
                  [@ EXCEPT !.pc = "post", !.stream = None,
                            !.chunk = Copy(conns[c].inbox["cli"], n)]]
        PROVE  SoleInv'
    <3> DEFINE p == conns[c].inbox["cli"]
    <3> PICK r : r = [thread[d][t] EXCEPT !.pc = "post", !.stream = None,
                                          !.chunk = Copy(p, n)]
      OBVIOUS
    <3>1. /\ thread' = [thread EXCEPT ![d][t] = r] /\ r.pc = "post"
          /\ r.stream = None /\ r.interrupted = thread[d][t].interrupted
          /\ r.chunk = SubSeq(p, 1, n)
      BY <1>a, <2>2 DEF ThreadRec, Copy
    <3>2. \A b \in Conn : conns'[b].from = conns[b].from
      <4> HIDE DEF c
      <4> QED
        BY <1>a, <2>0, <2>2, TakenNamed DEF ConnsNamed
    <3>3. Unread(c, p) /\ p \in Seq(Cmd) /\ n \in 1 .. Len(p)
      BY <2>0, <2>2, HeldTypes DEF OrderInv, ConnRec
    <3> HIDE DEF p, c
    <3>4. \A b : Of(origin, SubSeq(p, 1, n), b) => b = c
      <4> DEFINE a == SubSeq(p, 1, n)  z == SubSeq(p, n + 1, Len(p))
      <4>1. a \in Seq(Cmd) /\ z \in Seq(Cmd) /\ p = a \o z
        BY <3>3, CutInTwo
      <4> HIDE DEF a, z
      <4>2. \A b : Of(origin, a, b) => Of(origin, p, b)
        BY <4>1, OrderConcat
      <4> QED
        BY <3>3, <4>2 DEF Unread, a
    <3> QED
      BY <2>1, <3>1, <3>2, <3>4
  <2>3. CASE /\ thread' = [thread EXCEPT ![d][t] = [@ EXCEPT !.pc = "loop", !.stream = None]]
             /\ UNCHANGED conns
    <3> PICK r : r = [thread[d][t] EXCEPT !.pc = "loop", !.stream = None]
      OBVIOUS
    <3>1. /\ thread' = [thread EXCEPT ![d][t] = r] /\ r.pc = "loop"
          /\ r.stream = None /\ r.interrupted = thread[d][t].interrupted
          /\ r.chunk = thread[d][t].chunk
      BY <1>a, <2>3 DEF ThreadRec
    <3>2. r.chunk = <<>>
      BY <2>0, <3>1 DEF Tidy
    <3>3. \A b \in Conn : ~Of(origin, r.chunk, b) /\ conns'[b].from = conns[b].from
      BY <2>3, <3>2, OrderEmpty
    <3> QED
      BY <2>1, <3>1, <3>3
  <2>4. CASE Fail(d, t) /\ UNCHANGED conns
    BY <1>e, <2>0, <2>4 DEF Fail
  <2> QED
    BY <1>9, <2>2, <2>3, <2>4 DEF Read
<1>10. CASE PostData(d, t)
  <2>0. /\ thread[d][t].pc = "post"
        /\ UNCHANGED <<conns, mSocket, mInputStream, mSocketThread>>
    BY <1>10 DEF PostData, At
  <2> PICK r : r = [thread[d][t] EXCEPT !.pc = "loop", !.chunk = <<>>]
    OBVIOUS
  <2>1. /\ thread' = [thread EXCEPT ![d][t] = r] /\ r.pc = "loop" /\ r.chunk = <<>>
        /\ r.stream = thread[d][t].stream /\ r.interrupted = thread[d][t].interrupted
    BY <1>a, <1>10 DEF PostData, ThreadRec
  <2>2. Leads(d, t, r)
    BY <1>b, <2>0, <2>1 DEF Leads, Attempting, Reading
  <2>3. ASSUME NEW b \in Conn, ClaimsWith(d, t, r, b) PROVE Claims(d, t, b)
    BY <2>0, <2>1, <2>3, OrderEmpty DEF ClaimsWith, Claims, Reading
  <2>4. \A e \in Device : SoleAt(e)'
    BY <1>a, <2>0, <2>1, <2>2, <2>3, SoleMove
  <2> QED
    BY <1>c, <2>0, <2>1, <2>4
<1> QED
  BY <1>a, <1>1, <1>2, <1>3, <1>4, <1>5, <1>6, <1>7, <1>8, <1>9, <1>10 DEF SocketThread

LEMMA SoleStep ==
  ASSUME Careful
  PROVE  TypeInv /\ CarefulInv /\ Tidy /\ OrderInv /\ SoleInv /\ [Next]_vars => SoleInv'
<1> SUFFICES ASSUME TypeInv, CarefulInv, Tidy, OrderInv, SoleInv, [Next]_vars PROVE SoleInv'
  OBVIOUS
<1>a. /\ conns \in [Conn -> ConnRec] /\ "cli" \in Side /\ "srv" \in Side
      /\ \A d \in Device : SoleAt(d)
  BY DEF TypeInv, TypeOK, SocketsTypeOK, Side, SoleInv
<1>b. ASSUME UNCHANGED <<clientVars, origin>>, \A c \in Conn : conns'[c].from = conns[c].from
      PROVE  SoleInv'
  <2>1. \A d \in Device : SoleAt(d)'
    BY <1>a, <1>b, SoleStays DEF clientVars, SameFields
  <2>2. Fresh'
    BY <1>b, FreshStays DEF clientVars, SoleInv
  <2> QED
    BY <2>1, <2>2 DEF SoleInv
<1>c. ASSUME NEW d \in Device, disconnect(d), UNCHANGED origin PROVE SoleInv'
  <2>1. \A c \in Conn : conns'[c].from = conns[c].from
    BY <1>a, <1>c, ClosedNamed DEF disconnect, ConnsNamed
  <2>2. \A e \in Device : mSocket'[e] \in {mSocket[e], None}
    BY <1>c DEF disconnect, TypeInv, TypeOK, ClientTypeOK
  <2>3. mInputStream' = mInputStream
    BY <1>c DEF disconnect
  <2>4. \A e \in Device, t \in Thread : thread'[e][t].stream = thread[e][t].stream
    BY <1>c, HeldTypes DEF disconnect, Interrupted, ThreadRec
  <2>5. \A e \in Device : SoleAt(e)'
    BY <1>a, <1>c, SoleDisconnect
  <2> QED
    BY <1>c, <2>1, <2>2, <2>3, <2>4, <2>5, FreshStays DEF SoleInv
<1>1. ASSUME NEW d \in Device, NEW e \in Device, NEW t \in Thread, AppConnect(d, e, t)
      PROVE  SoleInv'
  <2>1. /\ InFlight(d) = {} /\ mSocket[d] = None /\ connect(d, e, t)
        /\ UNCHANGED <<conns, mSocket, mInputStream, origin>>
    BY <1>1 DEF AppConnect, isConnect, connect, sockVars
  <2>2. thread[d][t].chunk = <<>>
    BY <2>1 DEF connect, Tidy
  <2>3. \A f \in Device : SoleAt(f)'
    BY <1>a, <2>1, <2>2, SoleConnect
  <2>4. \A f \in Device, u \in Thread : thread'[f][u].stream = thread[f][u].stream
    BY <2>1, HeldTypes DEF connect, ThreadRec
  <2> QED
    BY <2>1, <2>3, <2>4, FreshStays DEF SoleInv
<1>2. ASSUME NEW d \in Device, AppDisconnect(d) \/ HandleFail(d) PROVE SoleInv'
  BY <1>c, <1>2 DEF AppDisconnect, HandleFail
<1>3. ASSUME NEW d \in Device, HandleSuccess(d) \/ HandleData(d) PROVE SoleInv'
  BY <1>b, <1>3 DEF HandleSuccess, HandleData, useVars
<1>4. ASSUME NEW c \in Conn, PeerSend(c) PROVE SoleInv'
  <2>1. /\ \A d \in Device, t \in Thread, b \in Conn :
             Of(origin', thread[d][t].chunk, b) <=> Of(origin, thread[d][t].chunk, b)
        /\ UNCHANGED clientVars
    BY <1>4, OrderSent DEF PeerSend
  <2>2. \A d \in Device : SoleAt(d)'
    BY <1>a, <2>1, SoleStays DEF clientVars, SameFields
  <2>3. /\ \A b \in Conn : conns'[b].from = conns[b].from
        /\ conns[c].from # NoDevice
    <3>1. Len(origin) + 1 \in Cmd /\ c \in ConnRef
      BY <1>4, ClientUseAssumption DEF PeerSend, TypeInv, TypeOK, ConnRef
    <3> QED
      BY <1>a, <1>4, <3>1, WrittenNamed DEF PeerSend, ConnsNamed
  <2>4. \A i \in DOMAIN origin' : origin'[i] = c \/ (i \in DOMAIN origin /\ origin'[i] = origin[i])
    BY <1>4 DEF PeerSend, TypeInv, TypeOK
  <2>5. Fresh'
    BY <2>1, <2>3, <2>4 DEF SoleInv, Fresh, clientVars
  <2> QED
    BY <2>2, <2>5 DEF SoleInv
<1>5. ASSUME NEW c \in Conn, PeerClose(c) PROVE SoleInv'
  BY <1>a, <1>b, <1>5, ClosedNamed DEF PeerClose, ConnsNamed, useVars
<1>6. ASSUME NEW c \in Conn, LinkLoss(c) PROVE SoleInv'
  BY <1>a, <1>b, <1>6, ResetNamed DEF LinkLoss, ConnsNamed, useVars
<1>7. ASSUME NEW d \in Device, NEW t \in Thread, ThreadStep(d, t) PROVE SoleInv'
  BY <1>7, SoleThreadStep
<1>8. CASE UNCHANGED vars
  BY <1>b, <1>8 DEF vars, sockVars, useVars
<1> QED
  BY <1>1, <1>2, <1>3, <1>4, <1>5, <1>6, <1>7, <1>8 DEF Next

LEMMA OrderStep == TypeInv /\ Tidy /\ SoleInv /\ OrderInv /\ [Next]_vars => OrderInv'
<1> SUFFICES ASSUME TypeInv, Tidy, SoleInv, OrderInv, [Next]_vars PROVE OrderInv'
  OBVIOUS
<1>1. CASE \E c \in Conn : PeerSend(c)
  BY <1>1, OrderSent
<1>2. CASE ~\E c \in Conn : PeerSend(c)
  <2>1. Moves /\ UNCHANGED origin
    BY <1>2, StepMoves
  <2> QED
    BY <2>1, OrderStays, OrderHandles, OrderPosts, OrderReads DEF Moves, SoleInv
<1> QED
  BY <1>1, <1>2

LEMMA OrderInit == Init => SoleInv /\ OrderInv
<1> SUFFICES ASSUME Init PROVE SoleInv /\ OrderInv
  OBVIOUS
<1>1. /\ \A c \in Conn : conns[c].inbox["cli"] = <<>> /\ c # None
      /\ \A d \in Device, t \in Thread : thread[d][t] = Unborn
      /\ \A d \in Device : /\ uiQueue[d] = <<>> /\ handed[d] = <<>>
                           /\ mSocket[d] = None /\ mInputStream[d] = None
      /\ origin = <<>>
  BY DEF Init, SocketsInit, ClientInit, Unused, Side, Conn, None
<1>2. Unborn.pc = "unborn" /\ Unborn.chunk = <<>> /\ Unborn.stream = None
  BY DEF Unborn
<1>3. ASSUME NEW d \in Device PROVE SoleAt(d)
  <2>1. \A t \in Thread : Leads(d, t, thread[d][t])
    BY <1>1, <1>2 DEF Leads, Attempting, Reading
  <2>2. \A c \in Conn, t \in Thread : ~Claims(d, t, c)
    BY <1>1, <1>2, OrderEmpty DEF Claims, ClaimsWith, Reading
  <2> QED
    BY <2>1, <2>2 DEF SoleAt
<1>4. Fresh
  BY <1>1, <1>2 DEF Fresh
<1>5. ASSUME NEW p, p = <<>>, NEW d \in Device PROVE Past(origin, handed[d], uiQueue[d], p)
  BY <1>1, <1>5, OrderEmpty DEF Past
<1>6. ASSUME NEW d \in Device PROVE InOrder(d)
  <2>1. handed[d] = <<>> /\ uiQueue[d] = <<>> /\ DOMAIN <<>> = {}
    BY <1>1
  <2>2. Sorted(origin, <<>>)
    BY OrderEmpty
  <2>3. Line(origin, <<>>, <<>>)
    BY <2>2, <2>1 DEF Line
  <2> QED
    BY <1>1, <1>2, <1>5, <2>1, <2>2, <2>3 DEF InOrder
<1>7. ASSUME NEW c \in Conn PROVE Unread(c, conns[c].inbox["cli"])
  BY <1>1, <1>2, <1>5, OrderEmpty DEF Unread
<1> QED
  BY <1>3, <1>4, <1>6, <1>7 DEF SoleInv, OrderInv

\* A careful application is handed the replies of a connection in the order its peer
\* wrote them: though each connect() leaves the SocketThread before it running and
\* all of them read the one shared stream, no two of them ever come to hold replies
\* of the same connection, for any number of devices, threads and connections
\* (TcpClient.java:51-58, 100-126, 157-171, 248-257).
THEOREM HandedOverInOrder ==
  ASSUME Careful
  PROVE  Spec => []HandedInOrder
<1>1. OrderInv => HandedInOrder
  BY DEF OrderInv, InOrder, Line, Sorted, HandedInOrder
<1>2. TypeInv /\ CarefulInv /\ [Next]_vars => CarefulInv'
  BY CarefulStep
<1>3. TypeInv /\ CarefulInv /\ Tidy /\ OrderInv /\ SoleInv /\ [Next]_vars => SoleInv'
  BY SoleStep
<1>4. PlaceInv => Tidy
  BY DEF PlaceInv
<1> QED
  BY <1>1, <1>2, <1>3, <1>4, TypeInit, TypeStep, CarefulInit, PlaceInit, PlaceStep, OrderInit,
     OrderStep, PTL DEF Spec
=============================================================================
