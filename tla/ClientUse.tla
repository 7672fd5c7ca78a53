------------------------------ MODULE ClientUse ------------------------------
(***************************************************************************)
(* TcpClient on its own, closed by an arbitrary application on the UI      *)
(* thread and by arbitrary peers.  The application calls connect() and     *)
(* disconnect() when it likes and handles its messages as TcpClient's      *)
(* uiHandler does; a peer writes numbered replies and may close; the       *)
(* network may lose a connection.                                          *)
(*                                                                         *)
(* With Careful = TRUE the application connects only when the former       *)
(* attempt has ended and its connection has been disconnected.  Nothing in *)
(* TcpClient makes it so, and MainActivity's stop button breaks the rule   *)
(* while an attempt is in flight (MainActivity.java:128,148).              *)
(***************************************************************************)
EXTENDS TcpClient

CONSTANTS
  Careful,     \* does the application follow the rule above?
  MaxReply     \* bound: replies written by the peers

ASSUME ClientUseAssumption ==
  /\ Careful \in BOOLEAN
  /\ MaxReply \in Nat
  /\ Cmd = 1 .. MaxReply

VARIABLES
  origin,      \* origin[r]: the connection the r-th reply was written to
  handed,      \* what the listener was handed, all commands of a read
  stopped      \* stopped[d]: disconnect() was the last call of the application

useVars == <<origin, handed, stopped>>
vars == <<sockVars, clientVars, useVars>>

Init ==
  /\ SocketsInit
  /\ ClientInit
  /\ origin = <<>>
  /\ handed = [d \in Device |-> <<>>]
  /\ stopped = [d \in Device |-> FALSE]

TypeOK ==
  /\ SocketsTypeOK
  /\ ClientTypeOK
  /\ origin \in Seq(Conn)
  /\ Len(origin) <= MaxReply
  /\ handed \in [Device -> Seq(Cmd)]
  /\ stopped \in [Device -> BOOLEAN]
-----------------------------------------------------------------------------
AppConnect(d, e, t) ==
  /\ alive[d]
  /\ Careful => InFlight(d) = {} /\ ~isConnect(d)
  /\ connect(d, e, t)
  /\ stopped' = [stopped EXCEPT ![d] = FALSE]
  /\ UNCHANGED <<sockVars, origin, handed>>

AppDisconnect(d) ==
  /\ alive[d]
  /\ mSocketThread[d] # 0
  /\ disconnect(d)
  /\ stopped' = [stopped EXCEPT ![d] = TRUE]
  /\ UNCHANGED <<alive, uiQueue, origin, handed>>

\* uiHandler.handleMessage: what = -1 tells the listener and disconnects.
HandleFail(d) ==
  /\ alive[d]
  /\ uiQueue[d] # <<>> /\ Head(uiQueue[d]).what = "fail"
  /\ uiQueue' = [uiQueue EXCEPT ![d] = Tail(@)]
  /\ disconnect(d)
  /\ UNCHANGED <<alive, origin, handed, stopped>>

\* what = 1
HandleSuccess(d) ==
  /\ alive[d]
  /\ uiQueue[d] # <<>> /\ Head(uiQueue[d]).what = "success"
  /\ uiQueue' = [uiQueue EXCEPT ![d] = Tail(@)]
  /\ UNCHANGED <<conns, alive, clientVars, useVars>>

\* what = 100
HandleData(d) ==
  /\ alive[d]
  /\ uiQueue[d] # <<>> /\ Head(uiQueue[d]).what = "data"
  /\ uiQueue' = [uiQueue EXCEPT ![d] = Tail(@)]
  /\ handed' = [handed EXCEPT ![d] = @ \o Head(uiQueue[d]).cmds]
  /\ UNCHANGED <<conns, alive, clientVars, origin, stopped>>

PeerSend(c) ==
  /\ Len(origin) < MaxReply
  /\ conns[c].from # NoDevice
  /\ conns[c].open["srv"]
  /\ conns' = Written(c, "srv", Len(origin) + 1)
  /\ origin' = IF conns[c].open["cli"] /\ ~conns[c].reset
               THEN Append(origin, c) ELSE origin
  /\ UNCHANGED <<alive, uiQueue, clientVars, handed, stopped>>

PeerClose(c) ==
  /\ conns[c].from # NoDevice
  /\ conns[c].open["srv"]
  /\ conns' = Closed({c}, "srv")
  /\ UNCHANGED <<alive, uiQueue, clientVars, useVars>>

LinkLoss(c) == LinkReset(c) /\ UNCHANGED <<clientVars, useVars>>

ThreadStep(d, t) == SocketThread(d, t) /\ UNCHANGED useVars

Next ==
  \/ \E d \in Device :
       \/ \E e \in Device, t \in Thread : AppConnect(d, e, t)
       \/ AppDisconnect(d)
       \/ HandleFail(d) \/ HandleSuccess(d) \/ HandleData(d)
       \/ \E t \in Thread : ThreadStep(d, t)
  \/ \E c \in Conn : PeerSend(c) \/ PeerClose(c) \/ LinkLoss(c)

Spec == Init /\ [][Next]_vars

(***************************************************************************)
(* A thread that can step does (the VM's scheduler; a read that stays      *)
(* blocked is not enabled; connecting ends with a connection or a timeout) *)
(* and the Looper handles its messages.  Users, peers and the network owe  *)
(* nothing.                                                                *)
(***************************************************************************)
Fairness ==
  /\ \A d \in Device, t \in Thread : WF_vars(ThreadStep(d, t))
  /\ \A d \in Device : WF_vars(HandleFail(d) \/ HandleSuccess(d) \/ HandleData(d))

FairSpec == Spec /\ Fairness
-----------------------------------------------------------------------------
\* Where reply r is: unread, in the buffer of a SocketThread, in a message of
\* the Looper, or handed to the listener.
Whereabouts(r) ==
  (UNION {Marks(<<"unread", c, 0>>, conns[c].inbox["cli"], r) : c \in Conn})
  \cup (UNION {UNION {Marks(<<"read", d, t>>, thread[d][t].chunk, r) : t \in Thread} :
                d \in Device})
  \cup (UNION {UNION {Marks(<<"posted", d, k>>, uiQueue[d][k].cmds, r) :
                         k \in DOMAIN uiQueue[d]} : d \in Device})
  \cup (UNION {Marks(<<"handed", d, 0>>, handed[d], r) : d \in Device})

\* A reply that reached the client's host is in one place: it is neither lost
\* nor handed to the listener twice, though every SocketThread still alive
\* reads whatever stream the shared field holds.
ReplyInOnePlace ==
  \A r \in 1 .. Len(origin) : Cardinality(Whereabouts(r)) = 1

\* The commands of one connection are handed over in the order the peer wrote
\* them: no thread of a former connection reads the stream of the present one.
\* (A command of a former connection may still come after those of the present
\* one: its thread had read it and had yet to post it.)
HandedInOrder ==
  \A d \in Device : \A i, j \in DOMAIN handed[d] :
    i < j /\ origin[handed[d][i]] = origin[handed[d][j]] => handed[d][i] < handed[d][j]

\* A client end that is open is the one the client's field refers to, so that
\* disconnect() or the next attempt closes it: no connection is forgotten.
OpenIsCurrent ==
  \A c \in Conn : \A d \in Device :
    conns[c].from = d /\ conns[c].open["cli"] => mSocket[d] = c

\* Once disconnect() is the application's last word and every SocketThread has
\* ended, the client holds no connection ("socket disconnect", TcpClient.java:155).
DisconnectCloses ==
  \A d \in Device : stopped[d] /\ alive[d] /\ Live(d) = {} =>
    \A c \in Conn : conns[c].from = d => ~conns[c].open["cli"]

\* The process dies of nothing but an attempt that a disconnect() overtakes between
\* the check of the socket and its streams (TcpClient.java:75-77); a disconnect()
\* leaves isStop set until the next attempt has announced itself.
DiesOnlyStopped ==
  \A d \in Device : ~alive[d] => isStop[d] /\ InFlight(d) # {}

\* Every connect() comes to an end: the attempt succeeds or fails, or the
\* process dies of it.
AttemptEnds ==
  \A d \in Device, t \in Thread :
    t \in InFlight(d) ~> (t \notin InFlight(d) \/ ~alive[d])

\* disconnect() gets rid of every SocketThread, unless connect() is called again.
DisconnectEndsThreads ==
  \A d \in Device : stopped[d] ~> (~stopped[d] \/ Live(d) = {} \/ ~alive[d])
=============================================================================
