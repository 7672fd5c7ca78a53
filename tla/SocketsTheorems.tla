--------------------------- MODULE SocketsTheorems ---------------------------
(***************************************************************************)
(* What the operators of Sockets return, for every instance: the lemmas    *)
(* that the proofs about the endpoints rest on.  Then those about the      *)
(* client alone: every operation of TcpClient keeps the types of its       *)
(* state, whatever application it is part of, and no SocketThread reads    *)
(* from a stream field that is null.                                       *)
(***************************************************************************)
EXTENDS TcpClient, TLAPS, SequenceTheorems, FiniteSetTheorems, FunctionTheorems

LEMMA OtherSide == \A s \in Side : Other(s) \in Side /\ Other(s) # s
<1>1. TAKE s \in Side
<1>2. \E o \in Side : o # s
  BY DEF Side
<1> QED
  BY <1>2 DEF Other

\* Closing ends of connections leaves every connection a connection.
LEMMA ClosedType ==
  ASSUME conns \in [Conn -> ConnRec], NEW C, NEW s \in Side
  PROVE  Closed(C, s) \in [Conn -> ConnRec]
<1>1. SUFFICES ASSUME NEW c \in Conn PROVE Closed(C, s)[c] \in ConnRec
  BY DEF Closed
<1>2. CASE c \in C /\ conns[c].open[s]
  <2>1. (conns[c].reset \/ conns[c].inbox[s] # <<>>) \in BOOLEAN
    OBVIOUS
  <2> QED
    BY <1>2, <2>1 DEF Closed, ConnRec
<1>3. CASE ~(c \in C /\ conns[c].open[s])
  BY <1>3 DEF Closed
<1> QED
  BY <1>2, <1>3

\* So does a write.
LEMMA WrittenType ==
  ASSUME conns \in [Conn -> ConnRec], NEW c \in ConnRef, NEW s \in Side, NEW m \in Cmd
  PROVE  Written(c, s, m) \in [Conn -> ConnRec]
<1>1. CASE c = None \/ ~conns[c].open[s] \/ conns[c].reset
  BY <1>1 DEF Written
<1>2. CASE ~(c = None \/ ~conns[c].open[s] \/ conns[c].reset)
  <2>1. c \in Conn /\ Other(s) \in Side
    BY <1>2, OtherSide DEF ConnRef
  <2>2. conns[c] \in ConnRec
    BY <2>1
  <2>3. Append(conns[c].inbox[Other(s)], m) \in Seq(Cmd)
    BY <2>1, <2>2 DEF ConnRec
  <2> QED
    BY <1>2, <2>1, <2>2, <2>3 DEF Written, ConnRec
<1> QED
  BY <1>1, <1>2

\* And a read of the first n commands.
LEMMA TakenType ==
  ASSUME conns \in [Conn -> ConnRec], NEW c \in Conn, NEW s \in Side,
         NEW n \in 1 .. Len(conns[c].inbox[s])
  PROVE  /\ Taken(c, s, n) \in [Conn -> ConnRec]
         /\ SubSeq(conns[c].inbox[s], 1, n) \in Seq(Cmd)
<1>1. conns[c] \in ConnRec /\ conns[c].inbox[s] \in Seq(Cmd)
  BY DEF ConnRec
<1>2. Len(conns[c].inbox[s]) \in Nat
  BY <1>1
<1>3. SubSeq(conns[c].inbox[s], n + 1, Len(conns[c].inbox[s])) \in Seq(Cmd)
  BY <1>1, <1>2
<1>4. SubSeq(conns[c].inbox[s], 1, n) \in Seq(Cmd)
  BY <1>1, <1>2
<1> QED
  BY <1>1, <1>3, <1>4 DEF Taken, ConnRec

\* A posted message leaves the queues of the Loopers queues of messages.
LEMMA PostedType ==
  ASSUME uiQueue \in [Device -> Seq(Message)], NEW d \in Device,
         NEW src \in {"client", "server"}, NEW what \in {"fail", "success", "data"},
         NEW cmds \in Seq(Cmd)
  PROVE  Posted(d, src, what, cmds) \in [Device -> Seq(Message)]
<1>1. [src |-> src, what |-> what, cmds |-> cmds] \in Message
  BY DEF Message
<1> QED
  BY <1>1 DEF Posted

\* Taking the first message of a queue off it.
LEMMA QueueTail ==
  ASSUME uiQueue \in [Device -> Seq(Message)], NEW d \in Device, uiQueue[d] # <<>>
  PROVE  /\ [uiQueue EXCEPT ![d] = Tail(@)] \in [Device -> Seq(Message)]
         /\ Head(uiQueue[d]) \in Message
<1>1. uiQueue[d] \in Seq(Message)
  OBVIOUS
<1>2. Tail(uiQueue[d]) \in Seq(Message) /\ Head(uiQueue[d]) \in Message
  BY <1>1
<1> QED
  BY <1>2

-----------------------------------------------------------------------------
\* A step that opens no connection.
NoneOpened ==
  \A c \in Conn : /\ conns'[c].from = conns[c].from
                  /\ conns'[c].open["cli"] => conns[c].open["cli"]

\* The death of a process closes ends of connections, and opens none.
LEMMA CrashType ==
  ASSUME SocketsTypeOK, NEW d \in Device, Crash(d)
  PROVE  SocketsTypeOK' /\ NoneOpened
<1>1. "cli" \in Side
  BY DEF Side
<1>2. ASSUME NEW c \in Conn
      PROVE  /\ conns'[c] \in ConnRec
             /\ conns'[c].from = conns[c].from
             /\ conns'[c].open["cli"] => conns[c].open["cli"]
  <2>1. conns[c] \in ConnRec
    BY DEF SocketsTypeOK
  <2>2. \A s \in Side : (conns[c].open[s] /\ ~(IF s = "cli" THEN conns[c].from = d
                                                         ELSE conns[c].to = d)) \in BOOLEAN
    OBVIOUS
  <2> QED
    BY <1>1, <2>1, <2>2 DEF Crash, ConnRec
<1>3. conns' \in [Conn -> ConnRec]
  BY <1>2 DEF Crash
<1> QED
  BY <1>2, <1>3 DEF SocketsTypeOK, Crash, NoneOpened

LEMMA ClosedOpensNone ==
  ASSUME conns \in [Conn -> ConnRec], NEW C, NEW s \in Side, conns' = Closed(C, s)
  PROVE  /\ NoneOpened
         /\ s = "cli" => \A c \in Conn : c \in C => ~conns'[c].open["cli"]
<1> SUFFICES ASSUME NEW c \in Conn
             PROVE  /\ conns'[c].from = conns[c].from
                    /\ conns'[c].open["cli"] => conns[c].open["cli"]
                    /\ s = "cli" /\ c \in C => ~conns'[c].open["cli"]
  BY DEF NoneOpened
<1>1. conns[c] \in ConnRec /\ "cli" \in Side
  BY DEF Side
<1>2. CASE c \in C /\ conns[c].open[s]
  BY <1>1, <1>2 DEF Closed, ConnRec
<1>3. CASE ~(c \in C /\ conns[c].open[s])
  BY <1>1, <1>3 DEF Closed
<1> QED
  BY <1>2, <1>3

LEMMA WrittenOpensNone ==
  ASSUME conns \in [Conn -> ConnRec], NEW c \in ConnRef, NEW s \in Side, NEW m \in Cmd,
         conns' = Written(c, s, m)
  PROVE  NoneOpened
<1>1. CASE c = None \/ ~conns[c].open[s] \/ conns[c].reset
  BY <1>1 DEF Written, NoneOpened
<1>2. CASE ~(c = None \/ ~conns[c].open[s] \/ conns[c].reset)
  BY <1>2 DEF Written, ConnRec, NoneOpened, ConnRef
<1> QED
  BY <1>1, <1>2

LEMMA TakenOpensNone ==
  ASSUME conns \in [Conn -> ConnRec], NEW c \in Conn, NEW s \in Side, NEW n \in Nat,
         conns' = Taken(c, s, n)
  PROVE  NoneOpened
<1> DEFINE q == SubSeq(conns[c].inbox[s], n + 1, Len(conns[c].inbox[s]))
<1>1. conns' = [conns EXCEPT ![c].inbox[s] = q]
  BY DEF Taken
<1> HIDE DEF q
<1> QED
  BY <1>1 DEF NoneOpened, ConnRec
-----------------------------------------------------------------------------
(***************************************************************************)
(* Commands in custody: S[h] are the commands that holder h has (a stream, *)
(* a buffer, a message).  What the steps of the endpoints do to them, and  *)
(* that none of it loses or doubles a command.                             *)
(***************************************************************************)
Placed(S, h, i, r) == h \in DOMAIN S /\ i \in DOMAIN S[h] /\ S[h][i] = r
Once(S, r) ==
  \E h, i : Placed(S, h, i, r) /\ \A k, j : Placed(S, k, j, r) => k = h /\ j = i
Nowhere(S, r) == \A h, i : ~Placed(S, h, i, r)

\* Once, counted.
LEMMA OnceCounts ==
  ASSUME NEW S, NEW r, NEW W, Once(S, r),
         \A x : x \in W <=> \E h, i : x = <<h, i>> /\ Placed(S, h, i, r)
  PROVE  Cardinality(W) = 1
<1>1. PICK h, i : Placed(S, h, i, r) /\ \A k, j : Placed(S, k, j, r) => k = h /\ j = i
  BY DEF Once
<1>2. W = {<<h, i>>}
  BY <1>1
<1> QED
  BY <1>2, FS_Singleton

\* What does not become more or fewer places.
Kept(S, T, r) == (Once(S, r) => Once(T, r)) /\ (Nowhere(S, r) => Nowhere(T, r))

\* The first n commands of a go to the end of b.
LEMMA MoveKeeps ==
  ASSUME NEW H, NEW X, NEW S \in [H -> Seq(X)], NEW a \in H, NEW b \in H, a # b,
         NEW n \in Nat, n <= Len(S[a]), NEW T \in [H -> Seq(X)],
         T[a] = SubSeq(S[a], n + 1, Len(S[a])),
         T[b] = S[b] \o SubSeq(S[a], 1, n),
         \A h \in H : h # a /\ h # b => T[h] = S[h],
         NEW r
  PROVE  Kept(S, T, r)
<1>a. /\ S[a] \in Seq(X) /\ S[b] \in Seq(X) /\ DOMAIN S = H /\ DOMAIN T = H
      /\ Len(S[a]) \in Nat /\ Len(S[b]) \in Nat
  OBVIOUS
<1>1. \A j : j \in DOMAIN T[a] <=> j \in 1 .. Len(S[a]) - n
  BY <1>a
<1>2. \A j \in 1 .. Len(S[a]) - n : T[a][j] = S[a][j + n]
  BY <1>a
<1>3. \A j : j \in DOMAIN T[b] <=> j \in 1 .. Len(S[b]) + n
  BY <1>a
<1>4. \A j \in 1 .. Len(S[b]) : T[b][j] = S[b][j]
  BY <1>a
<1>5. \A j \in 1 .. n : T[b][Len(S[b]) + j] = S[a][j]
  BY <1>a
\* Where a command in T comes from.
<1>6. ASSUME NEW k, NEW j, Placed(T, k, j, r)
      PROVE  \/ k = a /\ j \in Nat /\ Placed(S, a, j + n, r)
             \/ k = b /\ j \in 1 .. Len(S[b]) /\ Placed(S, b, j, r)
             \/ /\ k = b /\ j \in Nat /\ j > Len(S[b])
                /\ Placed(S, a, j - Len(S[b]), r)
             \/ k # a /\ k # b /\ Placed(S, k, j, r)
  <2>1. CASE k = a
    <3>1. j \in 1 .. Len(S[a]) - n /\ T[a][j] = r
      BY <1>1, <1>6, <2>1 DEF Placed
    <3>2. j \in Nat /\ j + n \in DOMAIN S[a]
      BY <1>a, <3>1
    <3> QED
      BY <1>a, <1>2, <2>1, <3>1, <3>2 DEF Placed
  <2>2. CASE k = b /\ j \in 1 .. Len(S[b])
    BY <1>a, <1>4, <1>6, <2>2 DEF Placed
  <2>3. CASE k = b /\ j \notin 1 .. Len(S[b])
    <3>1. j \in Nat /\ j > Len(S[b]) /\ j - Len(S[b]) \in 1 .. n
      BY <1>a, <1>3, <1>6, <2>3 DEF Placed
    <3>2. T[b][j] = S[a][j - Len(S[b])]
      BY <1>a, <1>5, <3>1
    <3>3. j - Len(S[b]) \in DOMAIN S[a]
      BY <1>a, <3>1
    <3> QED
      BY <1>a, <1>6, <2>3, <3>1, <3>2, <3>3 DEF Placed
  <2>4. CASE k # a /\ k # b
    BY <1>a, <1>6, <2>4 DEF Placed
  <2> QED
    BY <2>1, <2>2, <2>3, <2>4
<1>7. Nowhere(S, r) => Nowhere(T, r)
  BY <1>6 DEF Nowhere
<1>8. ASSUME NEW h, NEW i, Placed(S, h, i, r),
             \A k, j : Placed(S, k, j, r) => k = h /\ j = i
      PROVE  Once(T, r)
  <2>1. CASE h = a /\ i \in 1 .. n
    <3>1. Placed(T, b, Len(S[b]) + i, r)
      BY <1>a, <1>3, <1>5, <1>8, <2>1 DEF Placed
    <3>2. ASSUME NEW k, NEW j, Placed(T, k, j, r) PROVE k = b /\ j = Len(S[b]) + i
      <4>1. \A x : Placed(S, a, x, r) => x = i
        BY <1>8
      <4>2. ~(k = b /\ Placed(S, b, j, r)) /\ ~(k # a /\ Placed(S, k, j, r))
        BY <1>8, <2>1
      <4>3. CASE k = a /\ j \in Nat /\ Placed(S, a, j + n, r)
        <5>1. j + n = i /\ j \in 1 .. Len(S[a]) - n
          BY <1>1, <3>2, <4>1, <4>3 DEF Placed
        <5> QED
          BY <1>a, <2>1, <5>1
      <4>4. CASE k = b /\ j \in Nat /\ j > Len(S[b]) /\ Placed(S, a, j - Len(S[b]), r)
        <5>1. j - Len(S[b]) = i
          BY <4>1, <4>4
        <5> QED
          BY <1>a, <2>1, <4>4, <5>1
      <4> QED
        BY <1>6, <3>2, <4>2, <4>3, <4>4
    <3> QED
      BY <3>1, <3>2 DEF Once
  <2>2. CASE h = a /\ i \notin 1 .. n
    <3>0. i \in Nat /\ i > n /\ i <= Len(S[a])
      BY <1>a, <1>8, <2>2 DEF Placed
    <3>1. Placed(T, a, i - n, r)
      BY <1>a, <1>1, <1>2, <1>8, <2>2, <3>0 DEF Placed
    <3>2. ASSUME NEW k, NEW j, Placed(T, k, j, r) PROVE k = a /\ j = i - n
      <4>1. \A x : Placed(S, a, x, r) => x = i
        BY <1>8
      <4>2. ~\E x : Placed(S, b, x, r)
        BY <1>8, <2>2
      <4>3. CASE k = a /\ j \in Nat /\ Placed(S, a, j + n, r)
        BY <3>0, <4>1, <4>3
      <4>4. CASE k = b /\ j \in Nat /\ j > Len(S[b]) /\ Placed(S, a, j - Len(S[b]), r)
        <5>1. j - Len(S[b]) = i
          BY <4>1, <4>4
        <5>2. j \in 1 .. Len(S[b]) + n
          BY <1>3, <3>2, <4>4 DEF Placed
        <5> QED
          BY <1>a, <3>0, <5>1, <5>2
      <4> QED
        BY <1>6, <1>8, <2>2, <3>2, <4>2, <4>3, <4>4
    <3> QED
      BY <3>1, <3>2 DEF Once
  <2>3. CASE h # a
    <3>1. Placed(T, h, i, r)
      <4>1. CASE h = b
        BY <1>a, <1>3, <1>4, <1>8, <4>1 DEF Placed
      <4>2. CASE h # b
        BY <1>a, <1>8, <2>3, <4>2 DEF Placed
      <4> QED
        BY <4>1, <4>2
    <3>2. ASSUME NEW k, NEW j, Placed(T, k, j, r) PROVE k = h /\ j = i
      BY <1>6, <1>8, <2>3, <3>2
    <3> QED
      BY <3>1, <3>2 DEF Once
  <2> QED
    BY <2>1, <2>2, <2>3
<1> QED
  BY <1>7, <1>8 DEF Kept, Once

\* All that a has goes there.
LEMMA MoveAllKeeps ==
  ASSUME NEW H, NEW X, NEW S \in [H -> Seq(X)], NEW a \in H, NEW b \in H, a # b,
         NEW T \in [H -> Seq(X)], T[a] = <<>>, T[b] = S[b] \o S[a],
         \A h \in H : h # a /\ h # b => T[h] = S[h],
         NEW r
  PROVE  Kept(S, T, r)
<1>1. S[a] \in Seq(X)
  OBVIOUS
<1>2. /\ Len(S[a]) \in Nat /\ Len(S[a]) <= Len(S[a])
      /\ SubSeq(S[a], 1, Len(S[a])) = S[a]
      /\ SubSeq(S[a], Len(S[a]) + 1, Len(S[a])) = <<>>
  BY <1>1
<1>3. /\ T[a] = SubSeq(S[a], Len(S[a]) + 1, Len(S[a]))
      /\ T[b] = S[b] \o SubSeq(S[a], 1, Len(S[a]))
  BY <1>2
<1> DEFINE n == Len(S[a])
<1>4. /\ n \in Nat /\ n <= Len(S[a])
      /\ T[a] = SubSeq(S[a], n + 1, Len(S[a])) /\ T[b] = S[b] \o SubSeq(S[a], 1, n)
  BY <1>2, <1>3
<1> HIDE DEF n
<1> QED
  BY <1>4, MoveKeeps

\* A new command at the end of a.
LEMMA AppendKeeps ==
  ASSUME NEW H, NEW X, NEW S \in [H -> Seq(X)], NEW a \in H, NEW m,
         NEW T, DOMAIN T = H, T[a] = Append(S[a], m),
         \A h \in H : h # a => T[h] = S[h]
  PROVE  /\ \A r : r # m => Kept(S, T, r)
         /\ Nowhere(S, m) => Once(T, m)
<1>a. /\ S[a] \in Seq(X) /\ DOMAIN S = H /\ Len(S[a]) \in Nat
  OBVIOUS
<1>1. \A j : j \in DOMAIN T[a] <=> j \in 1 .. Len(S[a]) + 1
  BY <1>a
<1>2. /\ T[a][Len(S[a]) + 1] = m
      /\ \A j \in 1 .. Len(S[a]) : T[a][j] = S[a][j]
  BY <1>a
<1>3. ASSUME NEW r, r # m, NEW k, NEW j PROVE Placed(T, k, j, r) <=> Placed(S, k, j, r)
  <2>1. CASE k = a
    BY <1>a, <1>1, <1>2, <1>3, <2>1 DEF Placed
  <2>2. CASE k # a
    BY <1>a, <2>2 DEF Placed
  <2> QED
    BY <2>1, <2>2
<1>4. ASSUME Nowhere(S, m) PROVE Once(T, m)
  <2>1. Placed(T, a, Len(S[a]) + 1, m)
    BY <1>a, <1>1, <1>2 DEF Placed
  <2>2. ASSUME NEW k, NEW j, Placed(T, k, j, m) PROVE k = a /\ j = Len(S[a]) + 1
    <3>1. CASE k # a
      BY <1>a, <1>4, <2>2, <3>1 DEF Placed, Nowhere
    <3>2. CASE k = a /\ j \in 1 .. Len(S[a])
      BY <1>a, <1>2, <1>4, <2>2, <3>2 DEF Placed, Nowhere
    <3>3. CASE k = a /\ j \notin 1 .. Len(S[a])
      BY <1>a, <1>1, <2>2, <3>3 DEF Placed
    <3> QED
      BY <3>1, <3>2, <3>3
  <2> QED
    BY <2>1, <2>2 DEF Once
<1> QED
  BY <1>3, <1>4 DEF Kept, Once, Nowhere

\* Holders that change their names: g[h] is the former name of h, and nothing was
\* held under a name that is none.
Renamed(H, S, T, g) ==
  /\ DOMAIN S = H /\ DOMAIN T = H /\ g \in [H -> H]
  /\ \A h, k \in H : g[h] = g[k] => h = k
  /\ \A h \in H : T[h] = S[g[h]]
  /\ \A k \in H : S[k] # <<>> => \E h \in H : g[h] = k

LEMMA RenameKeeps ==
  ASSUME NEW H, NEW S, NEW T, NEW g, Renamed(H, S, T, g), NEW r
  PROVE  Kept(S, T, r)
<1>0. /\ DOMAIN S = H /\ DOMAIN T = H /\ g \in [H -> H]
      /\ \A h, k \in H : g[h] = g[k] => h = k
      /\ \A h \in H : T[h] = S[g[h]]
      /\ \A k \in H : S[k] # <<>> => \E h \in H : g[h] = k
  BY DEF Renamed
<1>1. \A k, j : Placed(T, k, j, r) => k \in H /\ Placed(S, g[k], j, r)
  BY <1>0 DEF Placed
<1>2. ASSUME NEW h, NEW i, Placed(S, h, i, r),
             \A k, j : Placed(S, k, j, r) => k = h /\ j = i
      PROVE  Once(T, r)
  <2>1. h \in H /\ S[h] # <<>>
    BY <1>0, <1>2 DEF Placed
  <2>2. PICK k \in H : g[k] = h
    BY <1>0, <2>1
  <2>3. Placed(T, k, i, r)
    BY <1>0, <1>2, <2>2 DEF Placed
  <2>4. \A l, j : Placed(T, l, j, r) => l = k /\ j = i
    BY <1>0, <1>1, <1>2, <2>2
  <2> QED
    BY <2>3, <2>4 DEF Once
<1> QED
  BY <1>1, <1>2 DEF Kept, Once, Nowhere
-----------------------------------------------------------------------------
(***************************************************************************)
(* The holders of an endpoint with threads T: the ends of its connections, *)
(* the buffers of its threads, the messages of its Looper, its listener.   *)
(***************************************************************************)
Holder(T) ==
  ({"unread"} \X Conn \X {0}) \cup ({"read"} \X Device \X T)
    \cup ({"posted"} \X Device \X (Nat \ {0})) \cup ({"handed"} \X Device \X {0})

Hold(T, inbox, chunk, queue, hand) ==
  [h \in Holder(T) |->
     CASE h[1] = "unread" -> inbox[h[2]]
       [] h[1] = "read"   -> chunk[h[2]][h[3]]
       [] h[1] = "posted" -> IF h[3] \in DOMAIN queue[h[2]]
                             THEN queue[h[2]][h[3]].cmds ELSE <<>>
       [] h[1] = "handed" -> hand[h[2]]]

LEMMA HolderIs ==
  ASSUME NEW T
  PROVE  /\ \A h \in Holder(T) :
              \/ \E c \in Conn : h = <<"unread", c, 0>>
              \/ \E d \in Device, t \in T : h = <<"read", d, t>>
              \/ \E d \in Device, k \in Nat \ {0} : h = <<"posted", d, k>>
              \/ \E d \in Device : h = <<"handed", d, 0>>
         /\ \A c \in Conn : <<"unread", c, 0>> \in Holder(T)
         /\ \A d \in Device, t \in T : <<"read", d, t>> \in Holder(T)
         /\ \A d \in Device, k \in Nat \ {0} : <<"posted", d, k>> \in Holder(T)
         /\ \A d \in Device : <<"handed", d, 0>> \in Holder(T)
BY DEF Holder

LEMMA HoldIs ==
  ASSUME NEW T, NEW inbox, NEW chunk, NEW queue, NEW hand
  PROVE  LET S == Hold(T, inbox, chunk, queue, hand) IN
         /\ DOMAIN S = Holder(T)
         /\ \A c \in Conn : S[<<"unread", c, 0>>] = inbox[c]
         /\ \A d \in Device, t \in T : S[<<"read", d, t>>] = chunk[d][t]
         /\ \A d \in Device, k \in Nat \ {0} :
              S[<<"posted", d, k>>] =
                IF k \in DOMAIN queue[d] THEN queue[d][k].cmds ELSE <<>>
         /\ \A d \in Device : S[<<"handed", d, 0>>] = hand[d]
BY HolderIs DEF Hold

LEMMA HoldType ==
  ASSUME NEW T, NEW inbox \in [Conn -> Seq(Cmd)], NEW chunk \in [Device -> [T -> Seq(Cmd)]],
         NEW queue \in [Device -> Seq(Message)], NEW hand \in [Device -> Seq(Cmd)]
  PROVE  Hold(T, inbox, chunk, queue, hand) \in [Holder(T) -> Seq(Cmd)]
<1> DEFINE S == Hold(T, inbox, chunk, queue, hand)
<1>1. ASSUME NEW h \in Holder(T) PROVE S[h] \in Seq(Cmd)
  <2>1. CASE \E c \in Conn : h = <<"unread", c, 0>>
    BY <2>1, HoldIs
  <2>2. CASE \E d \in Device, t \in T : h = <<"read", d, t>>
    BY <2>2, HoldIs
  <2>3. CASE \E d \in Device, k \in Nat \ {0} : h = <<"posted", d, k>>
    <3>1. PICK d \in Device, k \in Nat \ {0} : h = <<"posted", d, k>>
      BY <2>3
    <3>2. CASE k \in DOMAIN queue[d]
      <4>1. queue[d] \in Seq(Message)
        OBVIOUS
      <4>2. queue[d][k] \in Message
        BY <3>2, <4>1
      <4>3. queue[d][k].cmds \in Seq(Cmd)
        BY <4>2 DEF Message
      <4> QED
        BY <3>1, <3>2, <4>3, HoldIs
    <3>3. CASE k \notin DOMAIN queue[d]
      <4>1. S[h] = <<>>
        BY <3>1, <3>3, HoldIs
      <4>2. <<>> \in Seq(Cmd)
        OBVIOUS
      <4> QED
        BY <4>1, <4>2
    <3> QED
      BY <3>2, <3>3
  <2>4. CASE \E d \in Device : h = <<"handed", d, 0>>
    BY <2>4, HoldIs
  <2> QED
    BY <2>1, <2>2, <2>3, <2>4, HolderIs
<1> DEFINE F(h) == CASE h[1] = "unread" -> inbox[h[2]]
                     [] h[1] = "read"   -> chunk[h[2]][h[3]]
                     [] h[1] = "posted" -> IF h[3] \in DOMAIN queue[h[2]]
                                           THEN queue[h[2]][h[3]].cmds ELSE <<>>
                     [] h[1] = "handed" -> hand[h[2]]
<1>2. S = [h \in Holder(T) |-> F(h)]
  BY DEF Hold
<1> HIDE DEF F, S
<1>3. S \in [Holder(T) -> Seq(Cmd)]
  BY <1>1, <1>2
<1> QED
  BY <1>3 DEF S

\* A read: the first n commands of a connection into an empty buffer.
LEMMA ReadKeeps ==
  ASSUME NEW T, NEW inbox \in [Conn -> Seq(Cmd)], NEW chunk \in [Device -> [T -> Seq(Cmd)]],
         NEW queue \in [Device -> Seq(Message)], NEW hand \in [Device -> Seq(Cmd)],
         NEW c \in Conn, NEW d \in Device, NEW t \in T, chunk[d][t] = <<>>,
         NEW n \in 1 .. Len(inbox[c]), NEW r
  PROVE  Kept(Hold(T, inbox, chunk, queue, hand),
              Hold(T, [inbox EXCEPT ![c] = SubSeq(inbox[c], n + 1, Len(inbox[c]))],
                   [chunk EXCEPT ![d][t] = SubSeq(inbox[c], 1, n)], queue, hand), r)
<1> DEFINE rest == SubSeq(inbox[c], n + 1, Len(inbox[c]))
           first == SubSeq(inbox[c], 1, n)
           inbox2 == [inbox EXCEPT ![c] = rest]
           chunk2 == [chunk EXCEPT ![d][t] = first]
           S == Hold(T, inbox, chunk, queue, hand)
           S2 == Hold(T, inbox2, chunk2, queue, hand)
           a == <<"unread", c, 0>>
           b == <<"read", d, t>>
<1>1. inbox[c] \in Seq(Cmd) /\ Len(inbox[c]) \in Nat
  OBVIOUS
<1>2. rest \in Seq(Cmd) /\ first \in Seq(Cmd) /\ n \in Nat /\ n <= Len(inbox[c])
  BY <1>1
<1>3. inbox2 \in [Conn -> Seq(Cmd)] /\ chunk2 \in [Device -> [T -> Seq(Cmd)]]
  BY <1>2
<1>4. S \in [Holder(T) -> Seq(Cmd)]
  BY HoldType
<1>5. S2 \in [Holder(T) -> Seq(Cmd)]
  <2> HIDE DEF inbox2, chunk2
  <2> QED
    BY <1>3, HoldType
<1>6. a \in Holder(T) /\ b \in Holder(T) /\ a # b
  BY HolderIs
<1>7. S[a] = inbox[c] /\ S[b] = <<>> /\ S2[a] = rest /\ S2[b] = first
  <2>1. inbox2[c] = rest /\ chunk2[d][t] = first
    OBVIOUS
  <2> HIDE DEF inbox2, chunk2, rest, first
  <2> QED
    BY <2>1, HoldIs
<1>8. ASSUME NEW h \in Holder(T), h # a, h # b PROVE S2[h] = S[h]
  <2>1. \A x \in Conn : x # c => inbox2[x] = inbox[x]
    OBVIOUS
  <2>2. \A x \in Device, y \in T : <<"read", x, y>> # b => chunk2[x][y] = chunk[x][y]
    OBVIOUS
  <2> HIDE DEF inbox2, chunk2
  <2>3. CASE \E x \in Conn : h = <<"unread", x, 0>>
    <3>1. PICK x \in Conn : h = <<"unread", x, 0>>
      BY <2>3
    <3>2. inbox2[x] = inbox[x]
      BY <1>8, <2>1, <3>1
    <3> QED
      BY <3>1, <3>2, HoldIs
  <2>4. CASE \E x \in Device, y \in T : h = <<"read", x, y>>
    <3>1. PICK x \in Device, y \in T : h = <<"read", x, y>>
      BY <2>4
    <3>2. chunk2[x][y] = chunk[x][y]
      BY <1>8, <2>2, <3>1
    <3> QED
      BY <3>1, <3>2, HoldIs
  <2>5. CASE \E x \in Device, k \in Nat \ {0} : h = <<"posted", x, k>>
    BY <2>5, HoldIs
  <2>6. CASE \E x \in Device : h = <<"handed", x, 0>>
    BY <2>6, HoldIs
  <2> QED
    BY <2>3, <2>4, <2>5, <2>6, HolderIs
<1>9. S2[b] = S[b] \o SubSeq(S[a], 1, n) /\ S2[a] = SubSeq(S[a], n + 1, Len(S[a]))
  <2>1. first = <<>> \o first
    BY <1>2
  <2> QED
    BY <1>7, <2>1
<1> HIDE DEF S, S2, a, b
<1>10. Kept(S, S2, r)
  <2>1. n \in Nat /\ n <= Len(S[a])
    BY <1>2, <1>7
  <2>2. \A h \in Holder(T) : h # a /\ h # b => S2[h] = S[h]
    BY <1>8
  <2> QED
    BY <1>4, <1>5, <1>6, <1>9, <2>1, <2>2, MoveKeeps, ZenonT(40)
<1> QED
  BY <1>10 DEF S, S2

\* A message: all that a buffer has, at the end of the Looper's queue.
LEMMA PostKeeps ==
  ASSUME NEW T, NEW inbox \in [Conn -> Seq(Cmd)], NEW chunk \in [Device -> [T -> Seq(Cmd)]],
         NEW queue \in [Device -> Seq(Message)], NEW hand \in [Device -> Seq(Cmd)],
         NEW d \in Device, NEW t \in T, NEW m \in Message, m.cmds = chunk[d][t], NEW r
  PROVE  Kept(Hold(T, inbox, chunk, queue, hand),
              Hold(T, inbox, [chunk EXCEPT ![d][t] = <<>>],
                   [queue EXCEPT ![d] = Append(queue[d], m)], hand), r)
<1> DEFINE chunk2 == [chunk EXCEPT ![d][t] = <<>>]
           queue2 == [queue EXCEPT ![d] = Append(queue[d], m)]
           last == Len(queue[d]) + 1
           S == Hold(T, inbox, chunk, queue, hand)
           S2 == Hold(T, inbox, chunk2, queue2, hand)
           a == <<"read", d, t>>
           b == <<"posted", d, last>>
<1>1. /\ queue[d] \in Seq(Message) /\ last \in Nat \ {0} /\ last \notin DOMAIN queue[d]
      /\ Append(queue[d], m) \in Seq(Message) /\ chunk[d][t] \in Seq(Cmd)
      /\ <<>> \in Seq(Cmd)
  OBVIOUS
<1>2. /\ \A k : k \in DOMAIN queue2[d] <=> k \in DOMAIN queue[d] \/ k = last
      /\ \A k \in DOMAIN queue[d] : queue2[d][k] = queue[d][k]
      /\ queue2[d][last] = m
  BY <1>1
<1>3. queue2 \in [Device -> Seq(Message)] /\ chunk2 \in [Device -> [T -> Seq(Cmd)]]
  BY <1>1
<1>4. S \in [Holder(T) -> Seq(Cmd)]
  BY HoldType
<1>5. S2 \in [Holder(T) -> Seq(Cmd)]
  <2> HIDE DEF queue2, chunk2
  <2> QED
    BY <1>3, HoldType
<1>6. a \in Holder(T) /\ b \in Holder(T) /\ a # b
  BY <1>1, HolderIs
<1>7. S[a] = chunk[d][t] /\ S[b] = <<>> /\ S2[a] = <<>> /\ S2[b] = chunk[d][t]
  <2>1. chunk2[d][t] = <<>>
    OBVIOUS
  <2> HIDE DEF queue2, chunk2, last
  <2> QED
    BY <1>1, <1>2, <2>1, HoldIs
<1>8. ASSUME NEW h \in Holder(T), h # a, h # b PROVE S2[h] = S[h]
  <2>1. \A x \in Device, y \in T : <<"read", x, y>> # a => chunk2[x][y] = chunk[x][y]
    OBVIOUS
  <2>2. \A x \in Device : x # d => queue2[x] = queue[x]
    OBVIOUS
  <2> HIDE DEF queue2, chunk2, last
  <2>3. CASE \E x \in Conn : h = <<"unread", x, 0>>
    BY <2>3, HoldIs
  <2>4. CASE \E x \in Device, y \in T : h = <<"read", x, y>>
    <3>1. PICK x \in Device, y \in T : h = <<"read", x, y>>
      BY <2>4
    <3>2. chunk2[x][y] = chunk[x][y]
      BY <1>8, <2>1, <3>1
    <3> QED
      BY <3>1, <3>2, HoldIs
  <2>5. CASE \E x \in Device, k \in Nat \ {0} : h = <<"posted", x, k>>
    <3>1. PICK x \in Device, k \in Nat \ {0} : h = <<"posted", x, k>>
      BY <2>5
    <3>2. /\ k \in DOMAIN queue2[x] <=> k \in DOMAIN queue[x]
          /\ k \in DOMAIN queue[x] => queue2[x][k] = queue[x][k]
      BY <1>2, <1>8, <2>2, <3>1
    <3> QED
      BY <3>1, <3>2, HoldIs
  <2>6. CASE \E x \in Device : h = <<"handed", x, 0>>
    BY <2>6, HoldIs
  <2> QED
    BY <2>3, <2>4, <2>5, <2>6, HolderIs
<1> HIDE DEF S, S2, a, b
<1>9. S2[a] = <<>> /\ S2[b] = S[b] \o S[a]
  BY <1>1, <1>7
<1>10. Kept(S, S2, r)
  <2>1. \A h \in Holder(T) : h # a /\ h # b => S2[h] = S[h]
    BY <1>8
  <2> QED
    BY <1>4, <1>5, <1>6, <1>9, <2>1, MoveAllKeeps
<1> QED
  BY <1>10 DEF S, S2

LEMMA PostedHolder ==
  ASSUME NEW T, NEW h \in Holder(T), h[1] = "posted"
  PROVE  \E k \in Nat \ {0} : h = <<"posted", h[2], k>> /\ h[2] \in Device
<1>1. CASE \E c \in Conn : h = <<"unread", c, 0>>
  BY <1>1
<1>2. CASE \E d \in Device, t \in T : h = <<"read", d, t>>
  BY <1>2
<1>3. CASE \E d \in Device, k \in Nat \ {0} : h = <<"posted", d, k>>
  BY <1>3
<1>4. CASE \E d \in Device : h = <<"handed", d, 0>>
  BY <1>4
<1> QED
  BY <1>1, <1>2, <1>3, <1>4, HolderIs

\* The Looper takes its first message and hands what it has to the listener.
LEMMA HandleKeeps ==
  ASSUME NEW T, NEW inbox \in [Conn -> Seq(Cmd)], NEW chunk \in [Device -> [T -> Seq(Cmd)]],
         NEW queue \in [Device -> Seq(Message)], NEW hand \in [Device -> Seq(Cmd)],
         NEW d \in Device, queue[d] # <<>>, NEW r
  PROVE  Kept(Hold(T, inbox, chunk, queue, hand),
              Hold(T, inbox, chunk, [queue EXCEPT ![d] = Tail(queue[d])],
                   [hand EXCEPT ![d] = hand[d] \o Head(queue[d]).cmds]), r)
<1> DEFINE new == Head(queue[d]).cmds
           queue2 == [queue EXCEPT ![d] = Tail(queue[d])]
           hand2 == [hand EXCEPT ![d] = hand[d] \o new]
           S == Hold(T, inbox, chunk, queue, hand)
           S2 == Hold(T, inbox, chunk, queue2, hand2)
           a == <<"posted", d, 1>>
           b == <<"handed", d, 0>>
           S1 == [h \in Holder(T) |-> IF h = a THEN <<>>
                                      ELSE IF h = b THEN hand[d] \o new ELSE S[h]]
           g == [h \in Holder(T) |-> IF h[1] = "posted" /\ h[2] = d
                                     THEN <<"posted", d, h[3] + 1>> ELSE h]
<1>1. queue[d] \in Seq(Message) /\ Len(queue[d]) \in Nat /\ Len(queue[d]) > 0
  OBVIOUS
<1>2. /\ Head(queue[d]) = queue[d][1] /\ 1 \in DOMAIN queue[d]
      /\ Tail(queue[d]) \in Seq(Message) /\ Head(queue[d]) \in Message
  BY <1>1
<1>3. new \in Seq(Cmd) /\ hand[d] \in Seq(Cmd) /\ hand[d] \o new \in Seq(Cmd)
      /\ <<>> \in Seq(Cmd)
  BY <1>2 DEF Message
<1>4. \A k \in Nat \ {0} : /\ k \in DOMAIN queue2[d] <=> k + 1 \in DOMAIN queue[d]
                           /\ k \in DOMAIN queue2[d] => queue2[d][k] = queue[d][k + 1]
  BY <1>1
<1>5. S \in [Holder(T) -> Seq(Cmd)] /\ a \in Holder(T) /\ b \in Holder(T) /\ a # b
  <2>1. S \in [Holder(T) -> Seq(Cmd)]
    BY HoldType
  <2> QED
    BY <2>1, HolderIs
<1>6. S[a] = new /\ S[b] = hand[d]
  BY <1>2, HoldIs
<1>7. Kept(S, S1, r)
  <2>1. S1 \in [Holder(T) -> Seq(Cmd)]
    <3> HIDE DEF S, a, b, new
    <3> QED
      BY <1>3, <1>5
  <2>2. S1[a] = <<>> /\ S1[b] = hand[d] \o new
    <3> HIDE DEF S, a, b, new
    <3> QED
      BY <1>5
  <2>3. \A h \in Holder(T) : h # a /\ h # b => S1[h] = S[h]
    <3> HIDE DEF S, a, b, new
    <3> QED
      OBVIOUS
  <2>4. S1[a] = <<>> /\ S1[b] = S[b] \o S[a]
    BY <1>6, <2>2
  <2> HIDE DEF S, S1, a, b, new
  <2> QED
    BY <1>5, <2>1, <2>3, <2>4, MoveAllKeeps
<1>8. g \in [Holder(T) -> Holder(T)]
  <2>1. ASSUME NEW h \in Holder(T), h[1] = "posted", h[2] = d
        PROVE  <<"posted", d, h[3] + 1>> \in Holder(T)
    <3>1. PICK k \in Nat \ {0} : h = <<"posted", d, k>>
      BY <2>1, PostedHolder
    <3>2. h[3] + 1 \in Nat \ {0}
      BY <3>1
    <3> QED
      BY <3>2, HolderIs
  <2> QED
    BY <2>1
<1>9. \A h, k \in Holder(T) : g[h] = g[k] => h = k
  <2> SUFFICES ASSUME NEW h \in Holder(T), NEW k \in Holder(T), g[h] = g[k] PROVE h = k
    OBVIOUS
  <2>1. ASSUME NEW x \in Holder(T), x[1] = "posted", x[2] = d
        PROVE  \E i \in Nat : x = <<"posted", d, i>> /\ g[x] = <<"posted", d, i + 1>>
    <3>1. PICK i \in Nat \ {0} : x = <<"posted", d, i>>
      BY <2>1, PostedHolder
    <3> QED
      BY <3>1
  <2>2. ASSUME NEW x \in Holder(T), ~(x[1] = "posted" /\ x[2] = d) PROVE g[x] = x
    BY <2>2
  <2> DEFINE Q(x) == x[1] = "posted" /\ x[2] = d
  <2>3. CASE Q(h) /\ Q(k)
    <3>1. PICK i \in Nat : h = <<"posted", d, i>> /\ g[h] = <<"posted", d, i + 1>>
      BY <2>1, <2>3
    <3>2. PICK j \in Nat : k = <<"posted", d, j>> /\ g[k] = <<"posted", d, j + 1>>
      BY <2>1, <2>3
    <3> HIDE DEF g
    <3>3. i + 1 = j + 1
      BY <3>1, <3>2
    <3> QED
      BY <3>1, <3>2, <3>3
  <2>4. CASE ~Q(h) /\ ~Q(k)
    BY <2>2, <2>4
  <2>5. ASSUME NEW x \in Holder(T), NEW y \in Holder(T), Q(x), ~Q(y), g[x] = g[y]
        PROVE  FALSE
    <3>1. PICK i \in Nat : g[x] = <<"posted", d, i + 1>>
      BY <2>1, <2>5
    <3>2. y = <<"posted", d, i + 1>>
      BY <2>2, <2>5, <3>1
    <3> QED
      BY <2>5, <3>2
  <2> HIDE DEF Q, g
  <2> QED
    BY <2>3, <2>4, <2>5
<1>10. ASSUME NEW h \in Holder(T) PROVE S2[h] = S1[g[h]]
  <2>0. \A x \in Device : x # d => queue2[x] = queue[x] /\ hand2[x] = hand[x]
    OBVIOUS
  <2>00. hand2[d] = hand[d] \o new
    OBVIOUS
  <2> HIDE DEF queue2, hand2, new
  <2>1. CASE \E x \in Conn : h = <<"unread", x, 0>>
    <3>1. g[h] = h /\ h # a /\ h # b
      BY <2>1
    <3>2. S1[g[h]] = S[h]
      BY <3>1
    <3> HIDE DEF g, S1, a, b
    <3> QED
      BY <2>1, <3>2, HoldIs
  <2>2. CASE \E x \in Device, y \in T : h = <<"read", x, y>>
    <3>1. g[h] = h /\ h # a /\ h # b
      BY <2>2
    <3>2. S1[g[h]] = S[h]
      BY <3>1
    <3> HIDE DEF g, S1, a, b
    <3> QED
      BY <2>2, <3>2, HoldIs
  <2>3. CASE \E x \in Device, k \in Nat \ {0} : h = <<"posted", x, k>>
    <3>1. PICK x \in Device, k \in Nat \ {0} : h = <<"posted", x, k>>
      BY <2>3
    <3>2. CASE x = d
      <4>1. g[h] = <<"posted", d, k + 1>> /\ g[h] # a /\ g[h] # b /\ k + 1 \in Nat \ {0}
        BY <3>1, <3>2
      <4>2. S1[g[h]] = S[<<"posted", d, k + 1>>]
        BY <1>8, <4>1
      <4> HIDE DEF g, S1, a, b
      <4>3. S[<<"posted", d, k + 1>>] =
              IF k + 1 \in DOMAIN queue[d] THEN queue[d][k + 1].cmds ELSE <<>>
        BY <4>1, HoldIs
      <4>4. S2[h] = IF k \in DOMAIN queue2[d] THEN queue2[d][k].cmds ELSE <<>>
        BY <3>1, <3>2, HoldIs
      <4> QED
        BY <1>4, <4>2, <4>3, <4>4
    <3>3. CASE x # d
      <4>1. g[h] = h /\ h # a /\ h # b
        BY <3>1, <3>3
      <4>2. S1[g[h]] = S[h]
        BY <4>1
      <4> HIDE DEF g, S1, a, b
      <4>3. S[<<"posted", x, k>>] = IF k \in DOMAIN queue[x] THEN queue[x][k].cmds ELSE <<>>
        BY HoldIs
      <4>4. S2[<<"posted", x, k>>] = IF k \in DOMAIN queue2[x] THEN queue2[x][k].cmds ELSE <<>>
        BY HoldIs
      <4>5. queue2[x] = queue[x]
        BY <2>0, <3>3
      <4> HIDE DEF S, S2
      <4> QED
        BY <3>1, <4>2, <4>3, <4>4, <4>5
    <3> QED
      BY <3>2, <3>3
  <2>4. CASE \E x \in Device : h = <<"handed", x, 0>>
    <3>1. PICK x \in Device : h = <<"handed", x, 0>>
      BY <2>4
    <3>2. g[h] = h /\ h # a /\ (h = b <=> x = d)
      BY <3>1
    <3>3. S1[g[h]] = IF x = d THEN hand[d] \o new ELSE S[h]
      BY <3>2
    <3> HIDE DEF g, S1, a, b
    <3>4. S[h] = hand[x] /\ S2[h] = hand2[x]
      BY <3>1, HoldIs
    <3> HIDE DEF S, S2
    <3> QED
      BY <2>0, <2>00, <3>3, <3>4
  <2> QED
    BY <2>1, <2>2, <2>3, <2>4, HolderIs
<1>11. ASSUME NEW k \in Holder(T), S1[k] # <<>> PROVE \E h \in Holder(T) : g[h] = k
  <2>1. k # a
    BY <1>11
  <2>2. CASE k[1] = "posted" /\ k[2] = d
    <3>1. PICK i \in Nat \ {0} : k = <<"posted", d, i>>
      BY <2>2, PostedHolder
    <3>2. i # 1 /\ i - 1 \in Nat \ {0}
      BY <2>1, <3>1
    <3>3. <<"posted", d, i - 1>> \in Holder(T) /\ g[<<"posted", d, i - 1>>] = k
      BY <3>1, <3>2, HolderIs
    <3> QED
      BY <3>3
  <2>3. CASE ~(k[1] = "posted" /\ k[2] = d)
    BY <2>3
  <2> QED
    BY <2>2, <2>3
<1>12. DOMAIN S1 = Holder(T) /\ DOMAIN S2 = Holder(T)
  BY HoldIs
<1> HIDE DEF S, S1, S2, g
<1>13. Kept(S1, S2, r)
  <2>1. Renamed(Holder(T), S1, S2, g)
    BY <1>8, <1>9, <1>10, <1>11, <1>12 DEF Renamed
  <2> QED
    BY <2>1, RenameKeeps
<1>14. Kept(S, S2, r)
  BY <1>7, <1>13 DEF Kept
<1> QED
  BY <1>14 DEF S, S2

\* A write: one command more on a connection.
LEMMA WriteKeeps ==
  ASSUME NEW T, NEW inbox \in [Conn -> Seq(Cmd)], NEW chunk \in [Device -> [T -> Seq(Cmd)]],
         NEW queue \in [Device -> Seq(Message)], NEW hand \in [Device -> Seq(Cmd)],
         NEW c \in Conn, NEW m
  PROVE  LET S == Hold(T, inbox, chunk, queue, hand)
             S2 == Hold(T, [inbox EXCEPT ![c] = Append(inbox[c], m)], chunk, queue, hand)
         IN  (\A r : r # m => Kept(S, S2, r)) /\ (Nowhere(S, m) => Once(S2, m))
<1> DEFINE inbox2 == [inbox EXCEPT ![c] = Append(inbox[c], m)]
           S == Hold(T, inbox, chunk, queue, hand)
           S2 == Hold(T, inbox2, chunk, queue, hand)
           a == <<"unread", c, 0>>
<1>0. S \in [Holder(T) -> Seq(Cmd)]
  BY HoldType
<1>1. S \in [Holder(T) -> Seq(Cmd)] /\ a \in Holder(T) /\ DOMAIN S2 = Holder(T)
  BY <1>0, HolderIs, HoldIs
<1>2. S2[a] = Append(S[a], m)
  <2>1. inbox2[c] = Append(inbox[c], m)
    OBVIOUS
  <2> HIDE DEF inbox2
  <2> QED
    BY <2>1, HoldIs
<1>3. ASSUME NEW h \in Holder(T), h # a PROVE S2[h] = S[h]
  <2>1. \A x \in Conn : x # c => inbox2[x] = inbox[x]
    OBVIOUS
  <2> HIDE DEF inbox2
  <2>2. CASE \E x \in Conn : h = <<"unread", x, 0>>
    <3>1. PICK x \in Conn : h = <<"unread", x, 0>>
      BY <2>2
    <3>2. inbox2[x] = inbox[x]
      BY <1>3, <2>1, <3>1
    <3> QED
      BY <3>1, <3>2, HoldIs
  <2>3. CASE ~\E x \in Conn : h = <<"unread", x, 0>>
    BY <2>3, HolderIs, HoldIs
  <2> QED
    BY <2>2, <2>3
<1> HIDE DEF S, S2, a
<1>4. (\A r : r # m => Kept(S, S2, r)) /\ (Nowhere(S, m) => Once(S2, m))
  BY <1>1, <1>2, <1>3, AppendKeeps
<1> QED
  BY <1>4 DEF S, S2
-----------------------------------------------------------------------------
\* A connection that is not yet made is closed at both ends, with nothing to read.
UnusedEmpty ==
  \A c \in Conn : conns[c].from = NoDevice =>
    \A s \in Side : ~conns[c].open[s] /\ conns[c].inbox[s] = <<>>

\* A step that opens no end and leaves what is to be read.
ConnsQuiet ==
  \A c \in Conn : /\ conns'[c].inbox = conns[c].inbox /\ conns'[c].from = conns[c].from
                  /\ \A s \in Side : conns'[c].open[s] => conns[c].open[s]

LEMMA QuietUnused == UnusedEmpty /\ ConnsQuiet => UnusedEmpty'
BY DEF UnusedEmpty, ConnsQuiet

LEMMA ClosedQuiet ==
  ASSUME conns \in [Conn -> ConnRec], NEW C, NEW s \in Side, conns' = Closed(C, s)
  PROVE  ConnsQuiet
<1> SUFFICES ASSUME NEW c \in Conn
             PROVE  /\ conns'[c].inbox = conns[c].inbox /\ conns'[c].from = conns[c].from
                    /\ \A x \in Side : conns'[c].open[x] => conns[c].open[x]
  BY DEF ConnsQuiet
<1>1. conns[c] \in ConnRec
  OBVIOUS
<1>2. CASE c \in C /\ conns[c].open[s]
  BY <1>1, <1>2 DEF Closed, ConnRec
<1>3. CASE ~(c \in C /\ conns[c].open[s])
  BY <1>1, <1>3 DEF Closed
<1> QED
  BY <1>2, <1>3

LEMMA CrashQuiet ==
  ASSUME conns \in [Conn -> ConnRec], NEW d \in Device, Crash(d)
  PROVE  ConnsQuiet
BY DEF Crash, ConnRec, ConnsQuiet

LEMMA ResetQuiet ==
  ASSUME conns \in [Conn -> ConnRec], NEW c \in Conn, LinkReset(c)
  PROVE  ConnsQuiet
BY DEF LinkReset, ConnRec, ConnsQuiet

\* What the new connection c has to read, and any other one: what it had.
LEMMA EstablishedInbox ==
  ASSUME conns \in [Conn -> ConnRec], UnusedEmpty, NEW c \in Conn, conns[c].from = NoDevice,
         NEW d \in Device, NEW e, conns' = [conns EXCEPT ![c] = Established(d, e)]
  PROVE  UnusedEmpty' /\ \A b \in Conn, s \in Side : conns'[b].inbox[s] = conns[b].inbox[s]
<1>1. conns'[c] = Established(d, e) /\ \A b \in Conn : b # c => conns'[b] = conns[b]
  OBVIOUS
<1>2. /\ Established(d, e).from = d /\ d # NoDevice
      /\ \A s \in Side : Established(d, e).inbox[s] = <<>>
  BY SocketsAssumption DEF Established, Unused
<1> QED
  BY <1>1, <1>2 DEF UnusedEmpty

\* What a write adds to, if it adds at all.
LEMMA WrittenInbox ==
  ASSUME conns \in [Conn -> ConnRec], UnusedEmpty, NEW c \in ConnRef, NEW s \in Side,
         NEW m \in Cmd, conns' = Written(c, s, m)
  PROVE  /\ UnusedEmpty'
         /\ \A b \in Conn : conns'[b].inbox[s] = conns[b].inbox[s]
         /\ \A b \in Conn :
              conns'[b].inbox[Other(s)] =
                IF b = c /\ conns[c].open[s] /\ ~conns[c].reset /\ conns[c].open[Other(s)]
                THEN Append(conns[c].inbox[Other(s)], m) ELSE conns[b].inbox[Other(s)]
<1>a. Other(s) \in Side /\ Other(s) # s
  BY OtherSide
<1>1. CASE c = None \/ ~conns[c].open[s] \/ conns[c].reset
  <2>1. conns' = conns /\ (c = None => c \notin Conn)
    BY <1>1 DEF Written, None, Conn
  <2> QED
    BY <1>1, <2>1 DEF UnusedEmpty
<1>2. CASE ~(c = None \/ ~conns[c].open[s] \/ conns[c].reset)
  <2>1. c \in Conn /\ conns[c].from # NoDevice
    BY <1>2 DEF ConnRef, UnusedEmpty
  <2>2. CASE conns[c].open[Other(s)]
    <3> DEFINE q == Append(conns[c].inbox[Other(s)], m)
    <3>1. conns' = [conns EXCEPT ![c].inbox[Other(s)] = q]
      BY <1>2, <2>2 DEF Written
    <3> HIDE DEF q
    <3>2. /\ \A b \in Conn : conns'[b].from = conns[b].from /\ conns'[b].open = conns[b].open
          /\ \A b \in Conn : b # c => conns'[b] = conns[b]
          /\ conns'[c].inbox[s] = conns[c].inbox[s] /\ conns'[c].inbox[Other(s)] = q
      BY <1>a, <2>1, <3>1 DEF ConnRec
    <3>3. UnusedEmpty'
      BY <2>1, <3>2 DEF UnusedEmpty
    <3> QED
      BY <1>2, <2>2, <3>2, <3>3 DEF q
  <2>3. CASE ~conns[c].open[Other(s)]
    <3>1. conns' = [conns EXCEPT ![c].reset = TRUE]
      BY <1>2, <2>3 DEF Written
    <3>2. \A b \in Conn : /\ conns'[b].from = conns[b].from /\ conns'[b].open = conns[b].open
                          /\ conns'[b].inbox = conns[b].inbox
      BY <2>1, <3>1 DEF ConnRec
    <3> QED
      BY <2>3, <3>2 DEF UnusedEmpty
  <2> QED
    BY <2>2, <2>3
<1> QED
  BY <1>1, <1>2

LEMMA TakenInbox ==
  ASSUME conns \in [Conn -> ConnRec], UnusedEmpty, NEW c \in Conn, NEW s \in Side,
         NEW n \in 1 .. Len(conns[c].inbox[s]), conns' = Taken(c, s, n)
  PROVE  /\ UnusedEmpty'
         /\ \A b \in Conn :
              conns'[b].inbox[s] =
                IF b = c THEN SubSeq(conns[c].inbox[s], n + 1, Len(conns[c].inbox[s]))
                         ELSE conns[b].inbox[s]
<1> DEFINE q == SubSeq(conns[c].inbox[s], n + 1, Len(conns[c].inbox[s]))
<1>1. conns' = [conns EXCEPT ![c].inbox[s] = q]
  BY DEF Taken
<1>2. conns[c].inbox[s] # <<>>
  OBVIOUS
<1> HIDE DEF q
<1>3. /\ \A b \in Conn : conns'[b].from = conns[b].from /\ conns'[b].open = conns[b].open
      /\ \A b \in Conn : b # c => conns'[b] = conns[b]
      /\ conns'[c].inbox[s] = q
  BY <1>1 DEF ConnRec
<1>4. UnusedEmpty'
  BY <1>2, <1>3 DEF UnusedEmpty
<1> QED
  BY <1>3, <1>4 DEF q
-----------------------------------------------------------------------------
\* A step that makes no connection, and accepts none.
ConnsNamed ==
  \A c \in Conn : /\ conns'[c].from = conns[c].from /\ conns'[c].to = conns[c].to
                  /\ conns'[c].accepted = conns[c].accepted

LEMMA ClosedNamed ==
  ASSUME conns \in [Conn -> ConnRec], NEW C, NEW s \in Side, conns' = Closed(C, s)
  PROVE  ConnsNamed
<1> SUFFICES ASSUME NEW c \in Conn
             PROVE  /\ conns'[c].from = conns[c].from /\ conns'[c].to = conns[c].to
                    /\ conns'[c].accepted = conns[c].accepted
  BY DEF ConnsNamed
<1>1. CASE c \in C /\ conns[c].open[s]
  BY <1>1 DEF Closed, ConnRec
<1>2. CASE ~(c \in C /\ conns[c].open[s])
  BY <1>2 DEF Closed
<1> QED
  BY <1>1, <1>2

LEMMA WrittenNamed ==
  ASSUME conns \in [Conn -> ConnRec], NEW c \in ConnRef, NEW s \in Side, NEW m \in Cmd,
         conns' = Written(c, s, m)
  PROVE  ConnsNamed
<1>1. CASE c = None \/ ~conns[c].open[s] \/ conns[c].reset
  BY <1>1 DEF Written, ConnsNamed
<1>2. CASE ~(c = None \/ ~conns[c].open[s] \/ conns[c].reset)
  BY <1>2 DEF Written, ConnRec, ConnsNamed, ConnRef
<1> QED
  BY <1>1, <1>2

LEMMA TakenNamed ==
  ASSUME conns \in [Conn -> ConnRec], NEW c \in Conn, NEW s \in Side, NEW n,
         conns' = Taken(c, s, n)
  PROVE  ConnsNamed
<1> DEFINE q == SubSeq(conns[c].inbox[s], n + 1, Len(conns[c].inbox[s]))
<1>1. conns' = [conns EXCEPT ![c].inbox[s] = q]
  BY DEF Taken
<1> HIDE DEF q
<1> QED
  BY <1>1 DEF ConnsNamed, ConnRec

LEMMA CrashNamed ==
  ASSUME conns \in [Conn -> ConnRec], NEW d \in Device, Crash(d)
  PROVE  ConnsNamed
BY DEF Crash, ConnRec, ConnsNamed

LEMMA ResetNamed ==
  ASSUME conns \in [Conn -> ConnRec], NEW c \in Conn, LinkReset(c)
  PROVE  ConnsNamed
BY DEF LinkReset, ConnRec, ConnsNamed
-----------------------------------------------------------------------------
(***************************************************************************)
(* The order of commands.  o[m] is the connection command m was written    *)
(* to; the commands of one connection are to stay in the order of their    *)
(* numbers within a sequence, and from a sequence to those after it.       *)
(***************************************************************************)
Sorted(o, q) ==
  /\ \A i \in DOMAIN q : q[i] \in DOMAIN o
  /\ \A i, j \in DOMAIN q : i < j /\ o[q[i]] = o[q[j]] => q[i] < q[j]

Before(o, p, q) ==
  \A i \in DOMAIN p, j \in DOMAIN q : o[p[i]] = o[q[j]] => p[i] < q[j]

\* q has a command of connection c.
Of(o, q, c) == \E i \in DOMAIN q : q[i] \in DOMAIN o /\ o[q[i]] = c

LEMMA OrderEmpty ==
  ASSUME NEW o, NEW q
  PROVE  /\ Sorted(o, <<>>) /\ Before(o, <<>>, q) /\ Before(o, q, <<>>)
         /\ \A c : ~Of(o, <<>>, c)
BY DEF Sorted, Before, Of

\* Two sequences in a row, and what follows or precedes both.
LEMMA OrderConcat ==
  ASSUME NEW X, NEW p \in Seq(X), NEW r \in Seq(X), NEW o
  PROVE  /\ Sorted(o, p \o r) <=> Sorted(o, p) /\ Sorted(o, r) /\ Before(o, p, r)
         /\ \A q : Before(o, p \o r, q) <=> Before(o, p, q) /\ Before(o, r, q)
         /\ \A q : Before(o, q, p \o r) <=> Before(o, q, p) /\ Before(o, q, r)
         /\ \A c : Of(o, p \o r, c) <=> Of(o, p, c) \/ Of(o, r, c)
<1> DEFINE s == p \o r
<1>0. Len(p) \in Nat /\ Len(r) \in Nat /\ DOMAIN p = 1 .. Len(p) /\ DOMAIN r = 1 .. Len(r)
  OBVIOUS
<1>1. /\ DOMAIN s = 1 .. Len(p) + Len(r)
      /\ \A i \in DOMAIN p : s[i] = p[i]
      /\ \A i \in DOMAIN r : s[Len(p) + i] = r[i]
  OBVIOUS
<1>2. /\ \A i \in DOMAIN p : i \in DOMAIN s
      /\ \A i \in DOMAIN r : Len(p) + i \in DOMAIN s
      /\ \A i \in DOMAIN s : i \in DOMAIN p \/ \E j \in DOMAIN r : i = Len(p) + j
  <2>1. ASSUME NEW i \in DOMAIN s, i \notin DOMAIN p
        PROVE  i - Len(p) \in DOMAIN r /\ i = Len(p) + (i - Len(p))
    BY <1>0, <1>1, <2>1
  <2> QED
    BY <1>0, <1>1, <2>1
<1>3. /\ \A i \in DOMAIN p, j \in DOMAIN r : i < Len(p) + j
      /\ \A i, j \in DOMAIN r : i < j <=> Len(p) + i < Len(p) + j
      /\ \A i \in DOMAIN r, j \in DOMAIN p : ~(Len(p) + i < j)
  BY <1>0
<1> HIDE DEF s
<1>4. Sorted(o, s) => Sorted(o, p) /\ Sorted(o, r) /\ Before(o, p, r)
  BY <1>1, <1>2, <1>3 DEF Sorted, Before
<1>5. Sorted(o, p) /\ Sorted(o, r) /\ Before(o, p, r) => Sorted(o, s)
  <2> SUFFICES ASSUME Sorted(o, p), Sorted(o, r), Before(o, p, r) PROVE Sorted(o, s)
    OBVIOUS
  <2>1. \A i \in DOMAIN s : s[i] \in DOMAIN o
    BY <1>1, <1>2 DEF Sorted
  <2>2. ASSUME NEW i \in DOMAIN s, NEW j \in DOMAIN s, i < j, o[s[i]] = o[s[j]]
        PROVE  s[i] < s[j]
    <3>1. CASE i \in DOMAIN p /\ j \in DOMAIN p
      BY <1>1, <2>2, <3>1 DEF Sorted
    <3>2. CASE i \in DOMAIN p /\ j \notin DOMAIN p
      BY <1>1, <1>2, <2>2, <3>2 DEF Before
    <3>3. CASE i \notin DOMAIN p
      <4>1. PICK k \in DOMAIN r : i = Len(p) + k
        BY <1>2, <3>3
      <4>2. PICK l \in DOMAIN r : j = Len(p) + l
        BY <1>2, <1>3, <2>2, <4>1
      <4> QED
        BY <1>1, <1>3, <2>2, <4>1, <4>2 DEF Sorted
    <3> QED
      BY <3>1, <3>2, <3>3
  <2> QED
    BY <2>1, <2>2 DEF Sorted
<1>6. ASSUME NEW q PROVE Before(o, s, q) <=> Before(o, p, q) /\ Before(o, r, q)
  BY <1>1, <1>2 DEF Before
<1>7. ASSUME NEW q PROVE Before(o, q, s) <=> Before(o, q, p) /\ Before(o, q, r)
  BY <1>1, <1>2 DEF Before
<1>8. ASSUME NEW c PROVE Of(o, s, c) <=> Of(o, p, c) \/ Of(o, r, c)
  <2>1. Of(o, p, c) => Of(o, s, c)
    BY <1>1, <1>2 DEF Of
  <2>2. ASSUME NEW j \in DOMAIN r, r[j] \in DOMAIN o, o[r[j]] = c PROVE Of(o, s, c)
    BY <1>1, <1>2, <2>2 DEF Of
  <2>3. ASSUME NEW i \in DOMAIN s, s[i] \in DOMAIN o, o[s[i]] = c
        PROVE  Of(o, p, c) \/ Of(o, r, c)
    BY <1>1, <1>2, <2>3 DEF Of
  <2> QED
    BY <2>1, <2>2, <2>3 DEF Of
<1> QED
  BY <1>4, <1>5, <1>6, <1>7, <1>8 DEF s

\* What is cut off a sequence, and the rest.
LEMMA CutInTwo ==
  ASSUME NEW X, NEW p \in Seq(X), NEW n \in 1 .. Len(p)
  PROVE  /\ SubSeq(p, 1, n) \in Seq(X) /\ SubSeq(p, n + 1, Len(p)) \in Seq(X)
         /\ p = SubSeq(p, 1, n) \o SubSeq(p, n + 1, Len(p))
<1>1. Len(p) \in Nat /\ n <= Len(p)
  OBVIOUS
<1>2. SubSeq(p, 1, n) \in Seq(X) /\ SubSeq(p, n + 1, Len(p)) \in Seq(X)
  BY <1>1
<1>3. /\ Len(SubSeq(p, 1, n)) = n /\ Len(SubSeq(p, n + 1, Len(p))) = Len(p) - n
      /\ \A i \in 1 .. n : SubSeq(p, 1, n)[i] = p[i]
      /\ \A i \in 1 .. Len(p) - n : SubSeq(p, n + 1, Len(p))[i] = p[n + i]
  BY <1>1
<1> DEFINE a == SubSeq(p, 1, n)  b == SubSeq(p, n + 1, Len(p))
<1> HIDE DEF a, b
<1>4. a \o b \in Seq(X) /\ Len(a \o b) = Len(p)
  BY <1>1, <1>2, <1>3 DEF a, b
<1>5. ASSUME NEW i \in 1 .. Len(p) PROVE (a \o b)[i] = p[i]
  <2>1. a \in Seq(X) /\ b \in Seq(X) /\ Len(a) = n /\ Len(b) = Len(p) - n
    BY <1>2, <1>3 DEF a, b
  <2>2. CASE i <= n
    BY <1>1, <1>3, <2>1, <2>2 DEF a
  <2>3. CASE i > n
    <3>1. (a \o b)[i] = b[i - n]
      BY <1>1, <2>1, <2>3
    <3>2. b[i - n] = p[n + (i - n)]
      BY <1>1, <1>3, <2>3 DEF b
    <3> QED
      BY <1>1, <3>1, <3>2
  <2>4. i <= n \/ i > n
    BY <1>1
  <2> QED
    BY <2>2, <2>3, <2>4
<1>6. p = a \o b
  <2> DEFINE s == a \o b
  <2>1. s \in Seq(X) /\ Len(s) = Len(p) /\ \A i \in 1 .. Len(p) : s[i] = p[i]
    BY <1>4, <1>5
  <2> HIDE DEF s
  <2>2. p = s
    BY <2>1
  <2> QED
    BY <2>2 DEF s
<1> QED
  BY <1>2, <1>6 DEF a, b

\* One more command is written, to connection c: what is in order stays so.
LEMMA OrderKept ==
  ASSUME NEW X, NEW o \in Seq(X), NEW c \in X
  PROVE  LET w == Append(o, c) IN
         /\ \A q : Sorted(o, q) => Sorted(w, q) /\ \A b : Of(w, q, b) <=> Of(o, q, b)
         /\ \A p, q : Sorted(o, p) /\ Sorted(o, q) /\ Before(o, p, q) => Before(w, p, q)
<1>1. \A m \in DOMAIN o : m \in DOMAIN Append(o, c) /\ Append(o, c)[m] = o[m]
  OBVIOUS
<1> HIDE DEF Sorted
<1> DEFINE w == Append(o, c)
<1>2. \A m \in DOMAIN o : m \in DOMAIN w /\ w[m] = o[m]
  BY <1>1
<1> HIDE DEF w
<1>3. ASSUME NEW q, Sorted(o, q) PROVE Sorted(w, q) /\ \A b : Of(w, q, b) <=> Of(o, q, b)
  <2>1. \A i \in DOMAIN q : q[i] \in DOMAIN o /\ q[i] \in DOMAIN w /\ w[q[i]] = o[q[i]]
    BY <1>2, <1>3 DEF Sorted
  <2>2. Sorted(w, q)
    BY <1>3, <2>1 DEF Sorted
  <2> QED
    BY <2>1, <2>2 DEF Of
<1>4. ASSUME NEW p, NEW q, Sorted(o, p), Sorted(o, q), Before(o, p, q) PROVE Before(w, p, q)
  BY <1>2, <1>4 DEF Sorted, Before
<1> QED
  BY <1>3, <1>4 DEF w

\* The new command comes last wherever it goes.
LEMMA OrderLast ==
  ASSUME NEW X, NEW o \in Seq(X), NEW c \in X, NEW p \in Seq(Nat), Sorted(o, p)
  PROVE  LET w == Append(o, c)  m == Len(o) + 1 IN
         /\ Sorted(w, Append(p, m))
         /\ \A i \in DOMAIN Append(p, m) :
              w[Append(p, m)[i]] = c <=> (i = Len(p) + 1 \/ o[p[i]] = c)
         /\ \A q : Sorted(o, q) /\ Before(o, q, p) => Before(w, q, Append(p, m))
<1> DEFINE w == Append(o, c)  m == Len(o) + 1  s == Append(p, m)
<1>1. /\ Len(o) \in Nat /\ DOMAIN o = 1 .. Len(o) /\ m \in DOMAIN w /\ w[m] = c
      /\ \A k \in DOMAIN o : k \in Nat /\ k < m /\ k \in DOMAIN w /\ w[k] = o[k]
  OBVIOUS
<1>2. /\ Len(p) \in Nat /\ DOMAIN p = 1 .. Len(p) /\ DOMAIN s = 1 .. Len(p) + 1
      /\ s[Len(p) + 1] = m /\ \A i \in DOMAIN p : s[i] = p[i]
      /\ \A i \in DOMAIN s : i = Len(p) + 1 \/ i \in DOMAIN p
      /\ \A i \in DOMAIN p : i < Len(p) + 1
      /\ \A i \in DOMAIN s : ~(Len(p) + 1 < i)
  OBVIOUS
<1>3. \A i \in DOMAIN p : p[i] \in DOMAIN o
  BY DEF Sorted
<1> HIDE DEF w, m, s
<1>4. Sorted(w, s)
  <2>1. \A i \in DOMAIN s : s[i] \in DOMAIN w
    BY <1>1, <1>2, <1>3
  <2>2. ASSUME NEW i \in DOMAIN s, NEW j \in DOMAIN s, i < j, w[s[i]] = w[s[j]]
        PROVE  s[i] < s[j]
    <3>1. CASE j \in DOMAIN p
      <4>1. i \in DOMAIN p
        BY <1>2, <2>2, <3>1
      <4> QED
        BY <1>1, <1>2, <1>3, <2>2, <3>1, <4>1 DEF Sorted
    <3>2. CASE j = Len(p) + 1
      <4>1. i \in DOMAIN p
        BY <1>2, <2>2, <3>2
      <4> QED
        BY <1>1, <1>2, <1>3, <3>2, <4>1
    <3> QED
      BY <1>2, <3>1, <3>2
  <2> QED
    BY <2>1, <2>2 DEF Sorted
<1>5. \A i \in DOMAIN s : w[s[i]] = c <=> (i = Len(p) + 1 \/ o[p[i]] = c)
  BY <1>1, <1>2, <1>3
<1>6. ASSUME NEW q, Sorted(o, q), Before(o, q, p) PROVE Before(w, q, s)
  <2> SUFFICES ASSUME NEW i \in DOMAIN q, NEW j \in DOMAIN s, w[q[i]] = w[s[j]]
               PROVE  q[i] < s[j]
    BY DEF Before
  <2>1. q[i] \in DOMAIN o
    BY <1>6 DEF Sorted
  <2>2. CASE j \in DOMAIN p
    BY <1>1, <1>2, <1>3, <1>6, <2>1, <2>2 DEF Before
  <2>3. CASE j = Len(p) + 1
    BY <1>1, <1>2, <2>1, <2>3
  <2> QED
    BY <1>2, <2>2, <2>3
<1> QED
  BY <1>4, <1>5, <1>6 DEF w, m, s
-----------------------------------------------------------------------------
(***************************************************************************)
(* Commands counted: a step that neither doubles nor invents a command     *)
(* leaves no more spots for it than there were.                            *)
(***************************************************************************)
Spots(H, S, m) == {x \in H \X Nat : Placed(S, x[1], x[2], m)}

\* An injection, by its points.
LEMMA InjectionBy ==
  ASSUME NEW P, NEW Q, NEW f \in [P -> Q], \A x, y \in P : f[x] = f[y] => x = y
  PROVE  ExistsInjection(P, Q)
BY DEF ExistsInjection, Injection, IsInjective

LEMMA InjectionPoints ==
  ASSUME NEW P, NEW Q, ExistsInjection(P, Q)
  PROVE  \E f \in [P -> Q] : \A x, y \in P : f[x] = f[y] => x = y
BY DEF ExistsInjection, Injection, IsInjective

LEMMA InjectSubset ==
  ASSUME NEW P, NEW Q, P \subseteq Q
  PROVE  ExistsInjection(P, Q)
<1> DEFINE f == [x \in P |-> x]
<1>1. f \in [P -> Q] /\ \A x, y \in P : f[x] = f[y] => x = y
  OBVIOUS
<1> HIDE DEF f
<1> QED
  BY <1>1, InjectionBy

\* One element more on both sides.
LEMMA InjectMore ==
  ASSUME NEW P, NEW Q, ExistsInjection(P, Q), NEW x, NEW y, y \notin Q,
         NEW R, R \subseteq P \cup {x}
  PROVE  ExistsInjection(R, Q \cup {y})
<1>1. PICK f \in [P -> Q] : \A u, v \in P : f[u] = f[v] => u = v
  BY InjectionPoints
<1> DEFINE g == [u \in R |-> IF u \in P THEN f[u] ELSE y]
<1>2. g \in [R -> Q \cup {y}]
  OBVIOUS
<1>3. ASSUME NEW u \in R, NEW v \in R, g[u] = g[v] PROVE u = v
  <2>1. CASE u \in P /\ v \in P
    BY <1>1, <1>3, <2>1
  <2>2. CASE u \notin P /\ v \notin P
    BY <2>2
  <2>3. CASE u \in P /\ v \notin P
    BY <1>3, <2>3
  <2>4. CASE u \notin P /\ v \in P
    BY <1>3, <2>4
  <2> QED
    BY <2>1, <2>2, <2>3, <2>4
<1> HIDE DEF g
<1> QED
  BY <1>2, <1>3, InjectionBy

\* One element less: whichever it is, the first number is free for the others.
LEMMA InjectLess ==
  ASSUME NEW P, NEW lo \in Nat, NEW hi \in Nat, ExistsInjection(P, lo + 1 .. hi),
         NEW x \in P
  PROVE  /\ lo + 1 <= hi
         /\ ExistsInjection(P \ {x}, lo + 2 .. hi)
<1>1. PICK f \in [P -> lo + 1 .. hi] : \A u, v \in P : f[u] = f[v] => u = v
  BY InjectionPoints
<1>2. f[x] \in lo + 1 .. hi
  BY <1>1
<1> DEFINE g == [u \in P \ {x} |-> IF f[u] = lo + 1 THEN f[x] ELSE f[u]]
<1>3. ASSUME NEW u \in P \ {x}
      PROVE  g[u] \in lo + 2 .. hi
  <2>1. f[u] \in lo + 1 .. hi /\ f[u] # f[x]
    BY <1>1
  <2> QED
    BY <1>2, <2>1
<1>4. ASSUME NEW u \in P \ {x}, NEW v \in P \ {x}, g[u] = g[v] PROVE u = v
  <2>1. u \in P /\ v \in P /\ f[u] # f[x] /\ f[v] # f[x]
    BY <1>1
  <2>2. f[u] = f[v]
    BY <1>4, <2>1
  <2> QED
    BY <1>1, <2>1, <2>2
<1>5. g \in [P \ {x} -> lo + 2 .. hi]
  BY <1>3
<1> HIDE DEF g
<1>6. ExistsInjection(P \ {x}, lo + 2 .. hi)
  BY <1>4, <1>5, InjectionBy
<1> QED
  BY <1>2, <1>6
-----------------------------------------------------------------------------
LEMMA SpotIs ==
  ASSUME NEW H, NEW S, DOMAIN S = H, NEW m
  PROVE  /\ \A x \in Spots(H, S, m) :
              /\ x = <<x[1], x[2]>> /\ x[1] \in H /\ x[2] \in Nat
              /\ x[2] \in DOMAIN S[x[1]] /\ S[x[1]][x[2]] = m
         /\ \A h \in H, i \in Nat :
              i \in DOMAIN S[h] /\ S[h][i] = m => <<h, i>> \in Spots(H, S, m)
BY DEF Spots, Placed

\* Commands dropped.
LEMMA DropSpots ==
  ASSUME NEW H, NEW S, NEW T, DOMAIN S = H, DOMAIN T = H,
         \A h \in H : T[h] = S[h] \/ T[h] = <<>>, NEW m
  PROVE  Spots(H, T, m) \subseteq Spots(H, S, m)
<1>1. ASSUME NEW h, NEW i, Placed(T, h, i, m) PROVE Placed(S, h, i, m)
  <2>1. h \in H /\ T[h] # <<>>
    BY <1>1 DEF Placed
  <2> QED
    BY <1>1, <2>1 DEF Placed
<1> QED
  BY <1>1 DEF Spots

\* A command at the end of a.
Grown(H, S, T, a, c) ==
  /\ DOMAIN T = H /\ T[a] = Append(S[a], c)
  /\ \A h \in H : h # a => T[h] = S[h] \/ T[h] = <<>>

LEMMA AppendSpots ==
  ASSUME NEW H, NEW X, NEW S \in [H -> Seq(X)], NEW T, NEW a \in H, NEW c,
         Grown(H, S, T, a, c), NEW m, NEW x \in Spots(H, T, m)
  PROVE  x \in Spots(H, S, m) \/ (x = <<a, Len(S[a]) + 1>> /\ m = c)
<1>0. /\ S[a] \in Seq(X) /\ Len(S[a]) \in Nat /\ DOMAIN S = H
      /\ DOMAIN T = H /\ T[a] = Append(S[a], c)
      /\ \A h \in H : h # a => T[h] = S[h] \/ T[h] = <<>>
  BY DEF Grown
<1>1. /\ \A j : j \in DOMAIN T[a] <=> j \in DOMAIN S[a] \/ j = Len(S[a]) + 1
      /\ \A j \in DOMAIN S[a] : T[a][j] = S[a][j]
      /\ T[a][Len(S[a]) + 1] = c
  BY <1>0
<1>2. ASSUME NEW h, NEW i, Placed(T, h, i, m)
      PROVE  Placed(S, h, i, m) \/ (h = a /\ i = Len(S[a]) + 1 /\ m = c)
  <2>1. CASE h = a
    BY <1>0, <1>1, <1>2, <2>1 DEF Placed
  <2>2. CASE h # a
    <3>1. h \in H /\ T[h] # <<>> /\ i \in DOMAIN T[h] /\ T[h][i] = m
      BY <1>0, <1>2 DEF Placed
    <3>2. T[h] = S[h]
      BY <1>0, <2>2, <3>1
    <3> QED
      BY <1>0, <3>1, <3>2 DEF Placed
  <2> QED
    BY <2>1, <2>2
<1>3. x = <<x[1], x[2]>> /\ Placed(T, x[1], x[2], m) /\ x[1] \in H /\ x[2] \in Nat
  BY DEF Spots
<1> QED
  BY <1>0, <1>2, <1>3 DEF Spots

\* The first n commands of a go away: to the end of b, if it takes them, which
\* may have dropped what it had.
LEMMA MoveSpots ==
  ASSUME NEW H, NEW X, NEW S \in [H -> Seq(X)], NEW T, DOMAIN T = H,
         NEW a \in H, NEW b \in H, a # b, NEW n \in Nat, n <= Len(S[a]),
         T[a] = SubSeq(S[a], n + 1, Len(S[a])),
         NEW B \in {S[b], <<>>}, T[b] = B \o SubSeq(S[a], 1, n),
         \A h \in H : h # a /\ h # b => T[h] = S[h] \/ T[h] = <<>>,
         NEW m
  PROVE  ExistsInjection(Spots(H, T, m), Spots(H, S, m))
<1>0. /\ S[a] \in Seq(X) /\ Len(S[a]) \in Nat /\ B \in Seq(X) /\ Len(B) \in Nat
      /\ DOMAIN S = H /\ S[b] \in Seq(X)
  <2>1. S[a] \in Seq(X) /\ S[b] \in Seq(X) /\ <<>> \in Seq(X) /\ DOMAIN S = H
    OBVIOUS
  <2>2. B \in Seq(X)
    BY <2>1
  <2> QED
    BY <2>1, <2>2
<1> DEFINE k == Len(B)
           g == [x \in Spots(H, T, m) |->
                   IF x[1] = a THEN <<a, x[2] + n>>
                   ELSE IF x[1] = b /\ x[2] > k THEN <<a, x[2] - k>> ELSE x]
<1>1. /\ \A j : j \in DOMAIN T[a] <=> j \in 1 .. Len(S[a]) - n
      /\ \A j \in 1 .. Len(S[a]) - n : T[a][j] = S[a][j + n]
  BY <1>0
<1>2. /\ \A j : j \in DOMAIN T[b] <=> j \in 1 .. k + n
      /\ \A j \in 1 .. k : T[b][j] = B[j]
      /\ \A j \in 1 .. n : T[b][k + j] = S[a][j]
  BY <1>0
<1>3. \A j \in 1 .. k : j \in DOMAIN S[b] /\ S[b][j] = B[j]
  BY <1>0
\* Where a spot comes from.
<1>4. ASSUME NEW h \in H, NEW i \in Nat, <<h, i>> \in Spots(H, T, m)
      PROVE  \/ /\ h = a /\ g[<<h, i>>] = <<a, i + n>> /\ i > 0
                /\ <<a, i + n>> \in Spots(H, S, m)
             \/ /\ h = b /\ i > k /\ g[<<h, i>>] = <<a, i - k>> /\ i - k <= n
                /\ <<a, i - k>> \in Spots(H, S, m)
             \/ /\ h # a /\ ~(h = b /\ i > k) /\ g[<<h, i>>] = <<h, i>>
                /\ <<h, i>> \in Spots(H, S, m)
  <2>0. i \in DOMAIN T[h] /\ T[h][i] = m
    BY <1>4 DEF Spots, Placed
  <2>g. g[<<h, i>>] = IF h = a THEN <<a, i + n>>
                      ELSE IF h = b /\ i > k THEN <<a, i - k>> ELSE <<h, i>>
    BY <1>4
  <2> HIDE DEF g
  <2>1. CASE h = a
    <3>1. i \in 1 .. Len(S[a]) - n /\ S[a][i + n] = m
      BY <1>1, <2>0, <2>1
    <3>2. i + n \in DOMAIN S[a] /\ i + n \in Nat /\ i > 0
      BY <1>0, <3>1
    <3>3. <<a, i + n>> \in Spots(H, S, m)
      BY <1>0, <3>1, <3>2, SpotIs
    <3> QED
      BY <2>1, <2>g, <3>2, <3>3
  <2>2. CASE h = b /\ i > k
    <3>1. i - k \in 1 .. n /\ i = k + (i - k)
      BY <1>0, <1>2, <2>0, <2>2
    <3>2. S[a][i - k] = m
      BY <1>2, <2>0, <2>2, <3>1
    <3>3. i - k \in DOMAIN S[a] /\ i - k \in Nat
      BY <1>0, <3>1
    <3>4. <<a, i - k>> \in Spots(H, S, m)
      BY <1>0, <3>2, <3>3, SpotIs
    <3> QED
      BY <2>2, <2>g, <3>1, <3>4
  <2>3. CASE h = b /\ ~(i > k)
    <3>1. i \in 1 .. k
      BY <1>0, <1>2, <2>0, <2>3
    <3>2. i \in DOMAIN S[b] /\ S[b][i] = m
      BY <1>2, <1>3, <2>0, <2>3, <3>1
    <3>3. <<h, i>> \in Spots(H, S, m)
      BY <1>0, <2>0, <2>3, <3>2, SpotIs
    <3> QED
      BY <2>3, <2>g, <3>3
  <2>4. CASE h # a /\ h # b
    <3>1. T[h] # <<>>
      BY <2>0
    <3>2. <<h, i>> \in Spots(H, S, m)
      BY <1>0, <2>0, <2>4, <3>1, SpotIs
    <3> QED
      BY <2>4, <2>g, <3>2
  <2> QED
    BY <2>1, <2>2, <2>3, <2>4
<1>5. \A x \in Spots(H, T, m) : \E h \in H, i \in Nat : x = <<h, i>>
  BY SpotIs
<1>6. g \in [Spots(H, T, m) -> Spots(H, S, m)]
  <2>1. ASSUME NEW x \in Spots(H, T, m) PROVE g[x] \in Spots(H, S, m)
    <3>1. PICK h \in H, i \in Nat : x = <<h, i>>
      BY <1>5
    <3> HIDE DEF g, k
    <3> QED
      BY <1>4, <3>1
  <2> QED
    BY <2>1
<1> HIDE DEF g
<1>7. ASSUME NEW h \in H, NEW i \in Nat, NEW l \in H, NEW j \in Nat,
             <<h, i>> \in Spots(H, T, m), <<l, j>> \in Spots(H, T, m),
             g[<<h, i>>] = g[<<l, j>>]
      PROVE  h = l /\ i = j
  <2>0. k \in Nat
    BY <1>0
  <2> HIDE DEF k
  <2> DEFINE First(u, v, w) == u = a /\ w = <<a, v + n>> /\ v > 0
             Second(u, v, w) == u = b /\ v > k /\ w = <<a, v - k>> /\ v - k <= n
             Third(u, v, w) == u # a /\ ~(u = b /\ v > k) /\ w = <<u, v>>
  <2>1. PICK x : x = g[<<h, i>>]
    OBVIOUS
  <2>2. First(h, i, x) \/ Second(h, i, x) \/ Third(h, i, x)
    BY <1>4, <1>7, <2>1
  <2>3. First(l, j, x) \/ Second(l, j, x) \/ Third(l, j, x)
    BY <1>4, <1>7, <2>1
  <2> QED
    BY <2>0, <2>2, <2>3
<1>8. ASSUME NEW x \in Spots(H, T, m), NEW y \in Spots(H, T, m), g[x] = g[y] PROVE x = y
  <2>1. PICK h \in H, i \in Nat : x = <<h, i>>
    BY <1>5
  <2>2. PICK l \in H, j \in Nat : y = <<l, j>>
    BY <1>5
  <2>3. h = l /\ i = j
    BY <1>7, <1>8, <2>1, <2>2
  <2> QED
    BY <2>1, <2>2, <2>3
<1> QED
  BY <1>6, <1>8, InjectionBy

\* The first command of a is lost.
LEMMA LoseSpots ==
  ASSUME NEW H, NEW X, NEW S \in [H -> Seq(X)], NEW T, DOMAIN T = H,
         NEW a \in H, S[a] # <<>>, T[a] = Tail(S[a]),
         \A h \in H : h # a => T[h] = S[h] \/ T[h] = <<>>, NEW m
  PROVE  ExistsInjection(Spots(H, T, m), Spots(H, S, m))
<1>0. S[a] \in Seq(X) /\ Len(S[a]) \in Nat /\ DOMAIN S = H
  OBVIOUS
<1> DEFINE g == [x \in Spots(H, T, m) |-> IF x[1] = a THEN <<a, x[2] + 1>> ELSE x]
<1>1. \A j : j \in DOMAIN T[a] => j + 1 \in DOMAIN S[a] /\ T[a][j] = S[a][j + 1]
  BY <1>0
<1>2. ASSUME NEW h \in H, NEW i \in Nat, <<h, i>> \in Spots(H, T, m)
      PROVE  /\ g[<<h, i>>] = IF h = a THEN <<a, i + 1>> ELSE <<h, i>>
             /\ g[<<h, i>>] \in Spots(H, S, m)
  <2>0. i \in DOMAIN T[h] /\ T[h][i] = m
    BY <1>2 DEF Spots, Placed
  <2>g. g[<<h, i>>] = IF h = a THEN <<a, i + 1>> ELSE <<h, i>>
    BY <1>2
  <2> HIDE DEF g
  <2>1. CASE h = a
    BY <1>0, <1>1, <2>0, <2>1, <2>g, SpotIs
  <2>2. CASE h # a
    <3>1. T[h] # <<>>
      BY <2>0
    <3> QED
      BY <1>0, <2>0, <2>2, <2>g, <3>1, SpotIs
  <2> QED
    BY <2>1, <2>2, <2>g
<1>3. \A x \in Spots(H, T, m) : \E h \in H, i \in Nat : x = <<h, i>>
  BY SpotIs
<1>4. g \in [Spots(H, T, m) -> Spots(H, S, m)]
  <2>1. ASSUME NEW x \in Spots(H, T, m) PROVE g[x] \in Spots(H, S, m)
    <3>1. PICK h \in H, i \in Nat : x = <<h, i>>
      BY <1>3
    <3> HIDE DEF g
    <3> QED
      BY <1>2, <3>1
  <2> QED
    BY <2>1
<1> HIDE DEF g
<1>5. ASSUME NEW h \in H, NEW i \in Nat, NEW l \in H, NEW j \in Nat,
             <<h, i>> \in Spots(H, T, m), <<l, j>> \in Spots(H, T, m),
             g[<<h, i>>] = g[<<l, j>>]
      PROVE  h = l /\ i = j
  <2>1. g[<<h, i>>] = IF h = a THEN <<a, i + 1>> ELSE <<h, i>>
    BY <1>2, <1>5
  <2>2. g[<<l, j>>] = IF l = a THEN <<a, j + 1>> ELSE <<l, j>>
    BY <1>2, <1>5
  <2>3. PICK x : x = g[<<h, i>>]
    OBVIOUS
  <2>4. /\ x = IF h = a THEN <<a, i + 1>> ELSE <<h, i>>
        /\ x = IF l = a THEN <<a, j + 1>> ELSE <<l, j>>
    BY <1>5, <2>1, <2>2, <2>3
  <2> QED
    BY <2>4
<1>6. ASSUME NEW x \in Spots(H, T, m), NEW y \in Spots(H, T, m), g[x] = g[y] PROVE x = y
  <2>1. PICK h \in H, i \in Nat : x = <<h, i>>
    BY <1>3
  <2>2. PICK l \in H, j \in Nat : y = <<l, j>>
    BY <1>3
  <2>3. h = l /\ i = j
    BY <1>5, <1>6, <2>1, <2>2
  <2> QED
    BY <2>1, <2>2, <2>3
<1> QED
  BY <1>4, <1>6, InjectionBy

\* The spots elsewhere than at a.
SpotsBut(H, S, m, a) == {x \in Spots(H, S, m) : x[1] # a}

\* Holders that change their names, g[h] the former one of h: what was held under
\* a name that is none any more is gone.
LEMMA RenameSpots ==
  ASSUME NEW H, NEW S, NEW T, DOMAIN S = H, DOMAIN T = H, NEW g \in [H -> H],
         \A h, k \in H : g[h] = g[k] => h = k,
         \A h \in H : T[h] = S[g[h]] \/ T[h] = <<>>,
         NEW a, \A h \in H : g[h] # a, NEW m
  PROVE  ExistsInjection(Spots(H, T, m), SpotsBut(H, S, m, a))
<1> DEFINE f == [x \in Spots(H, T, m) |-> <<g[x[1]], x[2]>>]
<1>1. ASSUME NEW x \in Spots(H, T, m)
      PROVE  f[x] \in Spots(H, S, m) /\ f[x][1] # a
  <2>0. /\ x[1] \in H /\ x[2] \in Nat /\ x[2] \in DOMAIN T[x[1]] /\ T[x[1]][x[2]] = m
    BY DEF Spots, Placed
  <2>1. T[x[1]] = S[g[x[1]]]
    BY <2>0
  <2> QED
    BY <2>0, <2>1 DEF Spots, Placed
<1>2. ASSUME NEW x \in Spots(H, T, m), NEW y \in Spots(H, T, m), f[x] = f[y] PROVE x = y
  <2>0. /\ x = <<x[1], x[2]>> /\ x[1] \in H /\ y = <<y[1], y[2]>> /\ y[1] \in H
    BY DEF Spots
  <2>1. g[x[1]] = g[y[1]] /\ x[2] = y[2]
    BY <1>2
  <2> QED
    BY <2>0, <2>1
<1>3. f \in [Spots(H, T, m) -> SpotsBut(H, S, m, a)]
  BY <1>1 DEF SpotsBut
<1> HIDE DEF f
<1> QED
  BY <1>2, <1>3, InjectionBy
-----------------------------------------------------------------------------
Streaming == {"announce"} \cup Reading

StreamsSet ==
  \A d \in Device, t \in Thread :
    /\ thread[d][t].pc \in Streaming => mInputStream[d] # None
    /\ thread[d][t].pc = "read" => thread[d][t].stream # None

ClientOK == SocketsTypeOK /\ ClientTypeOK /\ StreamsSet

LEMMA ClientInitType == SocketsInit /\ ClientInit => ClientOK
<1>1. Unused \in ConnRec
  BY DEF Unused, ConnRec
<1>2. Unborn \in ThreadRec
  BY DEF Unborn, ThreadRec, ConnRef
<1>3. ASSUME ClientInit PROVE StreamsSet
  BY <1>3 DEF ClientInit, Unborn, StreamsSet, Streaming, Reading
<1> QED
  BY <1>1, <1>2, <1>3 DEF ClientOK, SocketsInit, ClientInit, SocketsTypeOK, ClientTypeOK, ConnRef

\* A step that gives one thread a new record, and may set the input stream.
LEMMA ThreadStepType ==
  ASSUME ClientOK, NEW d \in Device, NEW t \in Thread, NEW r \in ThreadRec,
         thread' = [thread EXCEPT ![d][t] = r],
         NEW i \in ConnRef, mInputStream' = [mInputStream EXCEPT ![d] = i],
         i = mInputStream[d] \/ i # None,
         r.pc \in Streaming => i # None,
         r.pc = "read" => r.stream # None
  PROVE  thread' \in [Device -> [Thread -> ThreadRec]] /\ StreamsSet'
<1>1. thread \in [Device -> [Thread -> ThreadRec]] /\ mInputStream \in [Device -> ConnRef]
  BY DEF ClientOK, ClientTypeOK
<1>2. thread' \in [Device -> [Thread -> ThreadRec]]
  BY <1>1
<1>3. ASSUME NEW e \in Device, NEW u \in Thread
      PROVE  /\ thread'[e][u].pc \in Streaming => mInputStream'[e] # None
             /\ thread'[e][u].pc = "read" => thread'[e][u].stream # None
  <2>1. CASE e = d /\ u = t
    BY <1>1, <2>1
  <2>2. CASE ~(e = d /\ u = t)
    <3>1. thread'[e][u] = thread[e][u]
      BY <1>1, <2>2
    <3>2. mInputStream'[e] = mInputStream[e] \/ mInputStream'[e] # None
      BY <1>1
    <3> QED
      BY <3>1, <3>2 DEF ClientOK, StreamsSet
  <2> QED
    BY <2>1, <2>2
<1> QED
  BY <1>2, <1>3 DEF StreamsSet

\* The same, when the input stream field is left alone.
LEMMA ThreadOnlyType ==
  ASSUME ClientOK, NEW d \in Device, NEW t \in Thread, NEW r \in ThreadRec,
         thread' = [thread EXCEPT ![d][t] = r], UNCHANGED mInputStream,
         r.pc \in Streaming => mInputStream[d] # None,
         r.pc = "read" => r.stream # None
  PROVE  thread' \in [Device -> [Thread -> ThreadRec]] /\ StreamsSet'
<1>1. /\ mInputStream[d] \in ConnRef
      /\ mInputStream' = [mInputStream EXCEPT ![d] = mInputStream[d]]
  BY DEF ClientOK, ClientTypeOK
<1> QED
  BY <1>1, ThreadStepType

LEMMA FinishType ==
  ASSUME ClientOK, NEW d \in Device, NEW t \in Thread, Finish(d, t), UNCHANGED mInputStream
  PROVE  thread' \in [Device -> [Thread -> ThreadRec]] /\ StreamsSet'
<1> DEFINE r == [Unborn EXCEPT !.pc = "done"]
<1>0. Unborn \in ThreadRec
  BY DEF Unborn, ThreadRec, ConnRef
<1>1. r \in ThreadRec /\ r.pc = "done"
  BY <1>0 DEF ThreadRec
<1>2. r.pc \notin Streaming /\ r.pc # "read"
  BY <1>1 DEF Streaming, Reading
<1> QED
  BY <1>1, <1>2, ThreadOnlyType DEF Finish

LEMMA GotoType ==
  ASSUME ClientOK, NEW d \in Device, NEW t \in Thread,
         NEW pc \in Attempting \cup Reading, pc # "read", Goto(d, t, pc),
         pc \in Streaming => mInputStream[d] # None, UNCHANGED mInputStream
  PROVE  thread' \in [Device -> [Thread -> ThreadRec]] /\ StreamsSet'
<1> DEFINE r == [thread[d][t] EXCEPT !.pc = pc]
<1>1. thread[d][t] \in ThreadRec /\ thread \in [Device -> [Thread -> ThreadRec]]
  BY DEF ClientOK, ClientTypeOK
<1>2. r \in ThreadRec /\ r.pc = pc
  BY <1>1 DEF ThreadRec
<1>3. thread' = [thread EXCEPT ![d][t] = r]
  BY <1>1 DEF Goto
<1> QED
  BY <1>2, <1>3, ThreadOnlyType

LEMMA FailType ==
  ASSUME ClientOK, NEW d \in Device, NEW t \in Thread, Fail(d, t), UNCHANGED mInputStream
  PROVE  /\ thread' \in [Device -> [Thread -> ThreadRec]] /\ StreamsSet'
         /\ uiQueue' \in [Device -> Seq(Message)]
<1>1. <<>> \in Seq(Cmd)
  OBVIOUS
<1>2. Posted(d, "client", "fail", <<>>) \in [Device -> Seq(Message)]
  BY <1>1, PostedType DEF ClientOK, SocketsTypeOK
<1> QED
  BY <1>2, FinishType DEF Fail

LEMMA ConnectType ==
  ASSUME ClientOK, NEW d \in Device, NEW e \in Device, NEW t \in Thread,
         connect(d, e, t)
  PROVE  ClientTypeOK' /\ StreamsSet'
<1> DEFINE r == [thread[d][t] EXCEPT !.pc = "start", !.to = e]
<1>0. thread[d][t] \in ThreadRec
  BY DEF ClientOK, ClientTypeOK
<1>1. r \in ThreadRec /\ r.pc = "start"
  BY <1>0 DEF ThreadRec, Attempting
<1>2. r.pc \notin Streaming /\ r.pc # "read"
  BY <1>1 DEF Streaming, Reading
<1>3. thread' \in [Device -> [Thread -> ThreadRec]] /\ StreamsSet'
  BY <1>1, <1>2, ThreadOnlyType DEF connect
<1> QED
  BY <1>3 DEF connect, ClientOK, ClientTypeOK

LEMMA DisconnectType ==
  ASSUME ClientOK, NEW d \in Device, disconnect(d)
  PROVE  /\ ClientTypeOK' /\ StreamsSet'
         /\ conns' \in [Conn -> ConnRec]
<1>1. "cli" \in Side
  BY DEF Side
<1>2. conns' \in [Conn -> ConnRec]
  BY <1>1, ClosedType DEF disconnect, ToShut, ClientOK, SocketsTypeOK
<1>3. thread' \in [Device -> [Thread -> ThreadRec]] /\ StreamsSet'
  <2> DEFINE u == mSocketThread[d]
             r == [thread[d][u] EXCEPT !.interrupted = TRUE]
  <2>1. CASE u # 0 /\ thread[d][u].pc \in Attempting \cup Reading
    <3>1. u \in Thread /\ thread[d][u] \in ThreadRec /\ thread \in [Device -> [Thread -> ThreadRec]]
      BY <2>1 DEF ClientOK, ClientTypeOK
    <3>2. r \in ThreadRec /\ r.pc = thread[d][u].pc /\ r.stream = thread[d][u].stream
      BY <3>1 DEF ThreadRec
    <3>3. thread' = [thread EXCEPT ![d][u] = r]
      BY <2>1, <3>1 DEF disconnect, Interrupted
    <3>4. /\ r.pc \in Streaming => mInputStream[d] # None
          /\ r.pc = "read" => r.stream # None
      BY <3>1, <3>2 DEF ClientOK, StreamsSet
    <3> HIDE DEF r, u
    <3> QED
      BY <3>1, <3>2, <3>3, <3>4, ThreadOnlyType DEF disconnect
  <2>2. CASE ~(u # 0 /\ thread[d][u].pc \in Attempting \cup Reading)
    BY <2>2 DEF disconnect, Interrupted, ClientOK, ClientTypeOK, StreamsSet
  <2> QED
    BY <2>1, <2>2
<1>4. isStop' \in [Device -> BOOLEAN] /\ mSocket' \in [Device -> ConnRef]
  BY DEF disconnect, ClientOK, ClientTypeOK, ConnRef
<1> QED
  BY <1>2, <1>3, <1>4 DEF disconnect, ClientOK, ClientTypeOK

LEMMA SendType ==
  ASSUME ClientOK, NEW d \in Device, NEW m \in Cmd, sendByteCmd(d, m)
  PROVE  ClientTypeOK' /\ StreamsSet'
BY DEF sendByteCmd, ClientOK, ClientTypeOK, StreamsSet

LEMMA SenderType ==
  ASSUME ClientOK, NEW d \in Device, NEW m \in Cmd, SenderThread(d, m)
  PROVE  ClientOK'
<1>1. conns' \in [Conn -> ConnRec]
  <2>1. "cli" \in Side /\ mOutputStream[d] \in ConnRef
    BY DEF Side, ClientOK, ClientTypeOK
  <2> QED
    BY <2>1, WrittenType DEF SenderThread, ClientOK, SocketsTypeOK
<1>2. sender' \in [Device -> [Cmd -> Nat]]
  BY DEF SenderThread, ClientOK, ClientTypeOK
<1> QED
  BY <1>1, <1>2 DEF SenderThread, ClientOK, ClientTypeOK, SocketsTypeOK, StreamsSet

\* Every step of a SocketThread.
LEMMA SocketThreadType ==
  ASSUME ClientOK, NEW d \in Device, NEW t \in Thread, SocketThread(d, t)
  PROVE  ClientOK'
<1>a. SocketsTypeOK /\ ClientTypeOK /\ StreamsSet
  BY DEF ClientOK
<1>b. "cli" \in Side /\ <<>> \in Seq(Cmd)
  BY DEF Side
<1>c. thread[d][t] \in ThreadRec /\ mInputStream[d] \in ConnRef /\ mSocket[d] \in ConnRef
  BY <1>a DEF ClientTypeOK
\* All that a step leaves to show.
<1>d. ASSUME conns' \in [Conn -> ConnRec], alive' \in [Device -> BOOLEAN],
             uiQueue' \in [Device -> Seq(Message)],
             mSocket' \in [Device -> ConnRef], mOutputStream' \in [Device -> ConnRef],
             mInputStream' \in [Device -> ConnRef], isStop' \in [Device -> BOOLEAN],
             UNCHANGED <<mSocketThread, sender>>,
             thread' \in [Device -> [Thread -> ThreadRec]], StreamsSet'
      PROVE  ClientOK'
  BY <1>a, <1>d DEF ClientOK, SocketsTypeOK, ClientTypeOK
<1>1. CASE Start(d, t)
  <2>1. thread' \in [Device -> [Thread -> ThreadRec]] /\ StreamsSet'
    BY <1>1, GotoType DEF Start, Attempting, Streaming, Reading
  <2> QED
    BY <1>a, <1>d, <1>1, <2>1 DEF Start, sockVars, SocketsTypeOK, ClientTypeOK
<1>2. CASE CloseOld(d, t)
  <2>1. CASE mSocket[d] = None
    <3>1. SocketsTypeOK' /\ UNCHANGED <<thread, clientVars>>
      BY <1>a, <1>2, <2>1, CrashType DEF CloseOld, clientVars
    <3> QED
      BY <1>a, <3>1 DEF ClientOK, ClientTypeOK, StreamsSet, clientVars
  <2>2. CASE mSocket[d] # None
    <3>1. thread' \in [Device -> [Thread -> ThreadRec]] /\ StreamsSet'
      BY <1>2, <2>2, GotoType DEF CloseOld, Attempting, Streaming, Reading
    <3>2. conns' \in [Conn -> ConnRec]
      BY <1>a, <1>b, <1>2, <2>2, ClosedType DEF CloseOld, SocketsTypeOK
    <3> QED
      BY <1>a, <1>d, <1>2, <2>2, <3>1, <3>2 DEF CloseOld, SocketsTypeOK, ClientTypeOK
  <2> QED
    BY <2>1, <2>2
<1>3. CASE ForgetOld(d, t)
  <2>1. thread' \in [Device -> [Thread -> ThreadRec]] /\ StreamsSet'
    BY <1>3, GotoType DEF ForgetOld, Attempting, Streaming, Reading
  <2>2. mSocket' \in [Device -> ConnRef]
    BY <1>a, <1>3 DEF ForgetOld, ClientTypeOK, ConnRef
  <2> QED
    BY <1>a, <1>d, <1>3, <2>1, <2>2 DEF ForgetOld, sockVars, SocketsTypeOK, ClientTypeOK
<1>4. CASE Dial(d, t)
  <2>1. CASE Fail(d, t) /\ UNCHANGED <<conns, mSocket>>
    <3>1. /\ thread' \in [Device -> [Thread -> ThreadRec]] /\ StreamsSet'
          /\ uiQueue' \in [Device -> Seq(Message)]
      BY <1>4, <2>1, FailType DEF Dial
    <3> QED
      BY <1>a, <1>d, <1>4, <2>1, <3>1 DEF Dial, SocketsTypeOK, ClientTypeOK
  <2>2. ASSUME NEW c \in Conn,
               conns' = [conns EXCEPT ![c] = Established(d, thread[d][t].to)],
               mSocket' = [mSocket EXCEPT ![d] = c], Goto(d, t, "check"),
               UNCHANGED uiQueue
        PROVE  ClientOK'
    <3>1. thread[d][t].to \in Device \cup {NoDevice}
      BY <1>c DEF ThreadRec
    <3>2. Established(d, thread[d][t].to) \in ConnRec
      <4>1. Unused \in ConnRec
        BY DEF Unused, ConnRec
      <4>2. [s \in Side |-> TRUE] \in [Side -> BOOLEAN]
        OBVIOUS
      <4> QED
        BY <3>1, <4>1, <4>2 DEF Established, ConnRec
    <3>3. thread' \in [Device -> [Thread -> ThreadRec]] /\ StreamsSet'
      BY <1>4, <2>2, GotoType DEF Dial, Attempting, Streaming, Reading
    <3>4. conns' \in [Conn -> ConnRec] /\ mSocket' \in [Device -> ConnRef]
      BY <1>a, <2>2, <3>2 DEF SocketsTypeOK, ClientTypeOK, ConnRef
    <3> QED
      BY <1>a, <1>d, <1>4, <2>2, <3>3, <3>4 DEF Dial, SocketsTypeOK, ClientTypeOK
  <2> QED
    BY <1>4, <2>1, <2>2 DEF Dial
<1>5. CASE Check(d, t)
  <2>1. CASE isConnect(d)
    <3>1. thread' \in [Device -> [Thread -> ThreadRec]] /\ StreamsSet'
      BY <1>5, <2>1, GotoType DEF Check, Attempting, Streaming, Reading
    <3> QED
      BY <1>a, <1>d, <1>5, <2>1, <3>1 DEF Check, NoSocket, SocketsTypeOK, ClientTypeOK
  <2>2. CASE ~isConnect(d)
    <3>1. /\ thread' \in [Device -> [Thread -> ThreadRec]] /\ StreamsSet'
          /\ uiQueue' \in [Device -> Seq(Message)]
      BY <1>5, <2>2, FailType DEF Check, NoSocket
    <3> QED
      BY <1>a, <1>d, <1>5, <3>1 DEF Check, NoSocket, SocketsTypeOK, ClientTypeOK
  <2> QED
    BY <2>1, <2>2
<1>6. CASE GetStreams(d, t)
  <2>1. CASE mSocket[d] = None
    <3>1. SocketsTypeOK' /\ UNCHANGED clientVars
      BY <1>a, <1>6, <2>1, CrashType DEF GetStreams, clientVars
    <3> QED
      BY <1>a, <3>1 DEF ClientOK, ClientTypeOK, StreamsSet, clientVars
  <2>2. CASE mSocket[d] # None /\ ~conns[mSocket[d]].open["cli"]
    <3>1. /\ thread' \in [Device -> [Thread -> ThreadRec]] /\ StreamsSet'
          /\ uiQueue' \in [Device -> Seq(Message)]
      BY <1>6, <2>2, FailType DEF GetStreams
    <3> QED
      BY <1>a, <1>d, <1>6, <2>2, <3>1 DEF GetStreams, SocketsTypeOK, ClientTypeOK
  <2>3. CASE mSocket[d] # None /\ conns[mSocket[d]].open["cli"]
    <3> DEFINE r == [thread[d][t] EXCEPT !.pc = "announce"]
    <3>1. r \in ThreadRec /\ r.pc = "announce"
      BY <1>c DEF ThreadRec, Attempting
    <3>2. thread' = [thread EXCEPT ![d][t] = r]
      BY <1>a, <1>6, <2>3 DEF GetStreams, Goto, ClientTypeOK
    <3>3. thread' \in [Device -> [Thread -> ThreadRec]] /\ StreamsSet'
      <4> HIDE DEF r
      <4> QED
        BY <1>c, <1>6, <2>3, <3>1, <3>2, ThreadStepType DEF GetStreams
    <3> QED
      BY <1>a, <1>c, <1>d, <1>6, <2>3, <3>3 DEF GetStreams, sockVars, SocketsTypeOK, ClientTypeOK
  <2> QED
    BY <2>1, <2>2, <2>3
<1>7. CASE Announce(d, t)
  <2>1. mInputStream[d] # None
    BY <1>a, <1>7 DEF Announce, At, StreamsSet, Streaming
  <2>2. thread' \in [Device -> [Thread -> ThreadRec]] /\ StreamsSet'
    BY <1>7, <2>1, GotoType DEF Announce, Reading
  <2>3. uiQueue' \in [Device -> Seq(Message)]
    BY <1>a, <1>b, <1>7, PostedType DEF Announce, SocketsTypeOK
  <2>4. isStop' \in [Device -> BOOLEAN]
    BY <1>a, <1>7 DEF Announce, ClientTypeOK
  <2> QED
    BY <1>a, <1>d, <1>7, <2>2, <2>3, <2>4 DEF Announce, SocketsTypeOK, ClientTypeOK
<1>8. CASE Loop(d, t)
  <2>1. mInputStream[d] # None
    BY <1>a, <1>8 DEF Loop, At, StreamsSet, Streaming, Reading
  <2>2. thread' \in [Device -> [Thread -> ThreadRec]] /\ StreamsSet'
    <3> DEFINE r == [thread[d][t] EXCEPT !.pc = "read", !.stream = mInputStream[d]]
    <3>1. r \in ThreadRec /\ r.stream # None
      BY <1>c, <2>1 DEF ThreadRec, Reading
    <3>2. CASE thread' = [thread EXCEPT ![d][t] = r]
      <4> HIDE DEF r
      <4> QED
        BY <1>8, <2>1, <3>1, <3>2, ThreadOnlyType DEF Loop
    <3>3. CASE Finish(d, t)
      BY <1>8, <3>3, FinishType DEF Loop
    <3> QED
      BY <1>8, <3>2, <3>3 DEF Loop
  <2> QED
    BY <1>a, <1>d, <1>8, <2>2 DEF Loop, sockVars, SocketsTypeOK, ClientTypeOK
<1>9. CASE Read(d, t)
  <2> DEFINE c == thread[d][t].stream
  <2>1. mInputStream[d] # None /\ c \in Conn
    BY <1>a, <1>c, <1>9 DEF Read, At, StreamsSet, Streaming, Reading, ThreadRec, ConnRef
  <2>2. ASSUME NEW n \in 1 .. Len(conns[c].inbox["cli"]),
               conns' = Taken(c, "cli", n),
               thread' = [thread EXCEPT ![d][t] =
                  [@ EXCEPT !.pc = "post", !.stream = None,
                            !.chunk = Copy(conns[c].inbox["cli"], n)]],
               UNCHANGED uiQueue
        PROVE  ClientOK'
    <3> DEFINE r == [thread[d][t] EXCEPT !.pc = "post", !.stream = None,
                            !.chunk = Copy(conns[c].inbox["cli"], n)]
    <3>1. /\ conns' \in [Conn -> ConnRec]
          /\ Copy(conns[c].inbox["cli"], n) \in Seq(Cmd)
      BY <1>a, <1>b, <2>1, <2>2, TakenType DEF Copy, SocketsTypeOK
    <3>2. r \in ThreadRec /\ r.pc = "post"
      BY <1>c, <3>1 DEF ThreadRec, Reading, ConnRef
    <3>3. thread' = [thread EXCEPT ![d][t] = r]
      BY <1>a, <2>2 DEF ClientTypeOK
    <3>4. thread' \in [Device -> [Thread -> ThreadRec]] /\ StreamsSet'
      <4> HIDE DEF r, c
      <4> QED
        BY <1>9, <2>1, <3>2, <3>3, ThreadOnlyType DEF Read
    <3> QED
      BY <1>a, <1>d, <1>9, <2>2, <3>1, <3>4 DEF Read, SocketsTypeOK, ClientTypeOK
  <2>3. CASE /\ thread' = [thread EXCEPT ![d][t] = [@ EXCEPT !.pc = "loop", !.stream = None]]
             /\ UNCHANGED <<conns, uiQueue>>
    <3> DEFINE r == [thread[d][t] EXCEPT !.pc = "loop", !.stream = None]
    <3>1. r \in ThreadRec /\ r.pc = "loop"
      BY <1>c DEF ThreadRec, Reading, ConnRef
    <3>2. thread' = [thread EXCEPT ![d][t] = r]
      BY <1>a, <2>3 DEF ClientTypeOK
    <3>3. thread' \in [Device -> [Thread -> ThreadRec]] /\ StreamsSet'
      <4> HIDE DEF r, c
      <4> QED
        BY <1>9, <2>1, <3>1, <3>2, ThreadOnlyType DEF Read
    <3> QED
      BY <1>a, <1>d, <1>9, <2>3, <3>3 DEF Read, SocketsTypeOK, ClientTypeOK
  <2>4. CASE Fail(d, t) /\ UNCHANGED conns
    <3>1. /\ thread' \in [Device -> [Thread -> ThreadRec]] /\ StreamsSet'
          /\ uiQueue' \in [Device -> Seq(Message)]
      BY <1>9, <2>4, FailType DEF Read
    <3> QED
      BY <1>a, <1>d, <1>9, <2>4, <3>1 DEF Read, SocketsTypeOK, ClientTypeOK
  <2> QED
    BY <1>9, <2>2, <2>3, <2>4 DEF Read
<1>10. CASE PostData(d, t)
  <2> DEFINE r == [thread[d][t] EXCEPT !.pc = "loop", !.chunk = <<>>]
  <2>1. mInputStream[d] # None
    BY <1>a, <1>10 DEF PostData, At, StreamsSet, Streaming, Reading
  <2>2. r \in ThreadRec /\ r.pc = "loop"
    BY <1>b, <1>c DEF ThreadRec, Reading
  <2>3. thread' = [thread EXCEPT ![d][t] = r]
    BY <1>a, <1>10 DEF PostData, ClientTypeOK
  <2>4. thread' \in [Device -> [Thread -> ThreadRec]] /\ StreamsSet'
    <3> HIDE DEF r
    <3> QED
      BY <1>10, <2>1, <2>2, <2>3, ThreadOnlyType DEF PostData
  <2>5. thread[d][t].chunk \in Seq(Cmd)
    BY <1>c DEF ThreadRec
  <2>6. uiQueue' \in [Device -> Seq(Message)]
    BY <1>a, <1>10, <2>5, PostedType DEF PostData, What, SocketsTypeOK
  <2> QED
    BY <1>a, <1>d, <1>10, <2>4, <2>6 DEF PostData, SocketsTypeOK, ClientTypeOK
<1> QED
  BY <1>1, <1>2, <1>3, <1>4, <1>5, <1>6, <1>7, <1>8, <1>9, <1>10 DEF SocketThread
=============================================================================
