-------------------------- MODULE AreaConfig_proof --------------------------
(***************************************************************************)
(* The lists of libarea hold together, for every document and every heap   *)
(* that is large enough.                                                   *)
(*                                                                         *)
(* A list is a chain of blocks.  An inserted node lengthens one chain, a   *)
(* deleted one shortens it, and other chains do not notice, since no two   *)
(* meet.  While a document is read, the blocks in use are the first ones   *)
(* of the heap, so what malloc() returns is in no chain yet.  A loop over  *)
(* fields or items is a fold; what it has come to after each element is a  *)
(* function, and that is what is reasoned about.                           *)
(*                                                                         *)
(* Of a document in order more can be said: the entries of the list of     *)
(* builds ascend, and the next element continues the last of them or comes *)
(* behind it, so the area is the one that was written.                     *)
(***************************************************************************)
EXTENDS AreaConfig, FiniteSetTheorems, SequenceTheorems, WellFoundedInduction, TLAPS

\* Induction: a set with 0 and with every successor has every natural number.
LEMMA Naturally ==
  ASSUME NEW S, 0 \in S, \A n \in Nat : n \in S => n + 1 \in S
  PROVE  Nat \subseteq S
<1> DEFINE T == {1 .. n : n \in Nat \ S}
           R == StrictSubsetOrdering(Nat)
<1> SUFFICES ASSUME Nat \ S # {} PROVE FALSE
  OBVIOUS
<1>1. IsWellFoundedOn(R, FiniteSubsetsOf(Nat))
  BY FS_StrictSubsetOrderingWellFounded
<1>2. T \subseteq FiniteSubsetsOf(Nat) /\ T # {}
  <2>1. ASSUME NEW n \in Nat PROVE 1 .. n \in FiniteSubsetsOf(Nat)
    BY FS_Interval, 1 .. n \subseteq Nat, 1 \in Int, n \in Int DEF FiniteSubsetsOf
  <2> QED
    BY <2>1
<1> HIDE DEF R
<1>3. PICK x \in T : \A y \in T : <<y, x>> \notin R
  <2> HIDE DEF T
  <2> QED
    BY <1>1, <1>2, WFMin
<1>4. PICK n \in Nat \ S : x = 1 .. n
  OBVIOUS
<1>5. n # 0 /\ n - 1 \in Nat /\ n = (n - 1) + 1
  OBVIOUS
<1>6. n - 1 \notin S
  BY <1>5
<1>7. <<1 .. n - 1, 1 .. n>> \in R
  <2>1. n \in 1 .. n /\ n \notin 1 .. n - 1 /\ 1 .. n - 1 \subseteq 1 .. n /\ 1 .. n \subseteq Nat
    BY <1>5
  <2>2. (1 .. n - 1) # 1 .. n
    BY <2>1
  <2> QED
    BY <2>1, <2>2 DEF R, StrictSubsetOrdering
<1>8. 1 .. n - 1 \in T
  BY <1>5, <1>6
<1> QED
  BY <1>3, <1>4, <1>7, <1>8

\* A least element, and a greatest one of a bounded set.
LEMMA Least ==
  ASSUME NEW S \in SUBSET Nat, S # {}
  PROVE  Min(S) \in S /\ \A y \in S : Min(S) <= y
<1> DEFINE T == {n \in Nat : \A x \in S : n <= x}
<1>1. \E x \in S : \A y \in S : x <= y
  <2> SUFFICES ASSUME \A x \in S : \E y \in S : y < x PROVE FALSE
    OBVIOUS
  <2>1. 0 \in T
    OBVIOUS
  <2>2. \A n \in Nat : n \in T => n + 1 \in T
    <3> SUFFICES ASSUME NEW n \in T, NEW x \in S PROVE n + 1 <= x
      OBVIOUS
    <3>1. PICK y \in S : y < x
      OBVIOUS
    <3> QED
      BY <3>1
  <2>3. Nat \subseteq T
    <3> HIDE DEF T
    <3> QED
      BY <2>1, <2>2, Naturally
  <2>4. PICK x \in S : TRUE
    OBVIOUS
  <2>5. x + 1 \in T
    BY <2>3
  <2> QED
    BY <2>5
<1> QED
  BY <1>1 DEF Min

\* A bounded set that is not empty has a greatest element.
LEMMA Greatest ==
  ASSUME NEW S \in SUBSET Nat, S # {}, NEW b \in Nat, \A x \in S : x <= b
  PROVE  Max(S) \in S /\ \A y \in S : y <= Max(S)
<1> DEFINE T == {b - x : x \in S}
<1>1. T \in SUBSET Nat /\ T # {}
  <2>1. PICK x \in S : TRUE
    OBVIOUS
  <2>2. b - x \in T
    BY <2>1
  <2>3. \A y \in S : b - y \in Nat
    OBVIOUS
  <2> QED
    BY <2>2, <2>3
<1>2. Min(T) \in T /\ \A y \in T : Min(T) <= y
  <2> HIDE DEF T
  <2> QED
    BY <1>1, Least
<1>3. PICK x \in S : Min(T) = b - x
  BY <1>2
<1>4. ASSUME NEW y \in S PROVE y <= x
  <2>1. b - y \in T
    OBVIOUS
  <2> HIDE DEF T
  <2>2. b - x <= b - y
    BY <1>2, <1>3, <2>1
  <2>3. x \in Nat /\ y \in Nat
    OBVIOUS
  <2> QED
    BY <2>2, <2>3
<1> QED
  BY <1>4 DEF Max

\* The greatest number of an initial segment.
LEMMA LastOf ==
  ASSUME NEW n \in Nat
  PROVE  Max(1 .. n + 1) = n + 1 /\ (1 .. n + 1) \ {n + 1} = 1 .. n
<1>1. 1 .. n + 1 \in SUBSET Nat /\ n + 1 \in 1 .. n + 1 /\ \A x \in 1 .. n + 1 : x <= n + 1
  OBVIOUS
<1>2. Max(1 .. n + 1) \in 1 .. n + 1 /\ \A y \in 1 .. n + 1 : y <= Max(1 .. n + 1)
  BY <1>1, Greatest
<1>3. n + 1 <= Max(1 .. n + 1)
  BY <1>1, <1>2
<1> QED
  BY <1>2, <1>3
-----------------------------------------------------------------------------
\* A list l and the blocks s it links, one after the other.
At(l, s, i) == IF i = 0 THEN l ELSE s[i]

Chain(h, l, s) ==
  /\ s \in Seq(Block)
  /\ h[l].length = Len(s)
  /\ \A i \in 0 .. Len(s) : h[At(l, s, i)].next = IF i = Len(s) THEN NULL ELSE s[i + 1]
  /\ \A i, j \in 1 .. Len(s) : s[i] = s[j] => i = j

\* NULL is no block.
LEMMA BlockOK == 0 \notin Block /\ NULL = 0 /\ NULL \notin Block /\ Block \subseteq Nat
BY DEF Block, NULL

\* Following a chain leads from block to block.
LEMMA CurrentIs ==
  ASSUME NEW h, NEW l, NEW s, Chain(h, l, s), NEW k \in 0 .. Len(s)
  PROVE  Current(h, l, k) = At(l, s, k)
<1> DEFINE Steps(at) == at = [i \in 0 .. k |->
                 IF i = 0 THEN l
                 ELSE IF h[at[i - 1]].next = NULL THEN at[i - 1] ELSE h[at[i - 1]].next]
           f == [i \in 0 .. k |-> At(l, s, i)]
           g == CHOOSE at : Steps(at)
<1>0. Len(s) \in Nat /\ \A i \in 1 .. Len(s) : s[i] \in Block /\ s[i] # NULL
  BY BlockOK DEF Chain
<1>1. Steps(f)
  <2>1. ASSUME NEW i \in 0 .. k, i # 0
        PROVE  /\ i - 1 \in 0 .. k /\ f[i - 1] = At(l, s, i - 1)
               /\ h[At(l, s, i - 1)].next = s[i] /\ s[i] # NULL /\ At(l, s, i) = s[i]
    <3>1. i - 1 \in 0 .. k /\ i - 1 \in 0 .. Len(s) /\ i - 1 # Len(s) /\ (i - 1) + 1 = i
          /\ i \in 1 .. Len(s)
      BY <1>0, <2>1
    <3> QED
      BY <1>0, <2>1, <3>1 DEF Chain, At
  <2>2. \A i \in 0 .. k :
          At(l, s, i) = IF i = 0 THEN l
                        ELSE IF h[f[i - 1]].next = NULL THEN f[i - 1] ELSE h[f[i - 1]].next
    <3> SUFFICES ASSUME NEW i \in 0 .. k
                 PROVE  At(l, s, i) =
                          IF i = 0 THEN l
                          ELSE IF h[f[i - 1]].next = NULL THEN f[i - 1] ELSE h[f[i - 1]].next
      OBVIOUS
    <3>1. CASE i = 0
      BY <3>1 DEF At
    <3>2. CASE i # 0
      <4> HIDE DEF f
      <4>1. f[i - 1] = At(l, s, i - 1) /\ h[At(l, s, i - 1)].next = s[i] /\ s[i] # NULL
            /\ At(l, s, i) = s[i]
        BY <2>1, <3>2
      <4>2. h[f[i - 1]].next = s[i]
        BY <4>1
      <4> QED
        BY <3>2, <4>1, <4>2
    <3> QED
      BY <3>1, <3>2
  <2>3. f = [i \in 0 .. k |-> At(l, s, i)]
    OBVIOUS
  <2> HIDE DEF f
  <2> QED
    BY <2>2, <2>3
<1>2. Steps(g)
  <2> HIDE DEF Steps, f
  <2> QED
    BY <1>1
<1>3. Current(h, l, k) = g[k]
  BY DEF Current
<1> DEFINE T == {m \in Nat : m <= k => g[m] = At(l, s, m)}
<1>4. 0 \in T
  <2>1. 0 \in 0 .. k
    OBVIOUS
  <2> HIDE DEF g
  <2> QED
    BY <1>2, <2>1 DEF At
<1>5. ASSUME NEW m \in Nat, m \in T PROVE m + 1 \in T
  <2> SUFFICES ASSUME m + 1 <= k PROVE g[m + 1] = At(l, s, m + 1)
    OBVIOUS
  <2> HIDE DEF g
  <2>1. m + 1 \in 0 .. k /\ m + 1 # 0 /\ (m + 1) - 1 = m /\ m <= k
        /\ m \in 0 .. Len(s) /\ m # Len(s) /\ m + 1 \in 1 .. Len(s)
    BY <1>0
  <2>2. g[m] = At(l, s, m)
    BY <1>5, <2>1
  <2>3. h[g[m]].next = s[m + 1]
    BY <2>1, <2>2 DEF Chain
  <2>4. g[m + 1] = IF h[g[m]].next = NULL THEN g[m] ELSE h[g[m]].next
    BY <1>2, <2>1
  <2>5. g[m + 1] = s[m + 1]
    BY <1>0, <2>1, <2>3, <2>4
  <2> QED
    BY <2>1, <2>5 DEF At
<1>6. Nat \subseteq T
  <2> HIDE DEF T
  <2> QED
    BY <1>4, <1>5, Naturally
<1> HIDE DEF g
<1> QED
  BY <1>0, <1>3, <1>6

\* So linklist_get() returns them, and NULL behind the last one.
LEMMA NodesIs ==
  ASSUME NEW h, NEW l, NEW s, Chain(h, l, s)
  PROVE  Nodes(h, l) = s /\ linklist_get(h, l, h[l].length) = NULL
<1>0. Len(s) \in Nat /\ h[l].length = Len(s) /\ s = [i \in 1 .. Len(s) |-> s[i]]
  BY DEF Chain
<1>1. ASSUME NEW i \in 0 .. Len(s)
      PROVE  linklist_get(h, l, i) = IF i = Len(s) THEN NULL ELSE s[i + 1]
  <2>1. i <= h[l].length
    BY <1>0
  <2>2. Current(h, l, i) = At(l, s, i)
    BY CurrentIs
  <2> QED
    BY <2>1, <2>2 DEF linklist_get, Chain
<1>2. \A i \in 1 .. Len(s) : linklist_get(h, l, i - 1) = s[i]
  <2> SUFFICES ASSUME NEW i \in 1 .. Len(s) PROVE linklist_get(h, l, i - 1) = s[i]
    OBVIOUS
  <2>1. i - 1 \in 0 .. Len(s) /\ i - 1 # Len(s) /\ (i - 1) + 1 = i
    BY <1>0
  <2> QED
    BY <1>1, <2>1
<1>3. Nodes(h, l) = s
  BY <1>0, <1>2 DEF Nodes
<1>4. Len(s) \in 0 .. Len(s)
  BY <1>0
<1> QED
  BY <1>0, <1>1, <1>3, <1>4

\* The blocks of the heap.
Ref == Block \cup {NULL}
ListRec == [kind : {"list"}, next : Ref, length : Nat]
BuildRec == [kind : {"build"}, bytes : [1 .. 7 -> Byte], model : Ref, next : Ref]
ModelRec == [kind : {"model"}, id : Byte, cellList : Ref, next : Ref]
CellRecord == [kind : {"cell"}, bytes : [1 .. 12 -> Byte], next : Ref]
BlockRec == {Free} \cup ListRec \cup BuildRec \cup ModelRec \cup CellRecord

\* What a record is besides its links.
Alike(r, q) ==
  /\ q.kind = r.kind
  /\ r.kind = "build" => q.bytes = r.bytes /\ q.model = r.model
  /\ r.kind = "model" => q.id = r.id /\ q.cellList = r.cellList
  /\ r.kind = "cell" => q.bytes = r.bytes

\* The kind of a record says which structure it is.
LEMMA Kinds ==
  ASSUME NEW r \in BlockRec
  PROVE  /\ r.kind \in {"free", "list", "build", "model", "cell"}
         /\ r.kind = "free" <=> r = Free
         /\ r.kind = "list" <=> r \in ListRec
         /\ r.kind = "build" <=> r \in BuildRec
         /\ r.kind = "model" <=> r \in ModelRec
         /\ r.kind = "cell" <=> r \in CellRecord
BY DEF BlockRec, Free, ListRec, BuildRec, ModelRec, CellRecord

\* One field of a record is set.
LEMMA NextSet ==
  ASSUME NEW r \in BlockRec, r.kind # "free", NEW v \in Ref, NEW q, q = [r EXCEPT !.next = v]
  PROVE  q \in BlockRec /\ q.next = v /\ Alike(r, q) /\ (r.kind = "list" => q.length = r.length)
<1>1. CASE r \in ListRec
  <2>1. q \in ListRec /\ q.next = v /\ q.length = r.length /\ q.kind = "list" /\ r.kind = "list"
    BY <1>1 DEF ListRec
  <2> QED
    BY <2>1 DEF BlockRec, Alike
<1>2. CASE r \in BuildRec
  <2>1. q \in BuildRec /\ q.next = v /\ q.kind = "build" /\ r.kind = "build"
        /\ q.bytes = r.bytes /\ q.model = r.model
    BY <1>2 DEF BuildRec
  <2> QED
    BY <2>1 DEF BlockRec, Alike
<1>3. CASE r \in ModelRec
  <2>1. q \in ModelRec /\ q.next = v /\ q.kind = "model" /\ r.kind = "model"
        /\ q.id = r.id /\ q.cellList = r.cellList
    BY <1>3 DEF ModelRec
  <2> QED
    BY <2>1 DEF BlockRec, Alike
<1>4. CASE r \in CellRecord
  <2>1. q \in CellRecord /\ q.next = v /\ q.kind = "cell" /\ r.kind = "cell"
    BY <1>4 DEF CellRecord
  <2> QED
    BY <2>1 DEF BlockRec, Alike
<1> QED
  BY <1>1, <1>2, <1>3, <1>4, Kinds

\* The length of a list is set.
LEMMA LengthSet ==
  ASSUME NEW r \in ListRec, NEW n \in Nat, NEW q, q = [r EXCEPT !.length = n]
  PROVE  q \in ListRec /\ q.length = n /\ q.next = r.next /\ q.kind = "list" /\ r.kind = "list"
BY DEF ListRec

Heaps == [Block -> BlockRec]

\* h2 is h but for links: those of the blocks in N, and the length of l.
Relinked(h, h2, l, n, N) ==
  /\ h2 \in Heaps
  /\ \A b \in Block : Alike(h[b], h2[b])
  /\ \A b \in Block \ N : h2[b].next = h[b].next
  /\ \A b \in Block \ (N \cup {l}) : h2[b] = h[b]
  /\ \A b \in Block \ {l} : h[b].kind = "list" => h2[b].length = h[b].length
  /\ h2[l].length = n

\* A record is like itself.
LEMMA AlikeItself == \A r : Alike(r, r)
BY DEF Alike

\* The three assignments of linklist_insert().
Inserted(h, l, at, node, v) ==
  [h EXCEPT ![node].next = v, ![at].next = node, ![l].length = @ + 1]

InsertReady(h, l, at, node, v) ==
  /\ h \in Heaps /\ l \in Block /\ at \in Block /\ node \in Block /\ v \in Ref
  /\ node # at /\ node # l
  /\ h[l].kind = "list" /\ h[at].kind # "free" /\ h[node].kind # "free"

InsertDone(h, h2, l, at, node, v) ==
  /\ Relinked(h, h2, l, h[l].length + 1, {node, at})
  /\ h2[node].next = v /\ h2[at].next = node

\* The three assignments of linklist_insert(), one block at a time.
LEMMA InsertSets ==
  ASSUME NEW h, NEW l, NEW at, NEW node, NEW v, InsertReady(h, l, at, node, v)
  PROVE  InsertDone(h, Inserted(h, l, at, node, v), l, at, node, v)
<1> DEFINE h2 == Inserted(h, l, at, node, v)
           q == [h[node] EXCEPT !.next = v]
           p == [h[at] EXCEPT !.next = node]
           h1 == [b \in Block |-> IF b = node THEN q ELSE IF b = at THEN p ELSE h[b]]
           o == [h1[l] EXCEPT !.length = @ + 1]
<1>r. /\ h \in Heaps /\ l \in Block /\ at \in Block /\ node \in Block /\ v \in Ref
      /\ node # at /\ node # l
      /\ h[l].kind = "list" /\ h[at].kind # "free" /\ h[node].kind # "free"
  BY DEF InsertReady
<1>0. node \in Ref /\ h[node] \in BlockRec /\ h[at] \in BlockRec /\ h[l] \in BlockRec
  BY <1>r DEF Ref, Heaps
<1>1. q \in BlockRec /\ q.next = v /\ Alike(h[node], q)
      /\ (h[node].kind = "list" => q.length = h[node].length)
  BY <1>r, <1>0, NextSet
<1>2. p \in BlockRec /\ p.next = node /\ Alike(h[at], p)
      /\ (h[at].kind = "list" => p.length = h[at].length)
  BY <1>r, <1>0, NextSet
<1>3. h2 = [b \in Block |-> IF b = l THEN o ELSE h1[b]]
  BY <1>r DEF Heaps, Inserted
<1> HIDE DEF h2
<1>4. h1[l] \in BlockRec /\ h1[l].kind = "list" /\ h1[l].length = h[l].length
      /\ h1[l].next = IF at = l THEN node ELSE h[l].next
  <2>1. CASE at = l
    <3>1. h1[l] = p
      BY <1>r, <2>1
    <3> HIDE DEF h1, p
    <3> QED
      BY <1>r, <1>2, <2>1, <3>1 DEF Alike
  <2>2. CASE at # l
    <3>1. h1[l] = h[l]
      BY <1>r, <2>2
    <3> HIDE DEF h1
    <3> QED
      BY <1>r, <1>0, <2>2, <3>1
  <2> QED
    BY <1>r, <2>1, <2>2
<1>5. h1[l] \in ListRec /\ h[l] \in ListRec /\ h[l].length \in Nat
  <2> HIDE DEF h1
  <2>1. h1[l] \in ListRec /\ h[l] \in ListRec
    BY <1>r, <1>0, <1>4, Kinds
  <2> QED
    BY <1>r, <2>1 DEF ListRec
<1>6. o \in ListRec /\ o.length = h[l].length + 1 /\ o.next = h1[l].next /\ o.kind = "list"
  <2> HIDE DEF h1
  <2>1. h1[l].length + 1 \in Nat /\ h1[l].length = h[l].length
    BY <1>r, <1>4, <1>5
  <2> QED
    BY <1>r, <1>5, <2>1, LengthSet
<1>7. Alike(h[l], o) /\ o \in BlockRec
  BY <1>r, <1>6 DEF Alike, BlockRec
<1> HIDE DEF q, p, o
<1>8. \A b \in Block : h1[b] = IF b = node THEN q ELSE IF b = at THEN p ELSE h[b]
  BY <1>r
<1> HIDE DEF h1
<1>9. \A b \in Block : h2[b] = IF b = l THEN o ELSE h1[b]
  BY <1>r, <1>3
<1>10. h2 \in Heaps
  <2>1. \A b \in Block : h2[b] \in BlockRec
    BY <1>r, <1>1, <1>2, <1>7, <1>8, <1>9 DEF Heaps
  <2> QED
    BY <1>r, <1>3, <2>1 DEF Heaps
<1>11. \A b \in Block : Alike(h[b], h2[b])
  BY <1>r, <1>1, <1>2, <1>7, <1>8, <1>9, AlikeItself
<1>12. h2[node].next = v /\ h2[at].next = node
  BY <1>r, <1>1, <1>2, <1>4, <1>6, <1>8, <1>9
<1>13. \A b \in Block \ {node, at} : h2[b].next = h[b].next
  BY <1>r, <1>4, <1>6, <1>8, <1>9
<1>14. \A b \in Block \ {l} : h[b].kind = "list" => h2[b].length = h[b].length
  BY <1>r, <1>1, <1>2, <1>8, <1>9
<1>15. \A b \in Block \ {node, at, l} : h2[b] = h[b]
  BY <1>r, <1>8, <1>9
<1> QED
  BY <1>r, <1>6, <1>9, <1>10, <1>11, <1>12, <1>13, <1>14, <1>15 DEF Relinked, InsertDone, h2

\* A chain stays as long as its links do.
LEMMA SameChain ==
  ASSUME NEW h, NEW h2, NEW l, NEW s, Chain(h, l, s), h2[l].length = h[l].length,
         \A i \in 0 .. Len(s) : h2[At(l, s, i)].next = h[At(l, s, i)].next
  PROVE  Chain(h2, l, s)
BY DEF Chain

\* A block linked behind the last one of a chain lengthens it.
LEMMA ChainAppend ==
  ASSUME NEW h, NEW h2, NEW l \in Block, NEW node \in Block, NEW s, Chain(h, l, s), node # l,
         \A i \in 1 .. Len(s) : s[i] # node /\ s[i] # l,
         Relinked(h, h2, l, h[l].length + 1, {node, At(l, s, Len(s))}),
         h2[node].next = NULL, h2[At(l, s, Len(s))].next = node
  PROVE  Chain(h2, l, Append(s, node))
<1> DEFINE t == Append(s, node)
           n == Len(s)
<1>0. n \in Nat /\ s \in Seq(Block) /\ h[l].length = n
  BY DEF Chain
<1>1. /\ t \in Seq(Block) /\ Len(t) = n + 1 /\ t[n + 1] = node
      /\ \A i \in 1 .. n : t[i] = s[i] /\ s[i] \in Block
  BY <1>0
<1>2. \A i \in 0 .. n : At(l, t, i) = At(l, s, i)
  BY <1>0, <1>1 DEF At
<1>3. At(l, t, n + 1) = node
  BY <1>0, <1>1 DEF At
<1>4. \A i, j \in 1 .. n : s[i] = s[j] => i = j
  BY DEF Chain
<1> HIDE DEF t
<1>5. ASSUME NEW i \in 0 .. n, i # n PROVE h2[At(l, t, i)].next = t[i + 1]
  <2>1. i + 1 \in 1 .. n /\ n # 0 /\ n \in 1 .. n
    BY <1>0, <1>5
  <2>2. At(l, s, i) \in Block /\ At(l, s, i) # node /\ At(l, s, i) # At(l, s, n)
    <3>1. CASE i = 0
      BY <2>1, <3>1 DEF At
    <3>2. CASE i # 0
      <4>1. i \in 1 .. n
        BY <1>0, <3>2
      <4> QED
        BY <1>0, <1>1, <1>4, <1>5, <2>1, <3>2, <4>1 DEF At
    <3> QED
      BY <3>1, <3>2
  <2>3. h2[At(l, s, i)].next = h[At(l, s, i)].next
    BY <2>2 DEF Relinked
  <2>4. h[At(l, s, i)].next = s[i + 1]
    BY <1>5 DEF Chain
  <2> QED
    BY <1>1, <1>2, <2>1, <2>3, <2>4
<1>6. \A i \in 0 .. n + 1 : h2[At(l, t, i)].next = IF i = n + 1 THEN NULL ELSE t[i + 1]
  <2> SUFFICES ASSUME NEW i \in 0 .. n + 1
               PROVE  h2[At(l, t, i)].next = IF i = n + 1 THEN NULL ELSE t[i + 1]
    OBVIOUS
  <2>1. CASE i = n + 1
    BY <1>3, <2>1
  <2>2. CASE i = n
    <3>1. n \in 0 .. n /\ n # n + 1
      BY <1>0
    <3> QED
      BY <1>1, <1>2, <2>2, <3>1
  <2>3. CASE i # n + 1 /\ i # n
    <3>1. i \in 0 .. n
      BY <1>0, <2>3
    <3> QED
      BY <1>5, <2>3, <3>1
  <2> QED
    BY <2>1, <2>2, <2>3
<1>7. \A i, j \in 1 .. n + 1 : t[i] = t[j] => i = j
  <2> SUFFICES ASSUME NEW i \in 1 .. n + 1, NEW j \in 1 .. n + 1, t[i] = t[j] PROVE i = j
    OBVIOUS
  <2>1. (i \in 1 .. n \/ i = n + 1) /\ (j \in 1 .. n \/ j = n + 1)
    BY <1>0
  <2> QED
    BY <1>1, <1>4, <2>1
<1>8. h2[l].length = n + 1
  BY <1>0 DEF Relinked
<1> QED
  BY <1>1, <1>6, <1>7, <1>8 DEF Chain, t

\* A list that points to the second block of its chain has the rest of it.
LEMMA ChainTail ==
  ASSUME NEW h, NEW h2, NEW l, NEW s, Chain(h, l, s), s # <<>>,
         h2[l].length = h[l].length - 1, h2[l].next = h[s[1]].next,
         \A i \in 2 .. Len(s) : h2[s[i]].next = h[s[i]].next
  PROVE  Chain(h2, l, Tail(s))
<1> DEFINE t == Tail(s)
           n == Len(s)
<1>0. n \in Nat /\ n > 0 /\ s \in Seq(Block) /\ h[l].length = n
  BY DEF Chain
<1>1. t \in Seq(Block) /\ Len(t) = n - 1 /\ \A i \in 1 .. n - 1 : t[i] = s[i + 1]
  BY <1>0
<1> HIDE DEF t
<1>2. \A i \in 0 .. n - 1 : h2[At(l, t, i)].next = IF i = n - 1 THEN NULL ELSE t[i + 1]
  <2> SUFFICES ASSUME NEW i \in 0 .. n - 1
               PROVE  h2[At(l, t, i)].next = IF i = n - 1 THEN NULL ELSE t[i + 1]
    OBVIOUS
  <2>1. i + 1 \in 0 .. n /\ i + 1 # 0 /\ (i + 1 = n <=> i = n - 1)
    BY <1>0
  <2>2. h[s[i + 1]].next = IF i = n - 1 THEN NULL ELSE s[(i + 1) + 1]
    BY <2>1 DEF Chain, At
  <2>3. h2[At(l, t, i)].next = h[s[i + 1]].next
    <3>1. CASE i = 0
      BY <3>1 DEF At
    <3>2. CASE i # 0
      <4>1. i \in 1 .. n - 1 /\ i + 1 \in 2 .. n
        BY <1>0, <3>2
      <4> QED
        BY <1>1, <3>2, <4>1 DEF At
    <3> QED
      BY <3>1, <3>2
  <2>4. i # n - 1 => i + 1 \in 1 .. n - 1
    BY <1>0
  <2> QED
    BY <1>1, <2>2, <2>3, <2>4
<1>3. \A i, j \in 1 .. n - 1 : t[i] = t[j] => i = j
  <2> SUFFICES ASSUME NEW i \in 1 .. n - 1, NEW j \in 1 .. n - 1, t[i] = t[j] PROVE i = j
    OBVIOUS
  <2>1. i + 1 \in 1 .. n /\ j + 1 \in 1 .. n
    BY <1>0
  <2>2. i + 1 = j + 1
    BY <1>1, <2>1 DEF Chain
  <2> QED
    BY <2>2
<1> QED
  BY <1>0, <1>1, <1>2, <1>3 DEF Chain, t
-----------------------------------------------------------------------------
Lists(h) == {b \in Block : h[b].kind = "list"}

\* The blocks of a list.
Linked(h, l) == {Nodes(h, l)[i] : i \in 1 .. Len(Nodes(h, l))}

\* What a list is a list of: 1 is the list of builds, 2 that of models.
KindOf(l) == IF l = 1 THEN "build" ELSE IF l = 2 THEN "model" ELSE "cell"

ListOK(h, l) == Chain(h, l, Nodes(h, l)) /\ \A x \in Linked(h, l) : h[x].kind = KindOf(l)

Isolated(h, x) == \A l \in Lists(h) : x \notin Linked(h, l)

HeapOK(h) ==
  /\ h \in Heaps
  /\ \A l \in Lists(h) : ListOK(h, l)
  /\ \A l, k \in Lists(h) : l # k => Linked(h, l) \cap Linked(h, k) = {}
  /\ \A m \in Block : h[m].kind = "model" => h[m].cellList \in Lists(h) \ {1, 2}
  /\ \A m, n \in Block :
       h[m].kind = "model" /\ h[n].kind = "model" /\ h[m].cellList = h[n].cellList => m = n

\* What a list links are blocks.
LEMMA LinkedBlocks ==
  ASSUME NEW h, NEW l, ListOK(h, l)
  PROVE  Linked(h, l) \subseteq Block
BY DEF ListOK, Linked, Chain

\* A list whose links and kinds are those of h.
LEMMA SameList ==
  ASSUME NEW h, NEW h2, NEW l, ListOK(h, l),
         h2[l].length = h[l].length, h2[l].next = h[l].next,
         \A x \in Linked(h, l) : h2[x].next = h[x].next /\ h2[x].kind = h[x].kind
  PROVE  ListOK(h2, l) /\ Nodes(h2, l) = Nodes(h, l) /\ Linked(h2, l) = Linked(h, l)
<1> DEFINE s == Nodes(h, l)
<1>1. Chain(h, l, s)
  BY DEF ListOK
<1>2. \A i \in 0 .. Len(s) : h2[At(l, s, i)].next = h[At(l, s, i)].next
  <2> SUFFICES ASSUME NEW i \in 0 .. Len(s)
               PROVE  h2[At(l, s, i)].next = h[At(l, s, i)].next
    OBVIOUS
  <2>1. CASE i = 0
    BY <2>1 DEF At
  <2>2. CASE i # 0
    <3>1. i \in 1 .. Len(s) /\ s[i] \in Linked(h, l)
      BY <1>1, <2>2 DEF Chain, Linked
    <3> QED
      BY <2>2, <3>1 DEF At
  <2> QED
    BY <2>1, <2>2
<1> HIDE DEF s
<1>3. Chain(h2, l, s)
  BY <1>1, <1>2, SameChain
<1>4. Nodes(h2, l) = s
  BY <1>3, NodesIs
<1> QED
  BY <1>3, <1>4 DEF s, ListOK, Linked

\* All lists but those of L, and all models, are in h2 what they are in h.
LEMMA StaysOK ==
  ASSUME NEW h, HeapOK(h), NEW h2 \in Heaps, Lists(h2) = Lists(h),
         NEW l \in Lists(h),
         \A b \in Block : h[b].kind = "model" \/ h2[b].kind = "model" => Alike(h[b], h2[b]),
         ListOK(h2, l),
         \A k \in Lists(h) \ {l} :
           ListOK(h2, k) /\ Linked(h2, k) = Linked(h, k) /\ Linked(h2, l) \cap Linked(h, k) = {}
  PROVE  HeapOK(h2)
<1>1. \A k \in Lists(h2) : ListOK(h2, k)
  OBVIOUS
<1>2. \A i, k \in Lists(h2) : i # k => Linked(h2, i) \cap Linked(h2, k) = {}
  <2> SUFFICES ASSUME NEW i \in Lists(h), NEW k \in Lists(h), i # k
               PROVE  Linked(h2, i) \cap Linked(h2, k) = {}
    OBVIOUS
  <2>1. Linked(h, i) \cap Linked(h, k) = {}
    BY DEF HeapOK
  <2> QED
    BY <2>1
<1>3. \A m \in Block : h2[m].kind = "model" =>
        /\ h[m].kind = "model" /\ h2[m].cellList = h[m].cellList
        /\ h2[m].cellList \in Lists(h2) \ {1, 2}
  <2> SUFFICES ASSUME NEW m \in Block, h2[m].kind = "model"
               PROVE  /\ h[m].kind = "model" /\ h2[m].cellList = h[m].cellList
                      /\ h2[m].cellList \in Lists(h2) \ {1, 2}
    OBVIOUS
  <2>1. Alike(h[m], h2[m])
    OBVIOUS
  <2>2. h[m].kind = "model" /\ h2[m].cellList = h[m].cellList
    BY <2>1 DEF Alike
  <2> QED
    BY <2>2 DEF HeapOK
<1>4. \A m, n \in Block :
        h2[m].kind = "model" /\ h2[n].kind = "model" /\ h2[m].cellList = h2[n].cellList => m = n
  BY <1>3 DEF HeapOK
<1> QED
  BY <1>1, <1>2, <1>3, <1>4 DEF HeapOK

\* linklist_insert() at the end, of a node of no list.
LEMMA InsertOK ==
  ASSUME NEW h, HeapOK(h), NEW l \in Lists(h), NEW node \in Block,
         h[node].kind = KindOf(l), Isolated(h, node), NEW h2, h2 = InsertLast(h, l, node)
  PROVE  /\ HeapOK(h2) /\ Lists(h2) = Lists(h)
         /\ Nodes(h2, l) = Append(Nodes(h, l), node)
         /\ Linked(h2, l) = Linked(h, l) \cup {node}
         /\ \A k \in Lists(h) \ {l} : Nodes(h2, k) = Nodes(h, k) /\ Linked(h2, k) = Linked(h, k)
         /\ \A b \in Block : Alike(h[b], h2[b])
<1> DEFINE s == Nodes(h, l)
           n == Len(s)
           at == At(l, s, n)
<1>1. /\ Chain(h, l, s) /\ \A x \in Linked(h, l) : h[x].kind = KindOf(l) /\ x \in Block
      /\ l \in Block /\ h[l].kind = "list" /\ h \in Heaps
  BY LinkedBlocks DEF HeapOK, ListOK, Lists
<1>2. n \in Nat /\ h[l].length = n /\ s \in Seq(Block)
  BY <1>1 DEF Chain
<1>3. KindOf(l) \notin {"list", "free"}
  BY DEF KindOf
<1>4. \A i \in 1 .. n : s[i] \in Linked(h, l) /\ s[i] # node /\ s[i] # l
  <2> SUFFICES ASSUME NEW i \in 1 .. n PROVE s[i] \in Linked(h, l) /\ s[i] # node /\ s[i] # l
    OBVIOUS
  <2>1. s[i] \in Linked(h, l)
    BY DEF Linked
  <2> HIDE DEF s
  <2> QED
    BY <1>1, <1>3, <2>1 DEF Isolated
<1>5. node # l
  BY <1>1, <1>3
<1>6. at \in Linked(h, l) \cup {l} /\ at # node
  <2>1. CASE n = 0
    BY <1>5, <2>1 DEF At
  <2>2. CASE n # 0
    <3>1. n \in 1 .. n
      BY <1>2, <2>2
    <3> QED
      BY <1>4, <2>2, <3>1 DEF At
  <2> QED
    BY <2>1, <2>2
<1>7. at \in Block /\ h[at].kind # "free"
  BY <1>1, <1>3, <1>6
<1>8. h[at].next = NULL
  BY <1>1, <1>2 DEF Chain
<1>9. Current(h, l, n) = at
  BY <1>1, <1>2, CurrentIs
<1>10. h2 = [h EXCEPT ![node].next = h[at].next, ![at].next = node, ![l].length = @ + 1]
  BY <1>2, <1>9 DEF InsertLast, linklist_insert, linklist_length
<1> HIDE DEF at, n, s
<1>11. NULL \in Ref
  BY DEF Ref
<1>12. /\ Relinked(h, h2, l, h[l].length + 1, {node, at})
       /\ h2[node].next = NULL /\ h2[at].next = node
  <2> DEFINE v == h[at].next
  <2>1. v \in Ref /\ v = NULL
    BY <1>8, <1>11
  <2>2. h[node].kind # "free"
    BY <1>3
  <2>3. h2 = Inserted(h, l, at, node, v)
    BY <1>10 DEF Inserted
  <2> HIDE DEF v
  <2>4. node # l /\ node # at /\ h \in Heaps /\ l \in Block /\ at \in Block
        /\ h[l].kind = "list" /\ h[at].kind # "free"
    BY <1>1, <1>5, <1>6, <1>7
  <2> HIDE DEF at
  <2>5. InsertReady(h, l, at, node, v)
    BY <2>1, <2>2, <2>4 DEF InsertReady
  <2>6. /\ Relinked(h, h2, l, h[l].length + 1, {node, at})
        /\ h2[node].next = v /\ h2[at].next = node
    <3>1. InsertDone(h, Inserted(h, l, at, node, v), l, at, node, v)
      BY <2>5, InsertSets
    <3> QED
      BY <2>3, <3>1 DEF InsertDone
  <2> QED
    BY <2>1, <2>6
<1>13. Chain(h2, l, Append(s, node))
  BY <1>1, <1>4, <1>5, <1>12, ChainAppend DEF at, n
<1>14. Nodes(h2, l) = Append(s, node)
  BY <1>13, NodesIs
<1>15. Linked(h2, l) = Linked(h, l) \cup {node}
  <2>1. Len(Append(s, node)) = n + 1 /\ 1 .. n + 1 = (1 .. n) \cup {n + 1}
        /\ \A i \in 1 .. n : Append(s, node)[i] = s[i]
        /\ Append(s, node)[n + 1] = node
    BY <1>2 DEF n
  <2>2. Linked(h2, l) = {Append(s, node)[i] : i \in 1 .. n + 1}
    BY <1>14, <2>1 DEF Linked
  <2>3. Linked(h, l) = {s[i] : i \in 1 .. n}
    BY DEF Linked, s, n
  <2> QED
    BY <2>1, <2>2, <2>3
<1>16. \A b \in Block : Alike(h[b], h2[b]) /\ h2[b].kind = h[b].kind
  BY <1>12 DEF Relinked, Alike
<1>17. ListOK(h2, l)
  BY <1>1, <1>13, <1>14, <1>15, <1>16 DEF ListOK
<1>18. Lists(h2) = Lists(h)
  BY <1>16 DEF Lists
<1>19. ASSUME NEW k \in Lists(h) \ {l}
       PROVE  ListOK(h2, k) /\ Nodes(h2, k) = Nodes(h, k) /\ Linked(h2, k) = Linked(h, k)
              /\ Linked(h2, l) \cap Linked(h, k) = {}
  <2>1. ListOK(h, k) /\ Linked(h, l) \cap Linked(h, k) = {} /\ Linked(h, k) \subseteq Block
        /\ node \notin Linked(h, k)
    BY LinkedBlocks DEF HeapOK, Isolated
  <2>2. KindOf(k) # "list" /\ h[k].kind = "list" /\ k \in Block
    BY DEF KindOf, Lists
  <2>3. k # node /\ k # at /\ l \notin Linked(h, k)
    BY <1>1, <1>3, <1>6, <2>1, <2>2 DEF ListOK
  <2>4. \A x \in Linked(h, k) \cup {k} : x \in Block /\ x \notin {node, at}
    BY <1>6, <2>1, <2>2, <2>3
  <2>5. \A x \in Linked(h, k) \cup {k} : h2[x].next = h[x].next /\ h2[x].kind = h[x].kind
    BY <1>12, <1>16, <2>4 DEF Relinked
  <2>6. h2[k].length = h[k].length
    BY <1>12, <2>2 DEF Relinked
  <2>7. ListOK(h2, k) /\ Nodes(h2, k) = Nodes(h, k) /\ Linked(h2, k) = Linked(h, k)
    BY <2>1, <2>5, <2>6, SameList
  <2> QED
    BY <1>15, <2>1, <2>7
<1>20. h2 \in Heaps
  BY <1>12 DEF Relinked
<1>21. HeapOK(h2)
  BY <1>16, <1>17, <1>18, <1>19, <1>20, StaysOK
<1> QED
  BY <1>14, <1>15, <1>16, <1>18, <1>19, <1>21 DEF s

\* linklist_deleate() of the first node.
LEMMA RemoveOK ==
  ASSUME NEW h, HeapOK(h), NEW l \in Lists(h), linklist_length(h, l) > 0,
         NEW h2, h2 = linklist_deleate(h, l, 0)
  PROVE  /\ HeapOK(h2) /\ Lists(h2) = Lists(h)
         /\ Nodes(h, l) # <<>> /\ linklist_get(h, l, 0) = Nodes(h, l)[1]
         /\ Nodes(h2, l) = Tail(Nodes(h, l))
         /\ Linked(h2, l) = Linked(h, l) \ {Nodes(h, l)[1]}
         /\ \A k \in Lists(h) \ {l} : Nodes(h2, k) = Nodes(h, k) /\ Linked(h2, k) = Linked(h, k)
         /\ \A b \in Block : Alike(h[b], h2[b])
         /\ Isolated(h2, Nodes(h, l)[1])
         /\ \A b \in Block \ {l} : h2[b] = h[b]
<1> DEFINE s == Nodes(h, l)
           n == Len(s)
           x == s[1]
           r == [h[l] EXCEPT !.next = h[x].next]
           q == [r EXCEPT !.length = @ - 1]
<1>1. /\ Chain(h, l, s) /\ \A b \in Linked(h, l) : h[b].kind = KindOf(l) /\ b \in Block
      /\ l \in Block /\ h[l].kind = "list" /\ h \in Heaps
  BY LinkedBlocks DEF HeapOK, ListOK, Lists
<1>2. n \in Nat /\ h[l].length = n /\ s \in Seq(Block) /\ n > 0 /\ s # <<>>
  BY <1>1 DEF Chain, linklist_length
<1>3. KindOf(l) \notin {"list", "free"}
  BY DEF KindOf
<1>4. \A i \in 1 .. n : s[i] \in Linked(h, l) /\ s[i] # l
  <2> SUFFICES ASSUME NEW i \in 1 .. n PROVE s[i] \in Linked(h, l) /\ s[i] # l
    OBVIOUS
  <2>1. s[i] \in Linked(h, l)
    BY DEF Linked
  <2> HIDE DEF s
  <2> QED
    BY <1>1, <1>3, <2>1
<1>5. 1 \in 1 .. n /\ 0 \in 0 .. n /\ 0 # n
  BY <1>2
<1>6. x \in Block /\ x \in Linked(h, l) /\ x # l /\ h[x].kind = KindOf(l)
  BY <1>1, <1>4, <1>5
<1>7. Current(h, l, 0) = l /\ h[l].next = x
  <2>1. Current(h, l, 0) = At(l, s, 0)
    BY <1>1, <1>5, CurrentIs
  <2>2. h[At(l, s, 0)].next = s[0 + 1]
    BY <1>1, <1>5 DEF Chain
  <2> QED
    BY <2>1, <2>2 DEF At
<1>8. linklist_get(h, l, 0) = x
  BY <1>2, <1>7 DEF linklist_get
<1>9. h2 = [h EXCEPT ![l] = q]
  <2>1. h2 = [h EXCEPT ![l].next = h[x].next, ![l].length = @ - 1]
    BY <1>7 DEF linklist_deleate
  <2>2. [h EXCEPT ![l].next = h[x].next, ![l].length = @ - 1] = [h EXCEPT ![l] = q]
    BY <1>1 DEF Heaps
  <2> QED
    BY <2>1, <2>2
<1>10. q \in ListRec /\ q.length = n - 1 /\ q.next = h[x].next /\ q.kind = "list"
  <2> HIDE DEF x, s
  <2>1. h[l] \in ListRec /\ h[x] \in BlockRec /\ h[x].kind # "free"
    BY <1>1, <1>3, <1>6, Kinds DEF Heaps
  <2>2. h[x].next \in Ref
    BY <2>1 DEF BlockRec, Free, ListRec, BuildRec, ModelRec, CellRecord
  <2>3. r \in ListRec /\ r.next = h[x].next /\ r.length = n
    BY <1>2, <2>1, <2>2 DEF ListRec
  <2>4. r.length - 1 \in Nat
    BY <1>2, <2>3
  <2> HIDE DEF r
  <2> QED
    BY <2>3, <2>4, LengthSet
<1> HIDE DEF q
<1>11. h2 \in Heaps /\ h2[l] = q /\ \A b \in Block \ {l} : h2[b] = h[b]
  <2>1. q \in BlockRec
    BY <1>10 DEF BlockRec
  <2> QED
    BY <1>1, <1>9, <2>1 DEF Heaps
<1>12. \A b \in Block : Alike(h[b], h2[b]) /\ h2[b].kind = h[b].kind
  <2>1. Alike(h[l], q)
    BY <1>1, <1>10 DEF Alike
  <2> QED
    BY <1>11, <2>1, AlikeItself DEF Alike
<1> HIDE DEF s, n
<1>13. Chain(h2, l, Tail(s))
  <2>1. \A i \in 2 .. Len(s) : h2[s[i]].next = h[s[i]].next
    <3> SUFFICES ASSUME NEW i \in 2 .. Len(s) PROVE h2[s[i]].next = h[s[i]].next
      OBVIOUS
    <3>1. i \in 1 .. n /\ s[i] \in Block
      BY <1>2 DEF n
    <3> QED
      BY <1>4, <1>11, <3>1
  <2>2. h2[l].length = h[l].length - 1 /\ h2[l].next = h[s[1]].next
    BY <1>2, <1>10, <1>11
  <2> QED
    BY <1>1, <1>2, <2>1, <2>2, ChainTail
<1>14. Nodes(h2, l) = Tail(s)
  BY <1>13, NodesIs
<1>15. Linked(h2, l) = Linked(h, l) \ {x}
  <2>1. Len(Tail(s)) = n - 1 /\ \A i \in 1 .. n - 1 : Tail(s)[i] = s[i + 1]
    BY <1>2 DEF n
  <2>2. Linked(h2, l) = {Tail(s)[i] : i \in 1 .. n - 1}
    BY <1>14, <2>1 DEF Linked
  <2>3. Linked(h, l) = {s[i] : i \in 1 .. n}
    BY DEF Linked, s, n
  <2>4. \A i, j \in 1 .. n : s[i] = s[j] => i = j
    BY <1>1 DEF Chain, n
  <2>5. \A y : y \in Linked(h2, l) <=> \E i \in 1 .. n - 1 : y = s[i + 1]
    BY <2>1, <2>2
  <2>6. ASSUME NEW y \in Linked(h2, l) PROVE y \in Linked(h, l) /\ y # x
    <3>1. PICK i \in 1 .. n - 1 : y = s[i + 1]
      BY <2>5, <2>6
    <3>2. i + 1 \in 1 .. n /\ i + 1 # 1
      BY <1>2
    <3> QED
      BY <1>5, <2>3, <2>4, <3>1, <3>2
  <2>7. ASSUME NEW y \in Linked(h, l), y # x PROVE y \in Linked(h2, l)
    <3>1. PICK i \in 1 .. n : y = s[i]
      BY <2>3
    <3>2. i # 1
      BY <2>7, <3>1
    <3>3. i - 1 \in 1 .. n - 1 /\ (i - 1) + 1 = i
      BY <1>2, <3>2
    <3> QED
      BY <2>5, <3>1, <3>3
  <2> QED
    BY <2>6, <2>7
<1>16. ListOK(h2, l)
  BY <1>1, <1>12, <1>13, <1>14, <1>15 DEF ListOK
<1>17. Lists(h2) = Lists(h)
  BY <1>12 DEF Lists
<1>18. ASSUME NEW k \in Lists(h) \ {l}
       PROVE  ListOK(h2, k) /\ Nodes(h2, k) = Nodes(h, k) /\ Linked(h2, k) = Linked(h, k)
              /\ Linked(h2, l) \cap Linked(h, k) = {} /\ x \notin Linked(h, k)
  <2>1. ListOK(h, k) /\ Linked(h, l) \cap Linked(h, k) = {} /\ Linked(h, k) \subseteq Block
    BY LinkedBlocks DEF HeapOK
  <2>2. KindOf(k) # "list" /\ h[k].kind = "list" /\ k \in Block
    BY DEF KindOf, Lists
  <2>3. l \notin Linked(h, k)
    BY <1>1, <2>1, <2>2 DEF ListOK
  <2>4. \A b \in Linked(h, k) \cup {k} : b \in Block \ {l}
    BY <2>1, <2>2, <2>3
  <2>5. \A b \in Linked(h, k) \cup {k} : h2[b] = h[b]
    BY <1>11, <2>4
  <2>6. ListOK(h2, k) /\ Nodes(h2, k) = Nodes(h, k) /\ Linked(h2, k) = Linked(h, k)
    BY <2>1, <2>5, SameList
  <2> QED
    BY <1>6, <1>15, <2>1, <2>6
<1>19. HeapOK(h2)
  BY <1>11, <1>12, <1>16, <1>17, <1>18, StaysOK
<1>20. Isolated(h2, x)
  BY <1>15, <1>17, <1>18 DEF Isolated
<1> QED
  BY <1>2, <1>8, <1>11, <1>12, <1>14, <1>15, <1>17, <1>18, <1>19, <1>20 DEF s

\* One step of the two folds: of a field (l = 0), or of an item for the list l.
Step(l, x, v) == IF l = 0 THEN Put(x, v) ELSE AddCell(x, l, v)

Folds(g, l, base, seq, D) ==
  g = [s \in D |-> IF s = {} THEN base ELSE Step(l, g[s \ {Max(s)}], seq[Max(s)])]

\* What a fold has come to after none, one, two, ... elements.
FoldsTo(c, l, base, seq) ==
  /\ c[0] = base
  /\ \A i \in 0 .. Len(seq) - 1 : c[i + 1] = Step(l, c[i], seq[i + 1])

\* An initial segment without its last number.
LEMMA OneLess ==
  ASSUME NEW n \in Nat, NEW s \in SUBSET (1 .. n + 1), s # {}
  PROVE  s \ {Max(s)} \subseteq 1 .. n /\ Max(s) \in s
<1>1. s \in SUBSET Nat /\ n + 1 \in Nat /\ \A x \in s : x <= n + 1
  OBVIOUS
<1>2. Max(s) \in s /\ \A y \in s : y <= Max(s)
  BY <1>1, Greatest
<1>3. ASSUME NEW y \in s, y # Max(s) PROVE y \in 1 .. n
  <2>1. y \in 1 .. n + 1 /\ Max(s) \in 1 .. n + 1 /\ y <= Max(s)
    BY <1>2
  <2> QED
    BY <1>3, <2>1
<1> QED
  BY <1>2, <1>3

\* FoldLeft is MapThenFoldSet, which folds over sets of positions: the function that
\* does so exists, whatever is folded.
LEMMA FoldsExists ==
  ASSUME NEW l, NEW base, NEW seq, NEW m \in Nat
  PROVE  \E g : Folds(g, l, base, seq, SUBSET (1 .. m))
<1> DEFINE T == {n \in Nat : \E g : Folds(g, l, base, seq, SUBSET (1 .. n))}
<1>1. 0 \in T
  <2>1. \A s \in SUBSET (1 .. 0) : s = {}
    OBVIOUS
  <2>2. Folds([s \in SUBSET (1 .. 0) |-> base], l, base, seq, SUBSET (1 .. 0))
    BY <2>1 DEF Folds
  <2> QED
    BY <2>2
<1>2. ASSUME NEW n \in Nat, n \in T PROVE n + 1 \in T
  <2> DEFINE D == SUBSET (1 .. n)
             E == SUBSET (1 .. n + 1)
  <2>1. PICK g : Folds(g, l, base, seq, D)
    BY <1>2
  <2> DEFINE h == [s \in E |->
                     IF s = {} THEN base ELSE Step(l, g[s \ {Max(s)}], seq[Max(s)])]
  <2>2. D \subseteq E
    OBVIOUS
  <2>3. \A s \in D : h[s] = g[s]
    BY <2>1, <2>2 DEF Folds
  <2>4. \A s \in E : s # {} => s \ {Max(s)} \in D
    BY OneLess
  <2>5. h = [s \in E |-> IF s = {} THEN base ELSE Step(l, h[s \ {Max(s)}], seq[Max(s)])]
    <3> DEFINE k == [s \in E |->
                       IF s = {} THEN base ELSE Step(l, h[s \ {Max(s)}], seq[Max(s)])]
    <3>1. \A s \in E :
            h[s] = IF s = {} THEN base ELSE Step(l, g[s \ {Max(s)}], seq[Max(s)])
      OBVIOUS
    <3>2. DOMAIN h = E /\ h = [s \in DOMAIN h |-> h[s]]
      OBVIOUS
    <3> HIDE DEF h, D
    <3>3. \A s \in E : h[s] = k[s]
      <4> SUFFICES ASSUME NEW s \in E PROVE h[s] = k[s]
        OBVIOUS
      <4>1. CASE s = {}
        BY <3>1, <4>1
      <4>2. CASE s # {}
        <5>1. g[s \ {Max(s)}] = h[s \ {Max(s)}]
          BY <2>3, <2>4, <4>2
        <5>2. h[s] = Step(l, g[s \ {Max(s)}], seq[Max(s)])
          BY <3>1, <4>2
        <5>3. k[s] = Step(l, h[s \ {Max(s)}], seq[Max(s)])
          BY <4>2
        <5> QED
          BY <5>1, <5>2, <5>3
      <4> QED
        BY <4>1, <4>2
    <3> QED
      BY <3>2, <3>3
  <2> HIDE DEF h
  <2>6. Folds(h, l, base, seq, E)
    BY <2>5 DEF Folds
  <2> QED
    BY <2>6
<1>3. Nat \subseteq T
  <2> HIDE DEF T
  <2> QED
    BY <1>1, <1>2, Naturally
<1> QED
  BY <1>3

\* The values of such a function on the initial segments.
LEMMA FoldsToLast ==
  ASSUME NEW l, NEW base, NEW seq, NEW g, Len(seq) \in Nat, DOMAIN seq = 1 .. Len(seq),
         Folds(g, l, base, seq, SUBSET DOMAIN seq)
  PROVE  FoldsTo([i \in 0 .. Len(seq) |-> g[1 .. i]], l, base, seq)
<1> DEFINE n == Len(seq)
           c == [i \in 0 .. n |-> g[1 .. i]]
<1>1. \A s \in SUBSET (1 .. n) :
        g[s] = IF s = {} THEN base ELSE Step(l, g[s \ {Max(s)}], seq[Max(s)])
  BY DEF Folds
<1>2. c[0] = base
  <2>1. 1 .. 0 = {} /\ c[0] = g[1 .. 0] /\ {} \in SUBSET (1 .. n)
    OBVIOUS
  <2> QED
    BY <1>1, <2>1
<1>3. ASSUME NEW i \in 0 .. n - 1 PROVE c[i + 1] = Step(l, c[i], seq[i + 1])
  <2>1. i \in 0 .. n /\ i + 1 \in 0 .. n /\ i \in Nat /\ i + 1 \in 1 .. i + 1
        /\ 1 .. i + 1 \in SUBSET (1 .. n)
    OBVIOUS
  <2>2. c[i + 1] = g[1 .. i + 1] /\ c[i] = g[1 .. i]
    BY <2>1
  <2>3. Max(1 .. i + 1) = i + 1 /\ (1 .. i + 1) \ {i + 1} = 1 .. i
    BY <2>1, LastOf
  <2>4. g[1 .. i + 1] = Step(l, g[(1 .. i + 1) \ {Max(1 .. i + 1)}], seq[Max(1 .. i + 1)])
    BY <1>1, <2>1
  <2> QED
    BY <2>2, <2>3, <2>4
<1> HIDE DEF c
<1>4. FoldsTo(c, l, base, seq)
  BY <1>2, <1>3 DEF FoldsTo
<1> QED
  BY <1>4 DEF c

\* fillInfo() stores the fields one after the other.
LEMMA PutPrefixes ==
  ASSUME NEW values, Len(values) \in Nat, DOMAIN values = 1 .. Len(values),
         NEW bytes, NEW first
  PROVE  \E c : /\ FoldsTo(c, 0, [addr |-> first, bytes |-> bytes], values)
                /\ fillInfo(values, bytes, first) = c[Len(values)].bytes
<1> DEFINE base == [addr |-> first, bytes |-> bytes]
           D == SUBSET DOMAIN values
           g == CHOOSE g : Folds(g, 0, base, values, D)
           c == [i \in 0 .. Len(values) |-> g[1 .. i]]
<1>1. Folds(g, 0, base, values, D)
  <2>1. \E f : Folds(f, 0, base, values, D)
    BY FoldsExists
  <2> HIDE DEF D, base
  <2> QED
    BY <2>1
<1>2. fillInfo(values, bytes, first) = g[DOMAIN values].bytes
  BY DEF fillInfo, FoldLeft, MapThenFoldSet, Folds, Step
<1> HIDE DEF g
<1>3. FoldsTo(c, 0, base, values)
  BY <1>1, FoldsToLast
<1>4. c[Len(values)] = g[DOMAIN values]
  OBVIOUS
<1> QED
  BY <1>2, <1>3, <1>4

\* The loop over the items of a Modol adds one cell after the other.
LEMMA CellPrefixes ==
  ASSUME NEW items, Len(items) \in Nat, DOMAIN items = 1 .. Len(items),
         NEW h, NEW l, l # 0
  PROVE  \E c : /\ FoldsTo(c, l, h, items)
                /\ AddCells(h, l, items) = c[Len(items)]
<1> DEFINE D == SUBSET DOMAIN items
           Cells(g) == g = [s \in D |-> IF s = {} THEN h
                                        ELSE AddCell(g[s \ {Max(s)}], l, items[Max(s)])]
           g == CHOOSE g : Cells(g)
           c == [i \in 0 .. Len(items) |-> g[1 .. i]]
<1>1. \A f : Folds(f, l, h, items, D) <=> Cells(f)
  BY DEF Folds, Step
<1>2. Cells(g)
  <2>1. \E f : Folds(f, l, h, items, D)
    BY FoldsExists
  <2>2. \E f : Cells(f)
    BY <1>1, <2>1
  <2> HIDE DEF Cells
  <2> QED
    BY <2>2
<1>3. AddCells(h, l, items) = g[DOMAIN items]
  BY DEF AddCells, FoldLeft, MapThenFoldSet
<1> HIDE DEF g
<1>4. Folds(g, l, h, items, D)
  <2> HIDE DEF Cells, D
  <2> QED
    BY <1>1, <1>2
<1>5. FoldsTo(c, l, h, items)
  BY <1>4, FoldsToLast
<1>6. c[Len(items)] = g[DOMAIN items]
  OBVIOUS
<1> QED
  BY <1>3, <1>5, <1>6

PutState(N) == [addr : Nat, bytes : [1 .. N -> Byte]]

\* The bytes after one store, and where the next one goes.
LEMMA PutIs ==
  ASSUME NEW N \in Nat, NEW x \in PutState(N), NEW v \in Value
  PROVE  /\ Put(x, v) \in PutState(N)
         /\ v = Absent => Put(x, v).addr = x.addr + 1 /\ Put(x, v).bytes = x.bytes
         /\ v = Blank => Put(x, v) = x
         /\ v \in Byte =>
              /\ Put(x, v).addr = x.addr + 1
              /\ \A k \in 1 .. N : Put(x, v).bytes[k] =
                   IF k = x.addr THEN v
                   ELSE IF k \in x.addr + 1 .. x.addr + 3 THEN 0 ELSE x.bytes[k]
<1>0. x.addr \in Nat /\ x.bytes \in [1 .. N -> Byte] /\ x.addr + 1 \in Nat
  BY DEF PutState
<1>1. CASE v = Absent
  <2>1. Put(x, v) = [x EXCEPT !.addr = @ + 1]
    <3>1. v # Blank
      BY <1>1 DEF Absent, Blank
    <3> QED
      BY <1>1, <3>1 DEF Put
  <2>2. Put(x, v).addr = x.addr + 1 /\ Put(x, v).bytes = x.bytes /\ Put(x, v) \in PutState(N)
    BY <1>0, <2>1 DEF PutState
  <2>3. v # Blank /\ v \notin Byte
    BY <1>1 DEF Absent, Blank, Byte
  <2> QED
    BY <2>2, <2>3
<1>2. CASE v = Blank
  <2>1. Put(x, v) = x /\ v # Absent /\ v \notin Byte
    BY <1>2 DEF Put, Absent, Blank, Byte
  <2> QED
    BY <2>1
<1>3. CASE v \in Byte
  <2>1. v # Absent /\ v # Blank
    BY <1>3 DEF Absent, Blank, Byte
  <2> DEFINE f == [k \in 1 .. N |-> IF k = x.addr THEN v
                                    ELSE IF k \in x.addr + 1 .. x.addr + 3 THEN 0
                                    ELSE x.bytes[k]]
  <2>2. Put(x, v) = [addr |-> x.addr + 1, bytes |-> f]
    <3>1. DOMAIN x.bytes = 1 .. N
      BY <1>0
    <3> QED
      BY <2>1, <3>1 DEF Put, NextByte
  <2>3. f \in [1 .. N -> Byte]
    <3>1. \A k \in 1 .. N : x.bytes[k] \in Byte
      BY <1>0
    <3>2. 0 \in Byte
      BY DEF Byte
    <3> QED
      BY <1>3, <3>1, <3>2
  <2>4. \A k \in 1 .. N : f[k] = IF k = x.addr THEN v
                                 ELSE IF k \in x.addr + 1 .. x.addr + 3 THEN 0 ELSE x.bytes[k]
    OBVIOUS
  <2> HIDE DEF f
  <2>5. Put(x, v) \in PutState(N) /\ Put(x, v).addr = x.addr + 1 /\ Put(x, v).bytes = f
    BY <1>0, <2>2, <2>3 DEF PutState
  <2> QED
    BY <2>1, <2>4, <2>5
<1> QED
  BY <1>1, <1>2, <1>3 DEF Value

\* fillInfo() writes bytes, and only where there are bytes.
LEMMA FillOK ==
  ASSUME NEW N \in Nat, NEW values \in Seq(Value), NEW bytes \in [1 .. N -> Byte],
         NEW first \in Nat
  PROVE  fillInfo(values, bytes, first) \in [1 .. N -> Byte]
<1> DEFINE n == Len(values)
           base == [addr |-> first, bytes |-> bytes]
<1>0. n \in Nat /\ DOMAIN values = 1 .. n /\ \A i \in 1 .. n : values[i] \in Value
  BY DEF Value
<1>1. PICK c : FoldsTo(c, 0, base, values) /\ fillInfo(values, bytes, first) = c[n].bytes
  BY <1>0, PutPrefixes
<1> DEFINE T == {i \in Nat : i <= n => c[i] \in PutState(N)}
<1>2. 0 \in T
  BY <1>1 DEF FoldsTo, PutState
<1>3. ASSUME NEW i \in Nat, i \in T PROVE i + 1 \in T
  <2> SUFFICES ASSUME i + 1 <= n PROVE c[i + 1] \in PutState(N)
    OBVIOUS
  <2>1. i \in 0 .. n - 1 /\ i <= n /\ i + 1 \in 1 .. n
    BY <1>0
  <2>2. c[i] \in PutState(N) /\ values[i + 1] \in Value
    BY <1>0, <1>3, <2>1
  <2>3. c[i + 1] = Put(c[i], values[i + 1])
    BY <1>1, <2>1 DEF FoldsTo, Step
  <2> QED
    BY <2>2, <2>3, PutIs
<1>4. Nat \subseteq T
  <2> HIDE DEF T
  <2> QED
    BY <1>2, <1>3, Naturally
<1> QED
  BY <1>0, <1>1, <1>4 DEF PutState

\* The length of a function on an initial segment.
LEMMA LengthIs ==
  ASSUME NEW n \in Nat, NEW S, NEW s \in [1 .. n -> S]
  PROVE  s \in Seq(S) /\ Len(s) = n
<1>1. s \in Seq(S)
  BY SeqDef
<1>2. Len(s) \in Nat /\ DOMAIN s = 1 .. Len(s) /\ DOMAIN s = 1 .. n
  BY <1>1, LenProperties
<1> DEFINE k == Len(s)
<1> HIDE DEF k
<1>3. k \in Nat /\ 1 .. k = 1 .. n
  BY <1>2 DEF k
<1>4. k = n
  <2>1. ~(k > n)
    <3>1. k > n => k \in 1 .. k /\ k \notin 1 .. n
      BY <1>3
    <3> QED
      BY <1>3, <3>1
  <2>2. ~(n > k)
    <3>1. n > k => n \in 1 .. n /\ n \notin 1 .. k
      BY <1>3
    <3> QED
      BY <1>3, <3>1
  <2> QED
    BY <1>3, <2>1, <2>2
<1> QED
  BY <1>1, <1>4 DEF k

\* Fields without a blank, stored behind byte a, before bytes that are 0.
PlainReady(values, n, bytes, N, a) ==
  /\ N \in Nat /\ n \in Nat /\ a \in Nat /\ a + n <= N
  /\ values \in [1 .. n -> Value] /\ bytes \in [1 .. N -> Byte]
  /\ \A k \in 1 .. n : values[k] # Blank
  /\ \A j \in 1 .. N : j > a => bytes[j] = 0

PlainDone(r, values, n, bytes, N, a) ==
  /\ \A j \in 1 .. N : j <= a => r[j] = bytes[j]
  /\ \A k \in 1 .. n : r[a + k] = Written(values[k])
  /\ \A j \in 1 .. N : j > a + n => r[j] = 0

\* They are stored as they are written.
LEMMA PlainFill ==
  ASSUME NEW values, NEW n, NEW bytes, NEW N, NEW a, PlainReady(values, n, bytes, N, a)
  PROVE  PlainDone(fillInfo(values, bytes, a + 1), values, n, bytes, N, a)
<1>0. /\ N \in Nat /\ n \in Nat /\ a \in Nat /\ a + n <= N
      /\ values \in [1 .. n -> Value] /\ bytes \in [1 .. N -> Byte]
      /\ \A k \in 1 .. n : values[k] # Blank
      /\ \A j \in 1 .. N : j > a => bytes[j] = 0
  BY DEF PlainReady
<1> DEFINE base == [addr |-> a + 1, bytes |-> bytes]
<1>1. Len(values) = n /\ DOMAIN values = 1 .. n
  BY <1>0, LengthIs
<1>2. PICK c : FoldsTo(c, 0, base, values) /\ fillInfo(values, bytes, a + 1) = c[n].bytes
  <2> DEFINE first == a + 1
  <2>1. Len(values) \in Nat /\ DOMAIN values = 1 .. Len(values) /\ Len(values) = n
    BY <1>1
  <2> HIDE DEF first
  <2>2. \E c : /\ FoldsTo(c, 0, [addr |-> first, bytes |-> bytes], values)
               /\ fillInfo(values, bytes, first) = c[Len(values)].bytes
    BY <2>1, PutPrefixes
  <2> QED
    BY <2>1, <2>2 DEF first
<1> DEFINE Good(i) == /\ c[i] \in PutState(N) /\ c[i].addr = a + 1 + i
                      /\ \A j \in 1 .. N : j <= a => c[i].bytes[j] = bytes[j]
                      /\ \A k \in 1 .. i : c[i].bytes[a + k] = Written(values[k])
                      /\ \A j \in 1 .. N : j > a + i => c[i].bytes[j] = 0
           T == {i \in Nat : i <= n => Good(i)}
<1>3. Good(0)
  BY <1>0, <1>2 DEF FoldsTo, PutState
<1>4. ASSUME NEW i \in Nat, i \in T PROVE i + 1 \in T
  <2> SUFFICES ASSUME i + 1 <= n PROVE Good(i + 1)
    OBVIOUS
  <2>1. i + 1 \in 1 .. n /\ i \in 0 .. Len(values) - 1 /\ i <= n
    BY <1>0, <1>1
  <2>0. Good(i)
    BY <1>4, <2>1
  <2>2. c[i + 1] = Put(c[i], values[i + 1])
    BY <1>2, <2>1 DEF FoldsTo, Step
  <2> DEFINE v == values[i + 1]
             x == c[i]
             y == c[i + 1]
  <2>3. v \in Value /\ v # Blank
    BY <1>0, <2>1
  <2>4. x \in PutState(N)
    BY <2>0
  <2> HIDE DEF v, x
  <2>a. y = Put(x, v)
    BY <2>2 DEF v, x
  <2> HIDE DEF y
  <2>b. v = Absent \/ v \in Byte
    BY <2>3 DEF Value
  <2>5. y \in PutState(N) /\ y.addr = x.addr + 1
    BY <1>0, <2>a, <2>b, <2>3, <2>4, PutIs
  <2>6. \A j \in 1 .. N : y.bytes[j] =
          IF j = a + 1 + i /\ v # Absent THEN v
          ELSE IF j \in a + i + 2 .. a + i + 4 /\ v # Absent THEN 0 ELSE x.bytes[j]
    <3>1. CASE v = Absent
      BY <1>0, <2>a, <2>3, <2>4, <3>1, PutIs
    <3>2. CASE v \in Byte
      <4>1. v # Absent
        BY <3>2 DEF Absent, Byte
      <4>2. \A j \in 1 .. N : y.bytes[j] =
              IF j = x.addr THEN v
              ELSE IF j \in x.addr + 1 .. x.addr + 3 THEN 0 ELSE x.bytes[j]
        BY <1>0, <2>a, <2>3, <2>4, <3>2, PutIs
      <4>3. x.addr = a + 1 + i /\ x.addr + 1 = a + i + 2 /\ x.addr + 3 = a + i + 4
        BY <1>0, <2>0 DEF x
      <4> QED
        BY <1>0, <4>1, <4>2, <4>3
    <3> QED
      BY <2>b, <3>1, <3>2
  <2>7. Written(v) = IF v = Absent THEN 0 ELSE v
    BY DEF Written
  <2>8. \A j \in 1 .. N : j <= a => y.bytes[j] = bytes[j]
    <3> SUFFICES ASSUME NEW j \in 1 .. N, j <= a PROVE y.bytes[j] = bytes[j]
      OBVIOUS
    <3>1. j # a + 1 + i /\ j \notin a + i + 2 .. a + i + 4
      BY <1>0
    <3>2. x.bytes[j] = bytes[j]
      BY <2>0 DEF x
    <3> QED
      BY <2>6, <3>1, <3>2
  <2>9. \A j \in 1 .. N : j > a + (i + 1) => y.bytes[j] = 0
    <3> SUFFICES ASSUME NEW j \in 1 .. N, j > a + (i + 1) PROVE y.bytes[j] = 0
      OBVIOUS
    <3>1. j > a + i /\ j # a + 1 + i
      BY <1>0
    <3>2. x.bytes[j] = 0
      BY <2>0, <3>1 DEF x
    <3> QED
      BY <2>6, <3>1, <3>2
  <2>10. ASSUME NEW k \in 1 .. i + 1 PROVE y.bytes[a + k] = Written(values[k])
    <3>1. a + k \in 1 .. N /\ k \in 1 .. n
      BY <1>0, <2>1
    <3>2. CASE k = i + 1
      <4>1. x.bytes[a + k] = 0 /\ a + k = a + 1 + i
        BY <1>0, <2>0, <3>1, <3>2 DEF x
      <4> QED
        BY <1>0, <2>6, <2>7, <3>1, <3>2, <4>1 DEF v
    <3>3. CASE k # i + 1
      <4>1. k \in 1 .. i /\ a + k < a + 1 + i
        BY <1>0, <3>3
      <4>2. x.bytes[a + k] = Written(values[k])
        BY <1>0, <2>0, <4>1 DEF x
      <4> QED
        BY <1>0, <2>6, <3>1, <4>1, <4>2
    <3> QED
      BY <3>2, <3>3
  <2>11. y.addr = a + 1 + (i + 1)
    BY <1>0, <2>0, <2>5 DEF x
  <2> QED
    BY <2>5, <2>8, <2>9, <2>10, <2>11 DEF y
<1>5. Nat \subseteq T
  <2>1. 0 \in T
    BY <1>3
  <2> HIDE DEF T
  <2> QED
    BY <1>4, <2>1, Naturally
<1>6. Good(n)
  BY <1>0, <1>5
<1> QED
  BY <1>2, <1>6 DEF PlainDone

\* The three fields of a guard.
LEMMA GuardFill ==
  ASSUME NEW g \in 1 .. 3, NEW values \in [1 .. 3 -> Value], NEW bytes \in [1 .. 12 -> Byte],
         \A k \in 1 .. 3 : values[k] # Blank,
         \A j \in 1 .. 12 : j > 3 * g - 3 => bytes[j] = 0
  PROVE  LET r == fillInfo(values, bytes, 3 * g - 2)
         IN  /\ \A j \in 1 .. 12 : j <= 3 * g - 3 => r[j] = bytes[j]
             /\ \A k \in 1 .. 3 : r[3 * (g - 1) + k] = Written(values[k])
             /\ \A j \in 1 .. 12 : j > 3 * g => r[j] = 0
<1> DEFINE a == 3 * g - 3
<1>1. a \in Nat /\ a + 3 <= 12 /\ 3 * g - 2 = a + 1 /\ 3 * (g - 1) = a /\ 3 * g = a + 3
  OBVIOUS
<1>2. 3 \in Nat /\ 12 \in Nat /\ \A j \in 1 .. 12 : j > a => bytes[j] = 0
  OBVIOUS
<1> HIDE DEF a
<1>3. PlainReady(values, 3, bytes, 12, a)
  BY <1>1, <1>2 DEF PlainReady
<1>4. PlainDone(fillInfo(values, bytes, a + 1), values, 3, bytes, 12, a)
  BY <1>3, PlainFill
<1> QED
  BY <1>1, <1>4 DEF a, PlainDone

\* An empty list.
LEMMA EmptyList ==
  ASSUME NEW h, NEW l, h[l].length = 0, h[l].next = NULL
  PROVE  ListOK(h, l) /\ Nodes(h, l) = <<>> /\ Linked(h, l) = {}
<1>1. <<>> \in Seq(Block) /\ Len(<<>>) = 0 /\ 0 .. 0 = {0} /\ 1 .. 0 = {}
  OBVIOUS
<1>2. Chain(h, l, <<>>)
  <2>1. \A i \in 0 .. 0 : h[At(l, <<>>, i)].next = IF i = 0 THEN NULL ELSE <<>>[i + 1]
    BY <1>1 DEF At
  <2> QED
    BY <1>1, <2>1 DEF Chain
<1>3. Nodes(h, l) = <<>>
  BY <1>2, NodesIs
<1> QED
  BY <1>1, <1>2, <1>3 DEF ListOK, Linked

\* The blocks after block n are free.
Fresh(h, n) == \A b \in Block : h[b].kind = "free" <=> b > n

\* malloc() takes the first block that is free.
LEMMA Allocated ==
  ASSUME NEW h \in Heaps, NEW n \in Nat, Fresh(h, n), n < MaxBlock
  PROVE  NewBlock(h) = n + 1 /\ n + 1 \in Block /\ h[n + 1].kind = "free"
<1> DEFINE S == {b \in Block : h[b] = Free}
<1>1. n + 1 \in Block /\ n + 1 > n
  BY DocumentsAssumption DEF Block
<1>2. \A b \in Block : b \in S <=> b > n
  BY Kinds DEF Fresh, Heaps
<1>3. n + 1 \in S /\ S \in SUBSET Nat
  BY <1>1, <1>2, BlockOK
<1> HIDE DEF S
<1>4. Min(S) \in S /\ Min(S) <= n + 1
  BY <1>3, Least
<1>5. Min(S) \in Nat /\ Min(S) > n
  BY <1>2, <1>3, <1>4, BlockOK DEF S
<1>6. Min(S) = n + 1
  BY <1>4, <1>5
<1> QED
  BY <1>1, <1>6 DEF S, NewBlock, Fresh

\* h2 is h with more blocks, and with other blocks in the lists of L.
Grown(h, h2, L) ==
  /\ HeapOK(h2)
  /\ \A b \in Block : h[b].kind # "free" => Alike(h[b], h2[b])
  /\ \A l \in Lists(h) \ L : Nodes(h2, l) = Nodes(h, l) /\ Linked(h2, l) = Linked(h, l)

\* Two such steps are one.
LEMMA GrownOn ==
  ASSUME NEW h, NEW h2, NEW h3, NEW L, HeapOK(h), Grown(h, h2, L), Grown(h2, h3, L)
  PROVE  Grown(h, h3, L)
<1>1. Lists(h) \subseteq Lists(h2)
  BY DEF Grown, Lists, Alike
<1>2. ASSUME NEW b \in Block, h[b].kind # "free" PROVE Alike(h[b], h3[b])
  <2>1. Alike(h[b], h2[b]) /\ h2[b].kind # "free"
    BY <1>2 DEF Grown, Alike
  <2>2. Alike(h2[b], h3[b])
    BY <2>1 DEF Grown
  <2> QED
    BY <2>1, <2>2 DEF Alike
<1> QED
  BY <1>1, <1>2 DEF Grown

\* The lists of h2 are those of h, and new ones without a node.
NewBlocks(h, h2) ==
  /\ HeapOK(h) /\ h2 \in Heaps
  /\ \A b \in Block : h[b].kind # "free" => h2[b] = h[b]
  /\ \A l \in Lists(h2) \ Lists(h) : h2[l].length = 0 /\ h2[l].next = NULL
  /\ \A m \in Block : h[m].kind = "free" /\ h2[m].kind = "model" =>
       h2[m].cellList \in Lists(h2) \ (Lists(h) \cup {1, 2})
  /\ \A m, n \in Block : /\ h[m].kind = "free" /\ h2[m].kind = "model"
                          /\ h[n].kind = "free" /\ h2[n].kind = "model" => m = n

\* New blocks do not change the lists that there are.
LEMMA NewOK ==
  ASSUME NEW h, NEW h2, NewBlocks(h, h2)
  PROVE  /\ Grown(h, h2, {}) /\ Lists(h) \subseteq Lists(h2)
         /\ \A l \in Lists(h2) \ Lists(h) : Linked(h2, l) = {}
         /\ \A b \in Block : Isolated(h, b) => Isolated(h2, b)
         /\ \A b \in Block : h[b].kind = "free" => Isolated(h2, b)
<1>a. /\ HeapOK(h) /\ h2 \in Heaps
      /\ \A b \in Block : h[b].kind # "free" => h2[b] = h[b]
  BY DEF NewBlocks
<1>b. /\ \A l \in Lists(h2) \ Lists(h) : h2[l].length = 0 /\ h2[l].next = NULL
      /\ \A m \in Block : h[m].kind = "free" /\ h2[m].kind = "model" =>
           h2[m].cellList \in Lists(h2) \ (Lists(h) \cup {1, 2})
      /\ \A m, n \in Block : /\ h[m].kind = "free" /\ h2[m].kind = "model"
                              /\ h[n].kind = "free" /\ h2[n].kind = "model" => m = n
  BY DEF NewBlocks
<1>1. Lists(h) \subseteq Lists(h2)
  BY <1>a, <1>b DEF Lists
<1>2. ASSUME NEW l \in Lists(h)
      PROVE  /\ ListOK(h2, l) /\ Nodes(h2, l) = Nodes(h, l) /\ Linked(h2, l) = Linked(h, l)
             /\ \A x \in Linked(h, l) : x \in Block /\ h[x].kind # "free"
  <2>1. ListOK(h, l) /\ Linked(h, l) \subseteq Block
    BY <1>a, <1>b, LinkedBlocks DEF HeapOK
  <2>2. \A x \in Linked(h, l) : x \in Block /\ h[x].kind # "free"
    BY <1>a, <1>b, <2>1 DEF ListOK, KindOf
  <2>3. h2[l] = h[l] /\ \A x \in Linked(h, l) : h2[x] = h[x]
    BY <1>a, <1>b, <2>2 DEF Lists
  <2>4. ListOK(h2, l) /\ Nodes(h2, l) = Nodes(h, l) /\ Linked(h2, l) = Linked(h, l)
    BY <1>a, <1>b, <2>1, <2>3, SameList
  <2> QED
    BY <1>a, <1>b, <2>2, <2>4
<1>3. \A l \in Lists(h2) \ Lists(h) : ListOK(h2, l) /\ Linked(h2, l) = {}
  BY <1>a, <1>b, EmptyList
<1>4. \A l \in Lists(h2) : ListOK(h2, l)
  BY <1>a, <1>b, <1>2, <1>3
<1>5. \A l, k \in Lists(h2) : l # k => Linked(h2, l) \cap Linked(h2, k) = {}
  <2> SUFFICES ASSUME NEW l \in Lists(h2), NEW k \in Lists(h2), l # k
               PROVE  Linked(h2, l) \cap Linked(h2, k) = {}
    BY <1>a, <1>b
  <2>1. CASE l \in Lists(h) /\ k \in Lists(h)
    <3>1. Linked(h, l) \cap Linked(h, k) = {}
      BY <1>a, <1>b, <2>1 DEF HeapOK
    <3> QED
      BY <1>a, <1>b, <1>2, <2>1, <3>1
  <2>2. CASE ~(l \in Lists(h) /\ k \in Lists(h))
    BY <1>a, <1>b, <1>3, <2>2
  <2> QED
    BY <1>a, <1>b, <2>1, <2>2
<1>6. \A b \in Block : h[b].kind # "free" => Alike(h[b], h2[b])
  BY <1>a, <1>b, AlikeItself
<1>7. ASSUME NEW m \in Block, h2[m].kind = "model"
      PROVE  /\ h2[m].cellList \in Lists(h2) \ {1, 2}
             /\ h2[m].cellList \in Lists(h) <=> h[m].kind # "free"
             /\ h[m].kind # "free" => h2[m] = h[m]
  <2>1. CASE h[m].kind = "free"
    BY <1>a, <1>b, <1>7, <2>1
  <2>2. CASE h[m].kind # "free"
    <3>1. h2[m] = h[m]
      BY <1>a, <1>b, <2>2
    <3>2. h[m].cellList \in Lists(h) \ {1, 2}
      BY <1>a, <1>b, <1>7, <3>1 DEF HeapOK
    <3> QED
      BY <1>a, <1>b, <1>1, <2>2, <3>1, <3>2
  <2> QED
    BY <1>a, <1>b, <2>1, <2>2
<1>8. \A m, n \in Block :
        h2[m].kind = "model" /\ h2[n].kind = "model" /\ h2[m].cellList = h2[n].cellList => m = n
  <2> SUFFICES ASSUME NEW m \in Block, NEW n \in Block, h2[m].kind = "model",
                      h2[n].kind = "model", h2[m].cellList = h2[n].cellList
               PROVE  m = n
    BY <1>a, <1>b
  <2>1. h[m].kind # "free" <=> h[n].kind # "free"
    BY <1>a, <1>b, <1>7
  <2>2. CASE h[m].kind = "free"
    BY <1>a, <1>b, <2>1, <2>2
  <2>3. CASE h[m].kind # "free"
    <3>1. h2[m] = h[m] /\ h2[n] = h[n]
      BY <1>a, <1>b, <2>1, <2>3
    <3> QED
      BY <1>a, <1>b, <3>1 DEF HeapOK
  <2> QED
    BY <1>a, <1>b, <2>2, <2>3
<1>9. HeapOK(h2)
  BY <1>a, <1>b, <1>4, <1>5, <1>7, <1>8 DEF HeapOK
<1>10. \A b \in Block : Isolated(h, b) \/ h[b].kind = "free" => Isolated(h2, b)
  <2> SUFFICES ASSUME NEW b \in Block, Isolated(h, b) \/ h[b].kind = "free",
                      NEW l \in Lists(h2)
               PROVE  b \notin Linked(h2, l)
    BY <1>a, <1>b DEF Isolated
  <2>1. CASE l \in Lists(h)
    BY <1>a, <1>b, <1>2, <2>1 DEF Isolated
  <2>2. CASE l \notin Lists(h)
    BY <1>a, <1>b, <1>3, <2>2
  <2> QED
    BY <1>a, <1>b, <2>1, <2>2
<1> QED
  BY <1>a, <1>b, <1>1, <1>2, <1>3, <1>6, <1>9, <1>10 DEF Grown

\* free() of the blocks of F, which are in no list that remains.
LEMMA FreeOK ==
  ASSUME NEW h, HeapOK(h), NEW F \in SUBSET Block,
         NEW h2, h2 = [b \in Block |-> IF b \in F THEN Free ELSE h[b]],
         \A l \in Lists(h) \ F : Linked(h, l) \cap F = {},
         \A m \in Block \ F : h[m].kind = "model" => h[m].cellList \notin F
  PROVE  /\ HeapOK(h2) /\ Lists(h2) = Lists(h) \ F
         /\ \A l \in Lists(h2) : Nodes(h2, l) = Nodes(h, l) /\ Linked(h2, l) = Linked(h, l)
         /\ \A b \in Block : Isolated(h, b) => Isolated(h2, b)
         /\ \A b \in Block \ F : h2[b] = h[b]
<1>1. /\ \A b \in Block \ F : h2[b] = h[b]
      /\ \A b \in F : h2[b] = Free
  OBVIOUS
<1>2. h2 \in Heaps
  BY DEF HeapOK, Heaps, BlockRec
<1>3. \A b \in F : h2[b].kind = "free"
  BY <1>1 DEF Free
<1>4. Lists(h2) = Lists(h) \ F
  BY <1>1, <1>3 DEF Lists
<1>5. ASSUME NEW l \in Lists(h2)
      PROVE  ListOK(h2, l) /\ Nodes(h2, l) = Nodes(h, l) /\ Linked(h2, l) = Linked(h, l)
  <2>1. l \in Lists(h) \ F /\ l \in Block
    BY <1>4 DEF Lists
  <2>2. ListOK(h, l) /\ Linked(h, l) \subseteq Block /\ Linked(h, l) \cap F = {}
    BY <2>1, LinkedBlocks DEF HeapOK
  <2>3. h2[l] = h[l] /\ \A x \in Linked(h, l) : h2[x] = h[x]
    BY <1>1, <2>1, <2>2
  <2> QED
    BY <2>2, <2>3, SameList
<1>6. \A l, k \in Lists(h2) : l # k => Linked(h2, l) \cap Linked(h2, k) = {}
  <2> SUFFICES ASSUME NEW l \in Lists(h2), NEW k \in Lists(h2), l # k
               PROVE  Linked(h2, l) \cap Linked(h2, k) = {}
    OBVIOUS
  <2>1. Linked(h, l) \cap Linked(h, k) = {}
    BY <1>4 DEF HeapOK
  <2> QED
    BY <1>5, <2>1
<1>7. \A m \in Block : h2[m].kind = "model" =>
        m \notin F /\ h[m].kind = "model" /\ h2[m] = h[m] /\ h2[m].cellList \in Lists(h2) \ {1, 2}
  <2> SUFFICES ASSUME NEW m \in Block, h2[m].kind = "model"
               PROVE  m \notin F /\ h[m].kind = "model" /\ h2[m] = h[m]
                      /\ h2[m].cellList \in Lists(h2) \ {1, 2}
    OBVIOUS
  <2>1. m \notin F /\ h2[m] = h[m]
    BY <1>1, <1>3
  <2>2. h[m].cellList \in Lists(h) \ {1, 2} /\ h[m].cellList \notin F
    BY <2>1 DEF HeapOK
  <2> QED
    BY <1>4, <2>1, <2>2
<1>8. \A m, n \in Block :
        h2[m].kind = "model" /\ h2[n].kind = "model" /\ h2[m].cellList = h2[n].cellList => m = n
  BY <1>7 DEF HeapOK
<1>9. HeapOK(h2)
  BY <1>2, <1>5, <1>6, <1>7, <1>8 DEF HeapOK
<1>10. \A b \in Block : Isolated(h, b) => Isolated(h2, b)
  BY <1>4, <1>5 DEF Isolated
<1> QED
  BY <1>1, <1>4, <1>5, <1>9, <1>10

\* The bytes of a build change.
LEMMA BytesOK ==
  ASSUME NEW h, HeapOK(h), NEW x \in Block, h[x].kind = "build", NEW h2 \in Heaps,
         \A b \in Block \ {x} : h2[b] = h[b],
         h2[x].kind = "build", h2[x].next = h[x].next
  PROVE  /\ HeapOK(h2) /\ Lists(h2) = Lists(h)
         /\ \A l \in Lists(h) : Nodes(h2, l) = Nodes(h, l) /\ Linked(h2, l) = Linked(h, l)
<1>1. Lists(h2) = Lists(h)
  BY DEF Lists
<1>2. ASSUME NEW l \in Lists(h)
      PROVE  ListOK(h2, l) /\ Nodes(h2, l) = Nodes(h, l) /\ Linked(h2, l) = Linked(h, l)
  <2>1. ListOK(h, l) /\ Linked(h, l) \subseteq Block
    BY LinkedBlocks DEF HeapOK
  <2>2. l \in Block /\ l # x
    BY DEF Lists
  <2>3. h2[l] = h[l]
    BY <2>2
  <2>4. \A y \in Linked(h, l) : h2[y].next = h[y].next /\ h2[y].kind = h[y].kind
    BY <2>1
  <2> QED
    BY <2>1, <2>3, <2>4, SameList
<1>3. \A l, k \in Lists(h2) : l # k => Linked(h2, l) \cap Linked(h2, k) = {}
  <2> SUFFICES ASSUME NEW l \in Lists(h2), NEW k \in Lists(h2), l # k
               PROVE  Linked(h2, l) \cap Linked(h2, k) = {}
    OBVIOUS
  <2>1. Linked(h, l) \cap Linked(h, k) = {}
    BY <1>1 DEF HeapOK
  <2> QED
    BY <1>1, <1>2, <2>1
<1>4. \A m \in Block : h2[m].kind = "model" => h2[m] = h[m]
  OBVIOUS
<1>5. HeapOK(h2)
  BY <1>1, <1>2, <1>3, <1>4 DEF HeapOK
<1> QED
  BY <1>1, <1>2, <1>5

\* The lists of L may be among more.
LEMMA GrownMore ==
  ASSUME NEW h, NEW h2, NEW L, NEW M, L \subseteq M, Grown(h, h2, L)
  PROVE  Grown(h, h2, M)
BY DEF Grown

\* A list with one node more.
Insertable(h, l, node) ==
  /\ HeapOK(h) /\ l \in Lists(h) /\ node \in Block
  /\ h[node].kind = KindOf(l) /\ Isolated(h, node)

OneNode(h, h2, l, node) ==
  /\ Grown(h, h2, {l}) /\ Linked(h2, l) = Linked(h, l) \cup {node}
  /\ Nodes(h2, l) = Append(Nodes(h, l), node)
  /\ \A b \in Block : h2[b].kind = h[b].kind
  /\ \A n : Fresh(h, n) => Fresh(h2, n)
  /\ \A b \in Block \ {node} : Isolated(h, b) => Isolated(h2, b)

\* Insertion at the end is such a step.
LEMMA GrownByOne ==
  ASSUME NEW h, NEW l, NEW node, Insertable(h, l, node)
  PROVE  OneNode(h, InsertLast(h, l, node), l, node)
<1> DEFINE h2 == InsertLast(h, l, node)
<1>0. /\ HeapOK(h) /\ l \in Lists(h) /\ node \in Block
      /\ h[node].kind = KindOf(l) /\ Isolated(h, node)
  BY DEF Insertable
<1> HIDE DEF h2
<1>1. /\ HeapOK(h2) /\ Lists(h2) = Lists(h)
      /\ Linked(h2, l) = Linked(h, l) \cup {node} /\ Nodes(h2, l) = Append(Nodes(h, l), node)
      /\ \A k \in Lists(h) \ {l} : Nodes(h2, k) = Nodes(h, k) /\ Linked(h2, k) = Linked(h, k)
      /\ \A b \in Block : Alike(h[b], h2[b])
  BY <1>0, InsertOK DEF h2
<1>2. \A b \in Block : h2[b].kind = h[b].kind
  BY <1>1 DEF Alike
<1>3. \A b \in Block \ {node} : Isolated(h, b) => Isolated(h2, b)
  BY <1>0, <1>1 DEF Isolated
<1>4. Grown(h, h2, {l})
  BY <1>1 DEF Grown
<1>5. \A n : Fresh(h, n) => Fresh(h2, n)
  BY <1>2 DEF Fresh
<1> QED
  BY <1>1, <1>2, <1>3, <1>4, <1>5 DEF OneNode, h2

\* Zeros are bytes.
LEMMA ZerosOK ==
  ASSUME NEW n \in Nat
  PROVE  Zeros(n) \in [1 .. n -> Byte]
<1>1. 0 \in Byte
  BY DEF Byte
<1> QED
  BY <1>1 DEF Zeros

\* A block more, the next one.
Room(h, n) == HeapOK(h) /\ n \in Nat /\ Fresh(h, n) /\ n < MaxBlock

Stored(h, b, r) == [h EXCEPT ![b] = r]

OneBlock(h, h2, b, r) ==
  /\ Grown(h, h2, {}) /\ Lists(h2) = Lists(h) /\ Fresh(h2, b)
  /\ b \in Block /\ h2[b] = r /\ Isolated(h2, b)
  /\ h[b].kind = "free" /\ \A x \in Block \ {b} : h2[x] = h[x]
  /\ \A x \in Block : Isolated(h, x) => Isolated(h2, x)

\* A build or a cell is allocated.
LEMMA StoredOK ==
  ASSUME NEW h, NEW n, Room(h, n), NEW r \in BuildRec \cup CellRecord
  PROVE  NewBlock(h) = n + 1 /\ OneBlock(h, Stored(h, n + 1, r), n + 1, r)
<1> DEFINE h2 == Stored(h, n + 1, r)
<1>1. h \in Heaps /\ HeapOK(h) /\ n \in Nat /\ Fresh(h, n) /\ n < MaxBlock
  BY DEF HeapOK, Room
<1>2. NewBlock(h) = n + 1 /\ n + 1 \in Block /\ h[n + 1].kind = "free"
  BY <1>1, Allocated
<1>3. r \in BlockRec /\ r.kind \in {"build", "cell"}
  BY DEF BlockRec, BuildRec, CellRecord
<1>4. h2 \in Heaps /\ h2[n + 1] = r /\ \A b \in Block \ {n + 1} : h2[b] = h[b]
  BY <1>1, <1>2, <1>3 DEF Heaps, Stored
<1> HIDE DEF h2
<1>5. Lists(h2) = Lists(h)
  BY <1>2, <1>3, <1>4 DEF Lists
<1>6. \A m \in Block : ~(h[m].kind = "free" /\ h2[m].kind = "model")
  BY <1>2, <1>3, <1>4
<1>7. \A b \in Block : h[b].kind # "free" => h2[b] = h[b]
  BY <1>2, <1>4
<1>8. NewBlocks(h, h2)
  BY <1>1, <1>4, <1>5, <1>6, <1>7 DEF NewBlocks
<1>9. /\ Grown(h, h2, {}) /\ \A b \in Block : Isolated(h, b) => Isolated(h2, b)
      /\ \A b \in Block : h[b].kind = "free" => Isolated(h2, b)
  BY <1>8, NewOK
<1>10. Fresh(h2, n + 1)
  <2> SUFFICES ASSUME NEW b \in Block PROVE h2[b].kind = "free" <=> b > n + 1
    BY DEF Fresh
  <2>1. b \in Nat /\ (h[b].kind = "free" <=> b > n)
    BY <1>1, BlockOK DEF Fresh
  <2>2. CASE b = n + 1
    BY <1>1, <1>3, <1>4, <2>2
  <2>3. CASE b # n + 1
    BY <1>1, <1>4, <2>1, <2>3
  <2> QED
    BY <2>2, <2>3
<1> QED
  BY <1>2, <1>4, <1>5, <1>9, <1>10 DEF OneBlock, h2

\* An item becomes a cell of the list l.
CellAdded(h, h3, n, l) ==
  /\ Grown(h, h3, {l}) /\ Fresh(h3, n)
  /\ \A b \in Block : h[b].kind # "free" /\ Isolated(h, b) => Isolated(h3, b)

\* The cell x has the fields of an item.
CellAt(h, x, item) ==
  x \in Block /\ h[x].kind = "cell" /\ h[x].bytes = fillInfo(item, Zeros(12), 1)

CellLast(h, h3, l, item) ==
  \E x : Nodes(h3, l) = Append(Nodes(h, l), x) /\ CellAt(h3, x, item)

\* linklist_insert() of a new cell (area.c, the loop over the items).
LEMMA AddCellOK ==
  ASSUME NEW h, NEW n, Room(h, n), NEW l \in Lists(h) \ {1, 2}, NEW item \in Seq(Value)
  PROVE  CellAdded(h, AddCell(h, l, item), n + 1, l) /\ CellLast(h, AddCell(h, l, item), l, item)
<1> DEFINE cell == [kind |-> "cell", bytes |-> fillInfo(item, Zeros(12), 1), next |-> NULL]
           h2 == Stored(h, n + 1, cell)
           h3 == InsertLast(h2, l, n + 1)
<1>1. cell \in CellRecord
  <2>1. fillInfo(item, Zeros(12), 1) \in [1 .. 12 -> Byte]
    <3>1. 12 \in Nat /\ 1 \in Nat
      OBVIOUS
    <3> QED
      BY <3>1, ZerosOK, FillOK
  <2>2. NULL \in Ref
    BY DEF Ref
  <2> QED
    BY <2>1, <2>2 DEF CellRecord
<1>2. cell.kind = "cell" /\ cell.bytes = fillInfo(item, Zeros(12), 1)
  OBVIOUS
<1>3. AddCell(h, l, item) = InsertLast(Stored(h, NewBlock(h), cell), l, NewBlock(h))
  BY DEF AddCell, Stored
<1> HIDE DEF cell
<1>4. NewBlock(h) = n + 1 /\ OneBlock(h, h2, n + 1, cell)
  BY <1>1, StoredOK
<1>5. AddCell(h, l, item) = h3
  BY <1>3, <1>4
<1> HIDE DEF h2
<1>6. Insertable(h2, l, n + 1)
  BY <1>2, <1>4 DEF OneBlock, Grown, KindOf, Insertable
<1>7. OneNode(h2, h3, l, n + 1)
  BY <1>6, GrownByOne
<1> HIDE DEF h3
<1>8. Grown(h, h2, {l})
  BY <1>4, GrownMore DEF OneBlock
<1>9. HeapOK(h)
  BY DEF Room
<1>10. Grown(h, h3, {l})
  BY <1>7, <1>8, <1>9, GrownOn DEF OneNode
<1>11. \A b \in Block : h[b].kind # "free" /\ Isolated(h, b) => Isolated(h3, b)
  BY <1>4, <1>7 DEF OneBlock, OneNode
<1>12. Fresh(h3, n + 1)
  BY <1>4, <1>7 DEF OneBlock, OneNode
<1>13. CellAdded(h, h3, n + 1, l)
  BY <1>10, <1>11, <1>12 DEF CellAdded
<1>14. CellLast(h, h3, l, item)
  <2>1. Nodes(h2, l) = Nodes(h, l)
    BY <1>4 DEF OneBlock, Grown
  <2>2. Alike(h2[n + 1], h3[n + 1]) /\ n + 1 \in Block
    BY <1>2, <1>4, <1>7 DEF OneBlock, OneNode, Grown
  <2>3. CellAt(h3, n + 1, item)
    BY <1>2, <1>4, <2>2 DEF OneBlock, Alike, CellAt
  <2> QED
    BY <1>7, <2>1, <2>3 DEF OneNode, CellLast
<1> QED
  BY <1>5, <1>13, <1>14

\* The first k items are the cells of the list l.
CellsRead(h, l, items, k) ==
  /\ Nodes(h, l) \in Seq(Block) /\ Len(Nodes(h, l)) = k
  /\ \A i \in 1 .. k : CellAt(h, Nodes(h, l)[i], items[i])

\* One more.
LEMMA CellsMore ==
  ASSUME NEW h, NEW h2, NEW l, NEW items, NEW k \in Nat, CellsRead(h, l, items, k),
         Grown(h, h2, {l}), CellLast(h, h2, l, items[k + 1])
  PROVE  CellsRead(h2, l, items, k + 1)
<1> DEFINE s == Nodes(h, l)
           t == Nodes(h2, l)
<1>1. s \in Seq(Block) /\ Len(s) = k /\ \A i \in 1 .. k : CellAt(h, s[i], items[i])
  BY DEF CellsRead
<1>2. PICK x : t = Append(s, x) /\ CellAt(h2, x, items[k + 1])
  BY DEF CellLast
<1>3. x \in Block
  BY <1>2 DEF CellAt
<1> HIDE DEF s, t
<1>4. /\ t \in Seq(Block) /\ Len(t) = k + 1 /\ t[k + 1] = x
      /\ \A i \in 1 .. k : t[i] = s[i]
  BY <1>1, <1>2, <1>3
<1>5. ASSUME NEW i \in 1 .. k PROVE CellAt(h2, t[i], items[i])
  <2>1. CellAt(h, s[i], items[i]) /\ t[i] = s[i]
    BY <1>1, <1>4
  <2> DEFINE y == s[i]
  <2>2. y \in Block /\ h[y].kind = "cell" /\ h[y].bytes = fillInfo(items[i], Zeros(12), 1)
    BY <2>1 DEF CellAt
  <2> HIDE DEF y
  <2>3. Alike(h[y], h2[y])
    BY <2>2 DEF Grown
  <2>4. CellAt(h2, y, items[i])
    BY <2>2, <2>3 DEF Alike, CellAt
  <2> QED
    BY <2>1, <2>4 DEF y
<1>6. ASSUME NEW i \in 1 .. k + 1 PROVE CellAt(h2, t[i], items[i])
  <2>1. CASE i = k + 1
    BY <1>2, <1>4, <2>1
  <2>2. CASE i # k + 1
    <3>1. i \in 1 .. k
      BY <2>2
    <3> QED
      BY <1>5, <3>1
  <2> QED
    BY <2>1, <2>2
<1> QED
  BY <1>4, <1>6 DEF CellsRead, t

\* They stay what they are.
LEMMA CellsKept ==
  ASSUME NEW h, NEW h2, NEW l, NEW items, NEW k, CellsRead(h, l, items, k),
         NEW L, Grown(h, h2, L), l \in Lists(h) \ L
  PROVE  CellsRead(h2, l, items, k)
<1> DEFINE s == Nodes(h, l)
<1>1. s \in Seq(Block) /\ Len(s) = k /\ \A i \in 1 .. k : CellAt(h, s[i], items[i])
  BY DEF CellsRead
<1>2. Nodes(h2, l) = s
  BY DEF Grown
<1>3. ASSUME NEW i \in 1 .. k PROVE CellAt(h2, s[i], items[i])
  <2> DEFINE y == s[i]
  <2>1. y \in Block /\ h[y].kind = "cell" /\ h[y].bytes = fillInfo(items[i], Zeros(12), 1)
    BY <1>1 DEF CellAt
  <2> HIDE DEF y
  <2>2. Alike(h[y], h2[y])
    BY <2>1 DEF Grown
  <2>3. CellAt(h2, y, items[i])
    BY <2>1, <2>2 DEF Alike, CellAt
  <2> QED
    BY <2>3 DEF y
<1> QED
  BY <1>1, <1>2, <1>3 DEF CellsRead

\* The cells of a model, one after the other.
LEMMA AddCellsOK ==
  ASSUME NEW h, HeapOK(h), NEW n \in Nat, Fresh(h, n), NEW items \in Seq(Seq(Value)),
         n + Len(items) <= MaxBlock, NEW l \in Lists(h) \ {1, 2}
  PROVE  /\ CellAdded(h, AddCells(h, l, items), n + Len(items), l)
         /\ Nodes(h, l) = <<>> => CellsRead(AddCells(h, l, items), l, items, Len(items))
<1> DEFINE k == Len(items)
           SV == Seq(Value)
<1> HIDE DEF SV
<1>0. k \in Nat /\ DOMAIN items = 1 .. k /\ \A i \in 1 .. k : items[i] \in SV
  <2>1. items \in Seq(SV)
    BY DEF SV
  <2> QED
    BY <2>1
<1>a. l # 0 /\ l \in Block
  BY BlockOK DEF Lists
<1>1. PICK c : FoldsTo(c, l, h, items)
               /\ AddCells(h, l, items) = c[k]
  BY <1>0, <1>a, CellPrefixes
<1> DEFINE Good(i) == /\ CellAdded(h, c[i], n + i, l)
                      /\ Nodes(h, l) = <<>> => CellsRead(c[i], l, items, i)
           T == {i \in Nat : i <= k => Good(i)}
<1>2. Good(0)
  <2>1. c[0] = h /\ n + 0 = n
    BY <1>1 DEF FoldsTo
  <2>2. CellAdded(h, c[0], n + 0, l)
    BY <2>1, AlikeItself DEF Grown, CellAdded
  <2>3. Nodes(h, l) = <<>> => CellsRead(h, l, items, 0)
    <3>1. <<>> \in Seq(Block) /\ Len(<<>>) = 0 /\ 1 .. 0 = {}
      OBVIOUS
    <3> QED
      BY <3>1 DEF CellsRead
  <2> QED
    BY <2>1, <2>2, <2>3
<1>3. ASSUME NEW i \in Nat, i \in T PROVE i + 1 \in T
  <2> SUFFICES ASSUME i + 1 <= k PROVE Good(i + 1)
    OBVIOUS
  <2> HIDE DEF k
  <2>1. i \in 0 .. k - 1 /\ i <= k /\ i + 1 \in 1 .. k /\ n + i \in Nat /\ n + i < MaxBlock
        /\ (n + i) + 1 = n + (i + 1)
    BY <1>0, DocumentsAssumption DEF k
  <2>2. Good(i)
    BY <1>3, <2>1
  <2>3. c[i + 1] = AddCell(c[i], l, items[i + 1])
    BY <1>1, <1>a, <2>1 DEF FoldsTo, Step, k
  <2>4. items[i + 1] \in Seq(Value)
    BY <1>0, <2>1 DEF SV
  <2> DEFINE g == c[i]
             g2 == c[i + 1]
  <2> HIDE DEF g, g2
  <2>5. CellAdded(h, g, n + i, l) /\ g2 = AddCell(g, l, items[i + 1])
    BY <2>2, <2>3 DEF g, g2
  <2>6. Room(g, n + i) /\ l \in Lists(g) \ {1, 2}
    BY <2>1, <2>5 DEF CellAdded, Grown, Lists, Alike, Room
  <2>7. CellAdded(g, g2, n + (i + 1), l) /\ CellLast(g, g2, l, items[i + 1])
    BY <2>1, <2>4, <2>5, <2>6, AddCellOK
  <2>8. Grown(h, g2, {l})
    BY <2>5, <2>7, GrownOn DEF CellAdded
  <2>9. \A b \in Block : h[b].kind # "free" /\ Isolated(h, b) => Isolated(g2, b)
    BY <2>5, <2>7 DEF CellAdded, Grown, Alike
  <2>10. CellAdded(h, g2, n + (i + 1), l)
    BY <2>7, <2>8, <2>9 DEF CellAdded
  <2>11. ASSUME Nodes(h, l) = <<>> PROVE CellsRead(g2, l, items, i + 1)
    <3>1. CellsRead(g, l, items, i) /\ Grown(g, g2, {l})
      BY <2>2, <2>7, <2>11 DEF g, CellAdded
    <3> QED
      BY <2>7, <3>1, CellsMore
  <2> QED
    BY <2>10, <2>11 DEF g2
<1>4. k \in T
  <2> HIDE DEF T
  <2>1. Nat \subseteq T
    <3>1. 0 \in T
      BY <1>2 DEF T
    <3> QED
      BY <1>3, <3>1, Naturally
  <2> QED
    BY <1>0, <2>1
<1> HIDE DEF Good
<1>5. Good(k)
  BY <1>0, <1>4
<1> QED
  BY <1>1, <1>5 DEF Good

\* What Modol makes of the heap.
NewModel(h, id, items) ==
  LET m == NewBlock(h)
      h1 == [h EXCEPT ![m] = [kind |-> "model", id |-> id, cellList |-> NULL, next |-> NULL]]
      l == NewBlock(h1)
      h2 == [h1 EXCEPT ![l] = linklist_create, ![m].cellList = l]
      h3 == AddCells(h2, l, items)
  IN  InsertLast(h3, 2, m)

\* The model and its list.
WithModel(h, m, l, id) ==
  [h EXCEPT ![l] = linklist_create,
            ![m] = [kind |-> "model", id |-> id, cellList |-> l, next |-> NULL]]

\* A model and its empty list are allocated.
LEMMA WithModelOK ==
  ASSUME NEW h, HeapOK(h), NEW n \in Nat, Fresh(h, n), n + 2 <= MaxBlock, 2 \in Lists(h),
         NEW id \in Byte
  PROVE  LET h2 == WithModel(h, n + 1, n + 2, id)
         IN  /\ NewBlocks(h, h2) /\ Fresh(h2, n + 2) /\ n + 1 \in Block
             /\ h2[n + 1].kind = "model" /\ h[n + 1].kind = "free"
             /\ n + 2 \in Lists(h2) \ (Lists(h) \cup {1, 2})
             /\ h2[n + 1].id = id /\ h2[n + 1].cellList = n + 2
<1> DEFINE m == n + 1
           l == n + 2
           r == [kind |-> "model", id |-> id, cellList |-> l, next |-> NULL]
           h2 == WithModel(h, m, l, id)
<1>0. /\ m \in Block /\ l \in Block /\ m # l /\ m > n /\ l > n /\ h \in Heaps
      /\ 2 \in Block /\ h[2].kind = "list"
  BY DocumentsAssumption DEF Block, HeapOK, Lists
<1>1. h[m].kind = "free" /\ h[l].kind = "free" /\ n >= 2 /\ l \notin {1, 2} /\ l \notin Lists(h)
  <2>1. ~(2 > n)
    BY <1>0 DEF Fresh
  <2>2. h[m].kind = "free" /\ h[l].kind = "free"
    BY <1>0 DEF Fresh
  <2> QED
    BY <2>1, <2>2 DEF Lists
<1>2. linklist_create \in ListRec /\ r \in ModelRec
  BY <1>0 DEF linklist_create, ListRec, ModelRec, Ref
<1>3. linklist_create \in BlockRec /\ linklist_create.kind = "list"
      /\ linklist_create.length = 0 /\ linklist_create.next = NULL
      /\ r \in BlockRec /\ r.kind = "model" /\ r.cellList = l /\ r.id = id
  BY <1>2 DEF BlockRec, linklist_create
<1>4. h2 = [h EXCEPT ![l] = linklist_create, ![m] = r]
  BY DEF WithModel
<1> HIDE DEF r, h2
<1>5. h2 \in Heaps /\ h2[l] = linklist_create /\ h2[m] = r
      /\ \A b \in Block \ {m, l} : h2[b] = h[b]
  BY <1>0, <1>3, <1>4 DEF Heaps
<1> HIDE DEF m, l
<1>6. Lists(h2) = Lists(h) \cup {l}
  BY <1>0, <1>1, <1>3, <1>5 DEF Lists
<1>7. \A b \in Block : h[b].kind # "free" => h2[b] = h[b]
  BY <1>1, <1>5
<1>8. \A x \in Block : h[x].kind = "free" /\ h2[x].kind = "model" => x = m
  BY <1>3, <1>5
<1>9. NewBlocks(h, h2)
  BY <1>1, <1>3, <1>5, <1>6, <1>7, <1>8 DEF NewBlocks
<1>10. Fresh(h2, n + 2)
  <2> SUFFICES ASSUME NEW b \in Block PROVE h2[b].kind = "free" <=> b > n + 2
    BY DEF Fresh
  <2>1. b \in Nat /\ (h[b].kind = "free" <=> b > n)
    BY BlockOK DEF Fresh
  <2>2. CASE b \in {m, l}
    BY <1>3, <1>5, <2>2 DEF m, l
  <2>3. CASE b \notin {m, l}
    BY <1>5, <2>1, <2>3 DEF m, l
  <2> QED
    BY <2>2, <2>3
<1> QED
  BY <1>0, <1>1, <1>3, <1>5, <1>6, <1>9, <1>10 DEF m, l, h2

\* So are the blocks the code allocates.
LEMMA ModelBlocks ==
  ASSUME NEW h, HeapOK(h), NEW n \in Nat, Fresh(h, n), n + 2 <= MaxBlock,
         NEW id \in Byte, NEW items
  PROVE  NewModel(h, id, items) =
           InsertLast(AddCells(WithModel(h, n + 1, n + 2, id), n + 2, items), 2, n + 1)
<1> DEFINE m == n + 1
           l == n + 2
           q == [kind |-> "model", id |-> id, cellList |-> NULL, next |-> NULL]
           h1 == [h EXCEPT ![m] = q]
<1>1. NewBlock(h) = m /\ m \in Block /\ h \in Heaps /\ l \in Block /\ m # l
  <2>1. h \in Heaps /\ n < MaxBlock
    BY DocumentsAssumption DEF HeapOK
  <2> QED
    BY <2>1, Allocated, DocumentsAssumption DEF Block
<1>2. q \in BlockRec /\ q.kind = "model"
  BY DEF BlockRec, ModelRec, Ref
<1>3. h1 \in Heaps /\ h1[m] = q /\ \A b \in Block \ {m} : h1[b] = h[b]
  BY <1>1, <1>2 DEF Heaps
<1>4. Fresh(h1, n + 1)
  <2> HIDE DEF h1, q
  <2> SUFFICES ASSUME NEW b \in Block PROVE h1[b].kind = "free" <=> b > n + 1
    BY DEF Fresh
  <2>1. b \in Nat /\ (h[b].kind = "free" <=> b > n)
    BY BlockOK DEF Fresh
  <2> QED
    BY <1>2, <1>3, <2>1
<1>5. NewBlock(h1) = l
  <2> HIDE DEF h1
  <2>1. n + 1 \in Nat /\ n + 1 < MaxBlock /\ (n + 1) + 1 = n + 2
    BY DocumentsAssumption
  <2>2. NewBlock(h1) = (n + 1) + 1
    BY <1>3, <1>4, <2>1, Allocated
  <2> QED
    BY <2>1, <2>2
<1>6. [h1 EXCEPT ![l] = linklist_create, ![m].cellList = l] = WithModel(h, m, l, id)
  <2> DEFINE a == [h1 EXCEPT ![l] = linklist_create, ![m].cellList = l]
             c == WithModel(h, m, l, id)
  <2>1. DOMAIN a = Block /\ DOMAIN c = Block /\ a = [b \in DOMAIN a |-> a[b]]
        /\ c = [b \in DOMAIN c |-> c[b]]
    BY <1>1, <1>3 DEF WithModel, Heaps
  <2>2. a[l] = c[l]
    BY <1>1, <1>3 DEF WithModel, Heaps
  <2>3. a[m] = c[m]
    <3>1. a[m] = [q EXCEPT !.cellList = l]
      BY <1>1, <1>3 DEF Heaps
    <3>2. c[m] = [kind |-> "model", id |-> id, cellList |-> l, next |-> NULL]
      BY <1>1 DEF WithModel, Heaps
    <3> QED
      BY <3>1, <3>2
  <2>4. \A b \in Block \ {m, l} : a[b] = c[b]
    BY <1>1, <1>3 DEF WithModel, Heaps
  <2> HIDE DEF a, c
  <2>5. \A b \in Block : a[b] = c[b]
    BY <2>2, <2>3, <2>4
  <2>6. a = c
    BY <2>1, <2>5
  <2> QED
    BY <2>6 DEF a, c
<1>7. NewModel(h, id, items) =
        InsertLast(AddCells([h1 EXCEPT ![l] = linklist_create, ![m].cellList = l], l, items),
                   2, m)
  BY <1>1, <1>5 DEF NewModel
<1> QED
  BY <1>6, <1>7

\* h2 lists one model more, with this id and a cell for each of these items.
ModelRead(h, h2, id, items) ==
  \E m \in Block :
    /\ Linked(h2, 2) = Linked(h, 2) \cup {m}
    /\ h2[m].kind = "model" /\ h2[m].id = id
    /\ CellsRead(h2, h2[m].cellList, items, Len(items))

\* A Modol adds a model with its list and cells, and takes no more blocks than Needs says.
LEMMA ModelOK ==
  ASSUME NEW h, HeapOK(h), NEW n \in Nat, Fresh(h, n), NEW items \in Seq(Seq(Value)),
         n + (2 + Len(items)) <= MaxBlock, 2 \in Lists(h), NEW id \in Byte
  PROVE  /\ Grown(h, NewModel(h, id, items), {2})
         /\ Fresh(NewModel(h, id, items), n + (2 + Len(items)))
         /\ ModelRead(h, NewModel(h, id, items), id, items)
<1> DEFINE SV == Seq(Value)
           k == Len(items)
<1>0. k \in Nat
  <2>1. items \in Seq(SV)
    OBVIOUS
  <2> HIDE DEF SV
  <2> QED
    BY <2>1
<1>1. n + 2 <= MaxBlock /\ (n + 2) + k <= MaxBlock /\ n + 2 \in Nat /\ (n + 2) + k = n + (2 + k)
  <2> HIDE DEF k
  <2> QED
    BY <1>0, DocumentsAssumption DEF k
<1> DEFINE h2 == WithModel(h, n + 1, n + 2, id)
           h3 == AddCells(h2, n + 2, items)
           h4 == InsertLast(h3, 2, n + 1)
<1>2. /\ NewBlocks(h, h2) /\ Fresh(h2, n + 2) /\ n + 1 \in Block
      /\ h2[n + 1].kind = "model" /\ h[n + 1].kind = "free"
      /\ n + 2 \in Lists(h2) \ (Lists(h) \cup {1, 2})
      /\ h2[n + 1].id = id /\ h2[n + 1].cellList = n + 2
  BY <1>1, WithModelOK
<1>3. NewModel(h, id, items) = h4
  BY <1>1, ModelBlocks
<1> HIDE DEF h2, k
<1>4. Grown(h, h2, {}) /\ Isolated(h2, n + 1) /\ HeapOK(h2)
  BY <1>2, NewOK DEF Grown
<1>5. /\ CellAdded(h2, h3, (n + 2) + k, n + 2)
      /\ Nodes(h2, n + 2) = <<>> => CellsRead(h3, n + 2, items, k)
  BY <1>1, <1>2, <1>4, AddCellsOK DEF k
<1>a. CellsRead(h3, n + 2, items, k)
  <2>1. h2[n + 2].length = 0 /\ h2[n + 2].next = NULL
    BY <1>2 DEF NewBlocks
  <2> QED
    BY <1>5, <2>1, EmptyList
<1> HIDE DEF h3
<1>6. Insertable(h3, 2, n + 1)
  <2>1. Isolated(h3, n + 1) /\ HeapOK(h3)
    BY <1>2, <1>4, <1>5 DEF CellAdded, Grown
  <2>2. h3[n + 1].kind = "model"
    BY <1>2, <1>5 DEF CellAdded, Grown, Alike
  <2>3. 2 \in Lists(h3)
    BY <1>2, <1>4, <1>5 DEF CellAdded, Grown, Alike, Lists
  <2> QED
    BY <1>2, <2>1, <2>2, <2>3 DEF Insertable, KindOf
<1>7. OneNode(h3, h4, 2, n + 1)
  BY <1>6, GrownByOne
<1> HIDE DEF h4
<1> DEFINE L == {2, n + 2}
<1>8. Grown(h, h2, L) /\ Grown(h2, h3, L) /\ Grown(h3, h4, L)
  <2>1. {} \subseteq L /\ {n + 2} \subseteq L /\ {2} \subseteq L
    OBVIOUS
  <2> HIDE DEF L
  <2> QED
    BY <1>4, <1>5, <1>7, <2>1, GrownMore DEF CellAdded, OneNode
<1>9. Grown(h, h4, L)
  <2> HIDE DEF L
  <2>1. Grown(h, h3, L)
    BY <1>8, GrownOn
  <2> QED
    BY <1>8, <2>1, GrownOn
<1>10. Grown(h, h4, {2})
  <2>1. Lists(h) \ L = Lists(h) \ {2}
    BY <1>2
  <2> HIDE DEF L
  <2> QED
    BY <1>9, <2>1 DEF Grown
<1>11. Fresh(h4, (n + 2) + k)
  BY <1>5, <1>7 DEF CellAdded, OneNode
<1>12. ModelRead(h, h4, id, items)
  <2> DEFINE m == n + 1
             l == n + 2
  <2>1. Alike(h2[m], h3[m]) /\ Alike(h3[m], h4[m])
    BY <1>2, <1>5, <1>7 DEF CellAdded, OneNode, Grown, Alike
  <2>2. h4[m].kind = "model" /\ h4[m].id = id /\ h4[m].cellList = l
    BY <1>2, <2>1 DEF Alike
  <2>3. Linked(h2, 2) = Linked(h, 2)
    BY <1>4 DEF Grown
  <2>4. Linked(h3, 2) = Linked(h2, 2)
    BY <1>2, <1>4, <1>5 DEF Grown, CellAdded, Lists, Alike
  <2>5. Linked(h4, 2) = Linked(h3, 2) \cup {m}
    BY <1>7 DEF OneNode
  <2>6. l \in Lists(h3) \ {2}
    BY <1>2, <1>5 DEF CellAdded, Grown, Lists, Alike
  <2> HIDE DEF l
  <2>7. CellsRead(h3, l, items, k)
    BY <1>a DEF l
  <2>8. CellsRead(h4, l, items, k)
    BY <1>7, <2>6, <2>7, CellsKept DEF OneNode
  <2> QED
    BY <1>2, <2>2, <2>3, <2>4, <2>5, <2>8 DEF ModelRead, k
<1> QED
  BY <1>1, <1>3, <1>10, <1>11, <1>12 DEF k

\* The state of the parser and of freeArea(), apart from the heap.
NetRec == [IPID : Byte, netStart : Byte \X Byte]

NetItemsBefore(c) == {i \in DOMAIN document : document[i].tag = "NETITEM" /\ i < c}

StateOK ==
  /\ document \in Documents /\ curNode \in 1 .. Len(document) + 1
  /\ netItemIndex = 1 + Cardinality(NetItemsBefore(curNode))
  /\ area \in [guard : [1 .. 12 -> Byte], netItem : [1 .. 2 -> NetRec], buildList : {1}]
  /\ modelList = 2
  /\ freeing \in {"not yet", "now", "over"} /\ build \in Ref
  /\ freeing # "not yet" => curNode = Len(document) + 1
  /\ build # NULL => freeing = "now"

\* The lists, and when there are that of builds and that of models.
HeapInv ==
  /\ HeapOK(heap)
  /\ 1 \in Lists(heap) <=> freeing # "over"
  /\ 2 \in Lists(heap) <=> freeing = "not yet"

\* There are blocks for what is to be parsed.
RoomLeft ==
  freeing = "not yet" =>
    \E k \in Nat, n \in Nat :
      /\ Fresh(heap, n) /\ n + k * (Len(document) + 1 - curNode) <= MaxBlock
      /\ \A i \in DOMAIN document : Needs(document[i]) <= k

\* The builds freeArea() has still to free: each has a model of its own.
Builds == (IF freeing = "over" THEN {} ELSE Linked(heap, 1)) \cup ({build} \ {NULL})

BuildsOK ==
  /\ \A b \in Builds : /\ heap[b].kind = "build" /\ heap[b].model \in Block
                       /\ heap[heap[b].model].kind = "model"
  /\ \A b, c \in Builds : heap[b].model = heap[c].model => b = c
  /\ build # NULL => Isolated(heap, build)
  /\ freeing = "not yet" =>
       \A b \in Linked(heap, 1) : heap[heap[b].model].id = MODID(heap[b])

\* The bytes behind the last guard written are 0.
ZerosBehind ==
  \A j \in 1 .. 12 :
    (\A g \in 1 .. 3 : \A i \in Elements(GuardTag[g]) : i < curNode => j > 3 * g)
      => area.guard[j] = 0

GuardsInv == GuardsInOrder => ZerosBehind

-----------------------------------------------------------------------------
\* The fields of an element, by its tag.
LEMMA Fields ==
  ASSUME NEW e \in ElementRec
  PROVE  /\ e.tag = "Modol" => /\ e.empty \in BOOLEAN /\ e.id \in Byte
                               /\ e.items \in Seq([1 .. 9 -> Value])
                               /\ e.items \in Seq(Seq(Value))
         /\ e.tag = "BuildList" => e.fields \in [1 .. 4 -> Value] /\ e.fields \in Seq(Value)
         /\ \A g \in 1 .. 3 : e.tag = GuardTag[g] => e.fields \in [1 .. 3 -> Value]
         /\ e.tag = "NETITEM" =>
              e.IPID \in Byte /\ e.netStart \in Byte \X Byte /\ e.netGW \in Byte \X Byte
<1> DEFINE CV == [1 .. 9 -> Value]
           SCV == Seq(CV)
           BV == [1 .. 4 -> Value]
           BB == Byte \X Byte
           GV == [1 .. 3 -> Value]
           GT == Range(GuardTag)
<1>1. GT = {"MANAGE", "AREAGATE", "GUARD"} /\ \A g \in 1 .. 3 : GuardTag[g] \in GT
  <2>1. /\ DOMAIN GuardTag = 1 .. 3 /\ GuardTag[1] = "MANAGE" /\ GuardTag[2] = "AREAGATE"
        /\ GuardTag[3] = "GUARD" /\ 1 .. 3 = {1, 2, 3}
    BY DEF GuardTag
  <2>2. GT = {GuardTag[1], GuardTag[2], GuardTag[3]}
    BY <2>1 DEF Range
  <2> QED
    BY <2>1, <2>2
<1>2. e \in [tag : {"Modol"}, empty : BOOLEAN, id : Byte, items : SCV]
              \cup [tag : {"BuildList"}, fields : BV] \cup [tag : GT, fields : GV]
              \cup [tag : {"NETITEM"}, IPID : Byte, netStart : BB, netGW : BB]
              \cup [tag : {"DEVNAME"}]
  BY DEF ElementRec
<1>3. CV \subseteq Seq(Value) /\ BV \subseteq Seq(Value)
  BY SeqDef
<1> HIDE DEF SCV, BV, BB, GV, GT
<1>4. e.tag = "Modol" => e.empty \in BOOLEAN /\ e.id \in Byte /\ e.items \in SCV
  BY <1>1, <1>2
<1>5. e.tag = "BuildList" => e.fields \in BV
  BY <1>1, <1>2
<1>6. \A g \in 1 .. 3 : e.tag = GuardTag[g] => e.fields \in GV
  BY <1>1, <1>2
<1>7. e.tag = "NETITEM" => e.IPID \in Byte /\ e.netStart \in BB /\ e.netGW \in BB
  BY <1>1, <1>2
<1>8. SCV \subseteq Seq(Seq(Value))
  <2> DEFINE SV == Seq(Value)
  <2> HIDE DEF SV, CV
  <2>1. CV \subseteq SV
    BY <1>3 DEF SV, CV
  <2>2. SCV = UNION {[1 .. n -> CV] : n \in Nat}
    BY SeqDef DEF SCV
  <2>3. Seq(SV) = UNION {[1 .. n -> SV] : n \in Nat}
    BY SeqDef
  <2>4. \A n \in Nat : [1 .. n -> CV] \subseteq [1 .. n -> SV]
    BY <2>1
  <2> QED
    BY <2>2, <2>3, <2>4 DEF SV
<1>9. e.tag = "Modol" => e.items \in Seq(Seq(Value))
  BY <1>4, <1>8
<1>10. e.tag = "BuildList" => e.fields \in Seq(Value)
  BY <1>3, <1>5
<1> QED
  BY <1>4, <1>5, <1>6, <1>7, <1>9, <1>10 DEF SCV, BV, BB, GV

\* An element that is parsed is one of the document, and nothing is freed yet.
LEMMA ParsingIs ==
  ASSUME StateOK, NEW tag, Parsing(tag)
  PROVE  /\ curNode \in DOMAIN document /\ curNode \in Nat /\ Len(document) \in Nat
         /\ DOMAIN document = 1 .. Len(document)
         /\ curNode + 1 \in 1 .. Len(document) + 1
         /\ freeing = "not yet" /\ build = NULL
         /\ Element \in ElementRec /\ Element.tag = tag
<1>1. document \in Seq(ElementRec) /\ curNode \in 1 .. Len(document) + 1
  BY DocumentsAssumption DEF StateOK
<1>2. curNode <= Len(document) /\ Element.tag = tag
  BY DEF Parsing
<1> DEFINE ER == ElementRec
<1>3. document \in Seq(ER)
  BY <1>1
<1> HIDE DEF ER
<1>4. Len(document) \in Nat /\ DOMAIN document = 1 .. Len(document)
      /\ \A i \in 1 .. Len(document) : document[i] \in ER
  BY <1>3
<1>5. curNode \in 1 .. Len(document) /\ curNode + 1 \in 1 .. Len(document) + 1 /\ curNode \in Nat
      /\ curNode # Len(document) + 1
  BY <1>1, <1>2, <1>4
<1>6. freeing = "not yet" /\ build = NULL
  BY <1>5 DEF StateOK
<1> QED
  BY <1>2, <1>4, <1>5, <1>6 DEF ER, Element

\* The net items read so far.
LEMMA OneElementMore ==
  ASSUME StateOK, NEW tag, Parsing(tag), tag # "NETITEM", document' = document,
         curNode' = curNode + 1, netItemIndex' = netItemIndex
  PROVE  netItemIndex' = 1 + Cardinality(NetItemsBefore(curNode)')
<1>1. /\ curNode \in DOMAIN document /\ curNode \in Nat /\ Element.tag = tag
      /\ DOMAIN document = 1 .. Len(document) /\ Len(document) \in Nat
  BY ParsingIs
<1>2. \A i \in DOMAIN document : document[i].tag = "NETITEM" =>
        (i < curNode + 1 <=> i < curNode)
  <2> SUFFICES ASSUME NEW i \in DOMAIN document, document[i].tag = "NETITEM"
               PROVE  i < curNode + 1 <=> i < curNode
    OBVIOUS
  <2>1. i # curNode
    BY <1>1 DEF Element
  <2>2. i \in Nat
    BY <1>1
  <2> QED
    BY <1>1, <2>1, <2>2
<1>3. NetItemsBefore(curNode)' = NetItemsBefore(curNode)
  BY <1>2 DEF NetItemsBefore
<1> QED
  BY <1>3 DEF StateOK

\* A net item is counted, and there are two of them at most.
LEMMA OneItemMore ==
  ASSUME StateOK, Parsing("NETITEM"), document' = document,
         curNode' = curNode + 1, netItemIndex' = netItemIndex + 1
  PROVE  netItemIndex' = 1 + Cardinality(NetItemsBefore(curNode)') /\ netItemIndex \in 1 .. 2
<1> DEFINE S == NetItemsBefore(curNode)
           A == {i \in DOMAIN document : document[i].tag = "NETITEM"}
<1>1. /\ curNode \in DOMAIN document /\ curNode \in Nat /\ Element.tag = "NETITEM"
      /\ DOMAIN document = 1 .. Len(document) /\ Len(document) \in Nat
  BY ParsingIs
<1>2. IsFiniteSet(A)
  <2>1. IsFiniteSet(1 .. Len(document))
    BY <1>1, FS_Interval
  <2> QED
    BY <1>1, <2>1, FS_Subset
<1>3. S \subseteq A /\ curNode \in A /\ curNode \notin S
  BY <1>1 DEF NetItemsBefore, Element
<1>4. NetItemsBefore(curNode)' = S \cup {curNode}
  <2>1. \A i \in DOMAIN document : i < curNode + 1 <=> i < curNode \/ i = curNode
    BY <1>1
  <2> QED
    BY <1>1, <2>1 DEF NetItemsBefore, Element
<1>5. IsFiniteSet(S) /\ Cardinality(S) \in Nat
  BY <1>2, <1>3, FS_Subset, FS_CardinalityType
<1>6. Cardinality(S \cup {curNode}) = Cardinality(S) + 1
  BY <1>3, <1>5, FS_AddElement
<1>7. Cardinality(S \cup {curNode}) <= Cardinality(A) /\ Cardinality(A) \in Nat
  BY <1>2, <1>3, FS_Subset, FS_CardinalityType
<1>8. Cardinality(A) <= 2
  BY DocumentsAssumption DEF StateOK
<1>9. netItemIndex = 1 + Cardinality(S)
  BY DEF StateOK
<1> HIDE DEF S, A
<1>10. netItemIndex' = 1 + Cardinality(NetItemsBefore(curNode)')
  <2>1. Cardinality(NetItemsBefore(curNode)') = Cardinality(S) + 1
    BY <1>4, <1>6
  <2>2. netItemIndex' = 1 + (Cardinality(S) + 1)
    BY <1>5, <1>9
  <2> QED
    BY <2>1, <2>2
<1>11. netItemIndex \in 1 .. 2
  BY <1>5, <1>6, <1>7, <1>8, <1>9
<1> QED
  BY <1>10, <1>11

\* A parsing step that leaves the area alone.
LEMMA StateParsed ==
  ASSUME StateOK, NEW tag, Parsing(tag), tag # "NETITEM", curNode' = curNode + 1,
         UNCHANGED <<document, netItemIndex, area, modelList, freeing, build>>
  PROVE  StateOK'
<1>1. /\ curNode + 1 \in 1 .. Len(document) + 1 /\ freeing = "not yet"
  BY ParsingIs
<1>2. netItemIndex' = 1 + Cardinality(NetItemsBefore(curNode)')
  BY OneElementMore
<1> QED
  BY <1>1, <1>2 DEF StateOK

\* A guard: fillInfo() writes bytes of the area.
LEMMA StateGuard ==
  ASSUME StateOK, NEW g \in 1 .. 3, Guard(g)
  PROVE  StateOK'
<1>1. /\ curNode + 1 \in 1 .. Len(document) + 1 /\ freeing = "not yet"
      /\ Element \in ElementRec /\ Element.tag = GuardTag[g]
  BY ParsingIs DEF Guard
<1>2. netItemIndex' = 1 + Cardinality(NetItemsBefore(curNode)')
  <2>1. GuardTag[g] # "NETITEM"
    BY DEF GuardTag
  <2> QED
    BY <2>1, OneElementMore DEF Guard, NextElement
<1>3. Element.fields \in Seq(Value)
  <2>1. Element.fields \in [1 .. 3 -> Value] /\ 3 \in Nat
    BY <1>1, Fields
  <2> QED
    BY <2>1, SeqDef
<1>4. 12 \in Nat /\ 3 * g - 2 \in Nat /\ area.guard \in [1 .. 12 -> Byte]
  <2>1. 12 \in Nat /\ 3 * g - 2 \in Nat
    OBVIOUS
  <2> DEFINE G == [1 .. 12 -> Byte]
             I == [1 .. 2 -> NetRec]
  <2>2. area \in [guard : G, netItem : I, buildList : {1}]
    BY DEF StateOK
  <2> HIDE DEF G, I
  <2>3. area.guard \in G
    BY <2>2
  <2> QED
    BY <2>1, <2>3 DEF G
<1>5. fillInfo(Element.fields, area.guard, 3 * g - 2) \in [1 .. 12 -> Byte]
  <2> DEFINE first == 3 * g - 2
             fields == Element.fields
             bytes == area.guard
  <2> HIDE DEF first, fields, bytes
  <2>1. fields \in Seq(Value) /\ first \in Nat /\ bytes \in [1 .. 12 -> Byte] /\ 12 \in Nat
    BY <1>3, <1>4 DEF first, fields, bytes
  <2>2. fillInfo(fields, bytes, first) \in [1 .. 12 -> Byte]
    BY <2>1, FillOK
  <2> QED
    BY <2>2 DEF first, fields, bytes
<1>6. area' = [area EXCEPT !.guard = fillInfo(Element.fields, area.guard, 3 * g - 2)]
  BY DEF Guard
<1>7. area' \in [guard : [1 .. 12 -> Byte], netItem : [1 .. 2 -> NetRec], buildList : {1}]
  BY <1>5, <1>6 DEF StateOK
<1> QED
  BY <1>1, <1>2, <1>7 DEF StateOK, Guard, NextElement

\* A net item: its place in the area exists.
LEMMA StateNetItem ==
  ASSUME StateOK, NetItem
  PROVE  StateOK'
<1>1. /\ curNode + 1 \in 1 .. Len(document) + 1 /\ freeing = "not yet"
      /\ Element \in ElementRec /\ Element.tag = "NETITEM"
  BY ParsingIs DEF NetItem
<1>2. netItemIndex' = 1 + Cardinality(NetItemsBefore(curNode)') /\ netItemIndex \in 1 .. 2
  BY OneItemMore DEF NetItem, NextElement, NextItem
<1> DEFINE start == Element.netStart
           gw == Element.netGW
           r == [IPID |-> Element.IPID,
                 netStart |-> IF gw # <<0, 0>> /\ gw[2] >= start[2]
                              THEN <<start[1], gw[2]>> ELSE start]
<1>3. Element.IPID \in Byte /\ start \in Byte \X Byte /\ gw \in Byte \X Byte
  BY <1>1, Fields
<1>4. r \in NetRec
  <2> HIDE DEF start, gw
  <2>1. start[1] \in Byte /\ gw[2] \in Byte
    BY <1>3
  <2>2. <<start[1], gw[2]>> \in Byte \X Byte
    BY <2>1
  <2>3. r.netStart \in Byte \X Byte
    BY <1>3, <2>2
  <2> QED
    BY <1>3, <2>3 DEF NetRec
<1>5. area' = [area EXCEPT !.netItem[netItemIndex] = r]
  BY DEF NetItem
<1> HIDE DEF r
<1>6. area' \in [guard : [1 .. 12 -> Byte], netItem : [1 .. 2 -> NetRec], buildList : {1}]
  BY <1>2, <1>4, <1>5 DEF StateOK
<1> QED
  BY <1>1, <1>2, <1>6 DEF StateOK, NetItem, NextElement

\* A step of the parser: what it may allocate is there, and is used up.
LEMMA NeedsNat ==
  ASSUME NEW e \in ElementRec
  PROVE  Needs(e) \in Nat /\ Needs(e) >= 1
<1>1. CASE e.tag = "Modol"
  <2> DEFINE SV == Seq(Value)
  <2>1. e.items \in Seq(SV)
    BY <1>1, Fields
  <2> HIDE DEF SV
  <2>2. Len(e.items) \in Nat
    BY <2>1
  <2> QED
    BY <1>1, <2>2 DEF Needs
<1>2. CASE e.tag # "Modol"
  BY <1>2 DEF Needs
<1> QED
  BY <1>1, <1>2

\* What is left is enough for this element and for those after it.
LEMMA RoomIs ==
  ASSUME StateOK, RoomLeft, NEW tag, Parsing(tag)
  PROVE  \E n \in Nat, k \in Nat :
           /\ Fresh(heap, n) /\ Needs(Element) <= k
           /\ n + k + k * (Len(document) + 1 - (curNode + 1)) <= MaxBlock
           /\ k * (Len(document) + 1 - (curNode + 1)) \in Nat
           /\ \A i \in DOMAIN document : Needs(document[i]) <= k
<1>1. /\ curNode \in DOMAIN document /\ curNode \in Nat /\ freeing = "not yet"
      /\ DOMAIN document = 1 .. Len(document) /\ Len(document) \in Nat
  BY ParsingIs
<1>a. \E k \in Nat, n \in Nat :
        /\ Fresh(heap, n) /\ n + k * (Len(document) + 1 - curNode) <= MaxBlock
        /\ \A i \in DOMAIN document : Needs(document[i]) <= k
  BY <1>1, Zenon DEF RoomLeft
<1>2. PICK k \in Nat, n \in Nat :
        /\ Fresh(heap, n) /\ n + k * (Len(document) + 1 - curNode) <= MaxBlock
        /\ \A i \in DOMAIN document : Needs(document[i]) <= k
  BY <1>a, Zenon
<1> DEFINE d == Len(document) + 1 - (curNode + 1)
<1>3. d \in Nat /\ Len(document) + 1 - curNode = d + 1
  <2> DEFINE L == Len(document)
  <2>1. L \in Nat /\ curNode \in 1 .. L
    BY <1>1
  <2> HIDE DEF L
  <2>2. L + 1 - (curNode + 1) \in Nat /\ L + 1 - curNode = (L + 1 - (curNode + 1)) + 1
    BY <2>1
  <2> QED
    BY <2>2 DEF L
<1> HIDE DEF d
<1>4. k * (d + 1) = k + k * d /\ k * d \in Nat
  <2>1. \A x, y \in Nat : x * (y + 1) = x + x * y /\ x * y \in Nat
    OBVIOUS
  <2> QED
    BY <1>3, <2>1
<1> DEFINE q == k * d
<1>5. n + (k + q) <= MaxBlock /\ q \in Nat
  BY <1>2, <1>3, <1>4
<1> HIDE DEF q
<1>6. n + k + q <= MaxBlock
  BY <1>5, DocumentsAssumption
<1>7. Needs(Element) <= k
  BY <1>1, <1>2 DEF Element
<1> QED
  BY <1>2, <1>5, <1>6, <1>7 DEF q, d

\* There are blocks for this element.
LEMMA RoomFor ==
  ASSUME StateOK, RoomLeft, NEW tag, Parsing(tag)
  PROVE  \E n \in Nat : Fresh(heap, n) /\ n + Needs(Element) <= MaxBlock
<1>1. PICK n \in Nat, k \in Nat :
        /\ Fresh(heap, n) /\ Needs(Element) <= k
        /\ n + k + k * (Len(document) + 1 - (curNode + 1)) <= MaxBlock
        /\ k * (Len(document) + 1 - (curNode + 1)) \in Nat
  BY RoomIs
<1> DEFINE q == k * (Len(document) + 1 - (curNode + 1))
<1>2. n + k + q <= MaxBlock /\ q \in Nat
  BY <1>1
<1> HIDE DEF q
<1>3. Needs(Element) \in Nat
  BY ParsingIs, NeedsNat
<1>4. n + Needs(Element) <= MaxBlock
  BY <1>1, <1>2, <1>3, DocumentsAssumption
<1> QED
  BY <1>1, <1>4

\* An element that takes no more than it needs leaves enough for the others.
LEMMA RoomStep ==
  ASSUME StateOK, RoomLeft, NEW tag, Parsing(tag),
         curNode' = curNode + 1, document' = document,
         \A n \in Nat : Fresh(heap, n) /\ n + Needs(Element) <= MaxBlock =>
           \E d \in 0 .. Needs(Element) : Fresh(heap', n + d)
  PROVE  RoomLeft'
<1>1. PICK n \in Nat, k \in Nat :
        /\ Fresh(heap, n) /\ Needs(Element) <= k
        /\ n + k + k * (Len(document) + 1 - (curNode + 1)) <= MaxBlock
        /\ k * (Len(document) + 1 - (curNode + 1)) \in Nat
        /\ \A i \in DOMAIN document : Needs(document[i]) <= k
  BY RoomIs
<1> DEFINE q == k * (Len(document) + 1 - (curNode + 1))
<1>2. n + k + q <= MaxBlock /\ q \in Nat
  BY <1>1
<1>3. k * (Len(document)' + 1 - curNode') = q
  OBVIOUS
<1> HIDE DEF q
<1>4. Needs(Element) \in Nat
  BY ParsingIs, NeedsNat
<1>5. n + Needs(Element) <= MaxBlock
  BY <1>1, <1>2, <1>4, DocumentsAssumption
<1>6. PICK d \in 0 .. Needs(Element) : Fresh(heap', n + d)
  BY <1>1, <1>5
<1>7. n + d \in Nat /\ (n + d) + q <= MaxBlock
  BY <1>1, <1>2, <1>4, DocumentsAssumption
<1>8. (n + d) + k * (Len(document)' + 1 - curNode') <= MaxBlock
  BY <1>3, <1>7
<1>9. \A i \in DOMAIN document' : Needs(document'[i]) <= k
  BY <1>1
<1> QED
  BY <1>6, <1>7, <1>8, <1>9 DEF RoomLeft

\* A step of the parser that leaves the list of builds alone.
LEMMA HeapGrown ==
  ASSUME StateOK, HeapInv, NEW tag, Parsing(tag), NEW L, Grown(heap, heap', L),
         freeing' = freeing
  PROVE  HeapInv'
<1>1. freeing = "not yet"
  BY ParsingIs
<1>2. 1 \in Lists(heap') /\ 2 \in Lists(heap')
  BY <1>1 DEF HeapInv, Grown, Lists, Alike
<1> QED
  BY <1>1, <1>2 DEF HeapInv, Grown

\* A step that only adds blocks leaves the builds and their models.
LEMMA BuildsGrown ==
  ASSUME StateOK, HeapInv, BuildsOK, NEW tag, Parsing(tag), NEW L, 1 \notin L,
         Grown(heap, heap', L), UNCHANGED <<freeing, build>>
  PROVE  BuildsOK'
<1>1. freeing = "not yet" /\ build = NULL
  BY ParsingIs
<1>2. 1 \in Lists(heap)
  BY <1>1 DEF HeapInv
<1>3. Linked(heap', 1) = Linked(heap, 1) /\ Linked(heap, 1) \subseteq Block
  BY <1>2, LinkedBlocks DEF Grown, HeapInv, HeapOK
<1>4. Builds = Linked(heap, 1) /\ Builds' = Linked(heap', 1)
  BY <1>1 DEF Builds
<1>5. ASSUME NEW b \in Linked(heap, 1)
      PROVE  /\ heap[b].kind = "build" /\ heap[b].model \in Block
             /\ heap'[b].kind = "build" /\ heap'[b].model = heap[b].model
             /\ heap'[b].bytes = heap[b].bytes
             /\ heap'[heap[b].model].kind = "model"
             /\ heap'[heap[b].model].id = heap[heap[b].model].id
  <2>1. heap[b].kind = "build" /\ heap[b].model \in Block /\ heap[heap[b].model].kind = "model"
    BY <1>4 DEF BuildsOK
  <2>2. Alike(heap[b], heap'[b])
    BY <1>3, <2>1 DEF Grown
  <2>3. Alike(heap[heap[b].model], heap'[heap[b].model])
    BY <2>1 DEF Grown
  <2> QED
    BY <2>1, <2>2, <2>3 DEF Alike
<1>6. \A b \in Linked(heap, 1) : heap[heap[b].model].id = MODID(heap[b])
  BY <1>1 DEF BuildsOK
<1>7. \A b, c \in Linked(heap, 1) : heap[b].model = heap[c].model => b = c
  BY <1>4 DEF BuildsOK
<1>8. \A b \in Linked(heap', 1) : heap'[heap'[b].model].id = MODID(heap'[b])
  BY <1>3, <1>5, <1>6 DEF MODID
<1>9. build' = NULL
  BY <1>1
<1>10. \A b \in Builds' : /\ heap'[b].kind = "build" /\ heap'[b].model \in Block
                           /\ heap'[heap'[b].model].kind = "model"
  BY <1>3, <1>4, <1>5
<1>11. \A b, c \in Builds' : heap'[b].model = heap'[c].model => b = c
  BY <1>3, <1>4, <1>5, <1>7
<1> QED
  BY <1>8, <1>9, <1>10, <1>11 DEF BuildsOK

\* A heap that does not change.
LEMMA GrownItself ==
  ASSUME NEW h, HeapOK(h)
  PROVE  Grown(h, h, {})
BY AlikeItself DEF Grown

\* Elements that leave the heap alone.
LEMMA HeapUntouched ==
  ASSUME StateOK, HeapInv, RoomLeft, BuildsOK, NEW tag, Parsing(tag),
         curNode' = curNode + 1, UNCHANGED <<document, heap, freeing, build>>
  PROVE  HeapInv' /\ RoomLeft' /\ BuildsOK'
<1>1. Grown(heap, heap', {})
  BY GrownItself DEF HeapInv
<1>2. HeapInv'
  BY <1>1, HeapGrown
<1>3. BuildsOK'
  <2>1. 1 \notin {}
    OBVIOUS
  <2> QED
    BY <1>1, <2>1, BuildsGrown
<1>4. RoomLeft'
  <2>1. Needs(Element) \in Nat
    BY ParsingIs, NeedsNat
  <2>2. \A n \in Nat : Fresh(heap, n) /\ n + Needs(Element) <= MaxBlock =>
          \E d \in 0 .. Needs(Element) : Fresh(heap', n + d)
    <3> SUFFICES ASSUME NEW n \in Nat, Fresh(heap, n)
                 PROVE  \E d \in 0 .. Needs(Element) : Fresh(heap', n + d)
      OBVIOUS
    <3>1. 0 \in 0 .. Needs(Element) /\ n + 0 = n
      BY <2>1
    <3> QED
      BY <3>1
  <2> QED
    BY <2>2, RoomStep
<1> QED
  BY <1>2, <1>3, <1>4

\* One more model, with the cells of the element.
ModelAdded ==
  Grown(heap, heap', {2}) /\ ModelRead(heap, heap', Element.id, Element.items)

\* Modol keeps the heap in order.
LEMMA HeapModol ==
  ASSUME StateOK, HeapInv, RoomLeft, BuildsOK, Modol
  PROVE  HeapInv' /\ RoomLeft' /\ BuildsOK' /\ (~Element.empty => ModelAdded)
<1>1. /\ Parsing("Modol") /\ curNode' = curNode + 1
      /\ UNCHANGED <<document, freeing, build>> /\ modelList = 2
  BY DEF Modol, NextElement, StateOK
<1>2. CASE Element.empty
  <2>1. heap' = heap
    BY <1>2 DEF Modol
  <2> QED
    BY <1>1, <1>2, <2>1, HeapUntouched
<1>3. CASE ~Element.empty
  <2> DEFINE items == Element.items
             id == Element.id
             k == Len(items)
             h2 == NewModel(heap, id, items)
  <2>1. heap' = h2
    BY <1>1, <1>3 DEF Modol, NewModel
  <2>2. /\ Element \in ElementRec /\ freeing = "not yet" /\ Element.tag = "Modol"
    BY <1>1, ParsingIs
  <2>3. items \in Seq(Seq(Value)) /\ id \in Byte
    BY <2>2, Fields
  <2>4. HeapOK(heap) /\ 2 \in Lists(heap)
    BY <2>2 DEF HeapInv
  <2>5. Needs(Element) = 2 + k /\ Needs(Element) \in Nat
    BY <2>2, NeedsNat DEF Needs
  <2> HIDE DEF items, id, k, h2
  <2>6. ASSUME NEW n \in Nat, Fresh(heap, n), n + Needs(Element) <= MaxBlock
        PROVE  /\ Grown(heap, h2, {2}) /\ Fresh(h2, n + Needs(Element))
               /\ ModelRead(heap, h2, id, items)
    <3>1. n + (2 + Len(items)) <= MaxBlock
      BY <2>5, <2>6 DEF k
    <3> QED
      BY <2>3, <2>4, <2>5, <2>6, <3>1, ModelOK DEF h2, k
  <2>7. Grown(heap, heap', {2})
    BY <1>1, <2>1, <2>6, RoomFor
  <2>8. HeapInv'
    BY <1>1, <2>7, HeapGrown
  <2>9. BuildsOK'
    <3>1. 1 \notin {2}
      OBVIOUS
    <3> QED
      BY <1>1, <2>7, <3>1, BuildsGrown
  <2>10. RoomLeft'
    <3>1. Needs(Element) \in 0 .. Needs(Element)
      BY <2>5
    <3>2. \A n \in Nat : Fresh(heap, n) /\ n + Needs(Element) <= MaxBlock =>
            \E d \in 0 .. Needs(Element) : Fresh(heap', n + d)
      BY <2>1, <2>6, <3>1
    <3> QED
      BY <1>1, <3>2, RoomStep
  <2>11. ModelAdded
    BY <1>1, <2>1, <2>6, RoomFor DEF ModelAdded, id, items
  <2> QED
    BY <2>8, <2>9, <2>10, <2>11
<1> QED
  BY <1>2, <1>3

\* The build that an element is read into.
LEMMA ReadBuildIs ==
  ASSUME NEW e \in ElementRec, e.tag = "BuildList"
  PROVE  /\ ReadBuild(e) \in BuildRec
         /\ \A m \in Block : LET r == [ReadBuild(e) EXCEPT !.model = m] IN
              /\ r \in BuildRec /\ r.bytes = ReadBuild(e).bytes /\ r.model = m
              /\ r.kind = "build"
<1>1. fillInfo(e.fields, Zeros(7), 1) \in [1 .. 7 -> Byte]
  <2> DEFINE fields == e.fields
  <2>1. fields \in Seq(Value) /\ 7 \in Nat /\ 1 \in Nat
    BY Fields
  <2> HIDE DEF fields
  <2>2. fillInfo(fields, Zeros(7), 1) \in [1 .. 7 -> Byte]
    BY <2>1, ZerosOK, FillOK
  <2> QED
    BY <2>2 DEF fields
<1> DEFINE r == ReadBuild(e)
<1>2. r \in BuildRec
  BY <1>1 DEF ReadBuild, BuildRec, Ref
<1> HIDE DEF r
<1>3. ASSUME NEW m \in Block
      PROVE  LET q == [r EXCEPT !.model = m] IN
               q \in BuildRec /\ q.bytes = r.bytes /\ q.model = m /\ q.kind = "build"
  BY <1>2 DEF BuildRec, Ref
<1> QED
  BY <1>2, <1>3 DEF r

\* What a list of builds, and one of models, is.
LEMMA ListedIs ==
  ASSUME HeapInv, NEW l \in Lists(heap), NEW i \in DOMAIN Nodes(heap, l)
  PROVE  Nodes(heap, l)[i] \in Linked(heap, l) /\ Nodes(heap, l)[i] \in Block
         /\ heap[Nodes(heap, l)[i]].kind = KindOf(l)
<1>1. ListOK(heap, l) /\ Linked(heap, l) \subseteq Block
  BY LinkedBlocks DEF HeapInv, HeapOK
<1>2. Nodes(heap, l) \in Seq(Block)
  BY <1>1 DEF ListOK, Chain
<1>3. i \in 1 .. Len(Nodes(heap, l))
  <2> DEFINE s == Nodes(heap, l)
  <2> HIDE DEF s
  <2>1. s \in Seq(Block) /\ i \in DOMAIN s
    BY <1>2 DEF s
  <2>2. i \in 1 .. Len(s)
    BY <2>1
  <2> QED
    BY <2>2 DEF s
<1>4. Nodes(heap, l)[i] \in Linked(heap, l)
  BY <1>3 DEF Linked
<1> QED
  BY <1>1, <1>4 DEF ListOK

\* What is linked is a node, of the kind of its list.
LEMMA LinkedIs ==
  ASSUME HeapInv, NEW l \in Lists(heap), NEW b \in Linked(heap, l)
  PROVE  /\ b \in Block /\ heap[b].kind = KindOf(l)
         /\ \E i \in DOMAIN Nodes(heap, l) : Nodes(heap, l)[i] = b
<1>1. ListOK(heap, l) /\ Linked(heap, l) \subseteq Block
  BY LinkedBlocks DEF HeapInv, HeapOK
<1>2. PICK i \in 1 .. Len(Nodes(heap, l)) : Nodes(heap, l)[i] = b
  BY DEF Linked
<1>3. i \in DOMAIN Nodes(heap, l)
  <2> DEFINE s == Nodes(heap, l)
  <2> HIDE DEF s
  <2>1. s \in Seq(Block) /\ i \in 1 .. Len(s)
    BY <1>1, <1>2 DEF s, ListOK, Chain
  <2>2. i \in DOMAIN s
    BY <2>1
  <2> QED
    BY <2>2 DEF s
<1> QED
  BY <1>1, <1>2, <1>3 DEF ListOK

\* The first of the positions.
LEMMA FirstPosition ==
  ASSUME HeapInv, NEW l \in Lists(heap), NEW S \in SUBSET DOMAIN Nodes(heap, l), S # {}
  PROVE  Min(S) \in S /\ Min(S) \in DOMAIN Nodes(heap, l)
<1>1. Nodes(heap, l) \in Seq(Block)
  BY DEF HeapInv, HeapOK, ListOK, Chain
<1>2. DOMAIN Nodes(heap, l) \subseteq Nat
  <2> DEFINE s == Nodes(heap, l)
  <2> HIDE DEF s
  <2>1. s \in Seq(Block)
    BY <1>1 DEF s
  <2>2. DOMAIN s \subseteq Nat
    BY <2>1
  <2> QED
    BY <2>2 DEF s
<1> QED
  BY <1>2, Least

\* One more building in the first listed build with this MODID.
BuildExtended ==
  \E i \in Listed :
    LET x == Nodes(heap, 1)[i] IN
      /\ x \in Block /\ heap[x] \in BuildRec
      /\ heap'[x] = [heap[x] EXCEPT !.bytes[3] = OneMore(heap[x].bytes[3])]
      /\ \A b \in Block \ {x} : heap'[b] = heap[b]
      /\ \A l \in Lists(heap) : Nodes(heap', l) = Nodes(heap, l)
                                /\ Linked(heap', l) = Linked(heap, l)

\* ExtendBuild changes one byte of a listed build, and frees what it allocated.
LEMMA HeapExtendBuild ==
  ASSUME StateOK, HeapInv, RoomLeft, BuildsOK, ExtendBuild
  PROVE  HeapInv' /\ RoomLeft' /\ BuildsOK' /\ BuildExtended
<1>1. /\ Parsing("BuildList") /\ curNode' = curNode + 1
      /\ UNCHANGED <<document, freeing, build>> /\ area.buildList = 1
  BY DEF ExtendBuild, NextElement, StateOK
<1>2. freeing = "not yet" /\ build = NULL
  BY <1>1, ParsingIs
<1>3. 1 \in Lists(heap)
  BY <1>2 DEF HeapInv
<1> DEFINE S == Listed
           x == Nodes(heap, 1)[Min(S)]
           n == OneMore(heap[x].bytes[3])
<1>4. S \in SUBSET DOMAIN Nodes(heap, 1) /\ S # {}
  BY <1>1 DEF Listed, Positions, ExtendBuild
<1>5. heap' = [heap EXCEPT ![x].bytes[3] = n]
  BY <1>1 DEF ExtendBuild
<1> HIDE DEF S
<1>6. Min(S) \in DOMAIN Nodes(heap, 1) /\ Min(S) \in S
  BY <1>3, <1>4, FirstPosition
<1>7. x \in Linked(heap, 1) /\ x \in Block /\ heap[x].kind = "build"
  <2>1. KindOf(1) = "build"
    BY DEF KindOf
  <2> QED
    BY <1>3, <1>6, <2>1, ListedIs
<1> HIDE DEF x
<1>8. heap \in Heaps
  BY DEF HeapInv, HeapOK
<1>9. heap[x] \in BuildRec
  BY <1>7, <1>8, Kinds DEF Heaps
<1>10. n \in Byte
  <2>1. heap[x].bytes[3] \in 0 .. 255
    BY <1>9 DEF BuildRec, Byte
  <2> DEFINE v == heap[x].bytes[3]
  <2> HIDE DEF v
  <2>2. v \in 0 .. 255
    BY <2>1 DEF v
  <2>3. (v + 1) % 256 \in 0 .. 255
    BY <2>2
  <2> QED
    BY <2>3 DEF v, OneMore, Byte
<1> HIDE DEF n
<1> DEFINE q == [heap[x] EXCEPT !.bytes[3] = n]
<1>11. q \in BuildRec /\ q.next = heap[x].next /\ q.model = heap[x].model
       /\ q.bytes[4] = heap[x].bytes[4] /\ q.kind = "build"
  BY <1>9, <1>10 DEF BuildRec
<1>12. heap' = [heap EXCEPT ![x] = q]
  BY <1>5, <1>7, <1>8 DEF Heaps
<1> HIDE DEF q
<1>13. heap' \in Heaps /\ heap'[x] = q /\ \A b \in Block \ {x} : heap'[b] = heap[b]
  <2>1. q \in BlockRec
    BY <1>11 DEF BlockRec
  <2> QED
    BY <1>7, <1>8, <1>12, <2>1 DEF Heaps
<1>14. /\ HeapOK(heap') /\ Lists(heap') = Lists(heap)
       /\ \A l \in Lists(heap) : Nodes(heap', l) = Nodes(heap, l)
                                 /\ Linked(heap', l) = Linked(heap, l)
  <2>1. HeapOK(heap)
    BY DEF HeapInv
  <2> DEFINE h2 == heap'
  <2> HIDE DEF h2
  <2>2. h2 \in Heaps /\ h2[x] = q /\ \A b \in Block \ {x} : h2[b] = heap[b]
    BY <1>13 DEF h2
  <2>3. /\ HeapOK(h2) /\ Lists(h2) = Lists(heap)
        /\ \A l \in Lists(heap) : Nodes(h2, l) = Nodes(heap, l) /\ Linked(h2, l) = Linked(heap, l)
    BY <1>7, <1>11, <2>1, <2>2, BytesOK
  <2> QED
    BY <2>3 DEF h2
<1>15. HeapInv'
  BY <1>1, <1>14 DEF HeapInv
<1>16. \A b \in Block : heap'[b].kind = heap[b].kind
  BY <1>7, <1>11, <1>13
<1>17. RoomLeft'
  <2>1. Needs(Element) \in Nat
    BY <1>1, ParsingIs, NeedsNat
  <2>2. \A m : Fresh(heap, m) => Fresh(heap', m)
    BY <1>16 DEF Fresh
  <2>3. \A m \in Nat : Fresh(heap, m) /\ m + Needs(Element) <= MaxBlock =>
          \E d \in 0 .. Needs(Element) : Fresh(heap', m + d)
    <3> SUFFICES ASSUME NEW m \in Nat, Fresh(heap, m)
                 PROVE  \E d \in 0 .. Needs(Element) : Fresh(heap', m + d)
      OBVIOUS
    <3>1. 0 \in 0 .. Needs(Element) /\ m + 0 = m
      BY <2>1
    <3> QED
      BY <2>2, <3>1
  <2> QED
    BY <1>1, <2>3, RoomStep
<1>18. BuildsOK'
  <2>1. Builds = Linked(heap, 1) /\ Builds' = Linked(heap, 1)
    BY <1>1, <1>2, <1>3, <1>14 DEF Builds
  <2>2. ASSUME NEW b \in Linked(heap, 1)
        PROVE  /\ heap[b].kind = "build" /\ heap[b].model \in Block
               /\ heap'[b].kind = "build" /\ heap'[b].model = heap[b].model
               /\ MODID(heap'[b]) = MODID(heap[b])
               /\ heap'[heap[b].model] = heap[heap[b].model]
               /\ heap[heap[b].model].kind = "model"
    <3>1. /\ b \in Block /\ heap[b].kind = "build" /\ heap[b].model \in Block
          /\ heap[heap[b].model].kind = "model"
      BY <1>3, <2>1, LinkedIs DEF BuildsOK
    <3>2. heap'[heap[b].model] = heap[heap[b].model]
      BY <1>7, <1>13, <3>1
    <3>3. CASE b = x
      BY <1>11, <1>13, <3>1, <3>2, <3>3 DEF MODID
    <3>4. CASE b # x
      BY <1>13, <3>1, <3>2, <3>4
    <3> QED
      BY <3>3, <3>4
  <2>3. \A b \in Linked(heap, 1) : heap[heap[b].model].id = MODID(heap[b])
    BY <1>2 DEF BuildsOK
  <2>4. \A b, c \in Linked(heap, 1) : heap[b].model = heap[c].model => b = c
    BY <2>1 DEF BuildsOK
  <2>5. \A b \in Linked(heap', 1) : heap'[heap'[b].model].id = MODID(heap'[b])
    BY <1>3, <1>14, <2>2, <2>3
  <2>6. \A b \in Builds' : /\ heap'[b].kind = "build" /\ heap'[b].model \in Block
                           /\ heap'[heap'[b].model].kind = "model"
    BY <2>1, <2>2
  <2>7. \A b, c \in Builds' : heap'[b].model = heap'[c].model => b = c
    BY <2>1, <2>2, <2>4
  <2>8. build' = NULL
    BY <1>1, <1>2
  <2> QED
    BY <2>5, <2>6, <2>7, <2>8 DEF BuildsOK
<1>19. BuildExtended
  <2>1. /\ x \in Block /\ heap[x] \in BuildRec
        /\ heap'[x] = [heap[x] EXCEPT !.bytes[3] = OneMore(heap[x].bytes[3])]
        /\ \A b \in Block \ {x} : heap'[b] = heap[b]
    BY <1>7, <1>9, <1>13 DEF q, n
  <2>2. \A l \in Lists(heap) : Nodes(heap', l) = Nodes(heap, l)
                               /\ Linked(heap', l) = Linked(heap, l)
    BY <1>14
  <2> QED
    BY <1>6, <2>1, <2>2 DEF x, S, BuildExtended
<1> QED
  BY <1>15, <1>17, <1>18, <1>19

\* LoseBuild allocates a build that is in no list.
LEMMA HeapLoseBuild ==
  ASSUME StateOK, HeapInv, RoomLeft, BuildsOK, LoseBuild
  PROVE  HeapInv' /\ RoomLeft' /\ BuildsOK'
<1>1. /\ Parsing("BuildList") /\ curNode' = curNode + 1
      /\ UNCHANGED <<document, freeing, build>>
      /\ heap' = Stored(heap, NewBlock(heap), ReadBuild(Element))
  BY DEF LoseBuild, NextElement, Stored
<1>2. Element \in ElementRec /\ Element.tag = "BuildList"
  BY <1>1, ParsingIs
<1> DEFINE r == ReadBuild(Element)
           h2 == heap'
<1>3. r \in BuildRec \cup CellRecord
  BY <1>2, ReadBuildIs
<1>4. Needs(Element) = 1
  BY <1>2 DEF Needs
<1> HIDE DEF r, h2
<1>5. ASSUME NEW n \in Nat, Fresh(heap, n), n + Needs(Element) <= MaxBlock
      PROVE  OneBlock(heap, h2, n + 1, r)
  <2>1. Room(heap, n)
    <3>1. MaxBlock \in Nat
      BY DocumentsAssumption
    <3>2. n + 1 <= MaxBlock
      BY <1>4, <1>5
    <3>3. n < MaxBlock
      BY <3>1, <3>2
    <3> QED
      BY <1>5, <3>3 DEF Room, HeapInv
  <2>2. NewBlock(heap) = n + 1 /\ OneBlock(heap, Stored(heap, n + 1, r), n + 1, r)
    BY <1>3, <2>1, StoredOK
  <2> QED
    BY <1>1, <2>2 DEF h2, r
<1>6. Grown(heap, h2, {})
  BY <1>1, <1>5, RoomFor DEF OneBlock
<1>7. HeapInv'
  BY <1>1, <1>6, HeapGrown DEF h2
<1>8. BuildsOK'
  <2>1. 1 \notin {}
    OBVIOUS
  <2> QED
    BY <1>1, <1>6, <2>1, BuildsGrown DEF h2
<1>9. RoomLeft'
  <2>1. \A n \in Nat : Fresh(heap, n) /\ n + Needs(Element) <= MaxBlock =>
          \E d \in 0 .. Needs(Element) : Fresh(heap', n + d)
    <3>1. 1 \in 0 .. Needs(Element)
      BY <1>4
    <3> QED
      BY <1>5, <3>1 DEF OneBlock, h2
  <2> QED
    BY <1>1, <2>1, RoomStep
<1> QED
  BY <1>7, <1>8, <1>9

\* The element is read into one listed build more, with a listed model.
BuildAdded ==
  \E x \in Block, m \in Linked(heap, 2) :
    /\ Grown(heap, heap', {1}) /\ Nodes(heap', 1) = Append(Nodes(heap, 1), x)
    /\ heap'[x].kind = "build" /\ heap'[x].bytes = ReadBuild(Element).bytes
    /\ heap'[x].model = m /\ heap[m].id = MODID(ReadBuild(Element))

\* AddBuild: no listed build has the MODID of the new one, so none has its model.
LEMMA HeapAddBuild ==
  ASSUME StateOK, HeapInv, RoomLeft, BuildsOK, AddBuild
  PROVE  HeapInv' /\ RoomLeft' /\ BuildsOK' /\ BuildAdded
<1>1. /\ Parsing("BuildList") /\ curNode' = curNode + 1
      /\ UNCHANGED <<document, freeing, build>> /\ area.buildList = 1 /\ modelList = 2
  BY DEF AddBuild, NextElement, StateOK
<1>2. /\ Element \in ElementRec /\ Element.tag = "BuildList" /\ freeing = "not yet"
      /\ build = NULL
  BY <1>1, ParsingIs
<1>3. 1 \in Lists(heap) /\ 2 \in Lists(heap)
  BY <1>2 DEF HeapInv
<1> DEFINE q == ReadBuild(Element)
           S == Fitting
           m == Nodes(heap, 2)[Min(S)]
           r == [q EXCEPT !.model = m]
           h3 == heap'
<1>4. S \in SUBSET DOMAIN Nodes(heap, 2) /\ S # {}
      /\ \A i \in S : heap[Nodes(heap, 2)[i]].id = MODID(q)
  BY <1>1 DEF Fitting, Positions, AddBuild
<1>5. \A i \in DOMAIN Nodes(heap, 1) : MODID(heap[Nodes(heap, 1)[i]]) # MODID(q)
  BY <1>1 DEF Listed, Positions, AddBuild, NewBuild
<1>6. heap' = InsertLast(Stored(heap, NewBlock(heap), r), 1, NewBlock(heap))
  BY <1>1 DEF AddBuild, Stored
<1> HIDE DEF S
<1>7. Min(S) \in S /\ Min(S) \in DOMAIN Nodes(heap, 2)
  BY <1>3, <1>4, FirstPosition
<1>8. m \in Linked(heap, 2) /\ m \in Block /\ heap[m].kind = "model" /\ heap[m].id = MODID(q)
  <2>1. KindOf(2) = "model"
    BY DEF KindOf
  <2> QED
    BY <1>3, <1>4, <1>7, <2>1, ListedIs
<1> HIDE DEF m
<1>9. r \in BuildRec /\ r.bytes = q.bytes /\ r.model = m /\ r.kind = "build"
  BY <1>2, <1>8, ReadBuildIs
<1> HIDE DEF r, q, h3
<1>10. Needs(Element) = 1
  BY <1>2 DEF Needs
<1> DEFINE Added(n) == /\ Grown(heap, h3, {1}) /\ Fresh(h3, n + 1)
                       /\ n + 1 \in Block /\ heap[n + 1].kind = "free"
                       /\ Linked(h3, 1) = Linked(heap, 1) \cup {n + 1}
                       /\ h3[n + 1].kind = "build" /\ h3[n + 1].bytes = r.bytes
                       /\ h3[n + 1].model = m
                       /\ Nodes(h3, 1) = Append(Nodes(heap, 1), n + 1)
<1>11. ASSUME NEW n \in Nat, Fresh(heap, n), n + Needs(Element) <= MaxBlock
       PROVE  Added(n)
  <2>1. Room(heap, n)
    <3>1. MaxBlock \in Nat
      BY DocumentsAssumption
    <3>2. n + 1 <= MaxBlock
      BY <1>10, <1>11
    <3>3. n < MaxBlock
      BY <3>1, <3>2
    <3> QED
      BY <1>11, <3>3 DEF Room, HeapInv
  <2> DEFINE h2 == Stored(heap, n + 1, r)
  <2>2. NewBlock(heap) = n + 1 /\ OneBlock(heap, h2, n + 1, r)
    BY <1>9, <2>1, StoredOK
  <2>3. h3 = InsertLast(h2, 1, n + 1)
    BY <1>6, <2>2 DEF h3
  <2> HIDE DEF h2
  <2>4. Insertable(h2, 1, n + 1)
    BY <1>3, <1>9, <2>2 DEF OneBlock, Grown, KindOf, Insertable
  <2>5. OneNode(h2, h3, 1, n + 1)
    BY <2>3, <2>4, GrownByOne
  <2>6. Grown(heap, h2, {1})
    BY <2>2, GrownMore DEF OneBlock
  <2>7. Grown(heap, h3, {1})
    BY <2>5, <2>6, GrownOn DEF OneNode, HeapInv
  <2>8. Linked(h2, 1) = Linked(heap, 1) /\ Nodes(h2, 1) = Nodes(heap, 1)
    BY <1>3, <2>2 DEF OneBlock, Grown
  <2>9. Alike(h2[n + 1], h3[n + 1])
    BY <1>9, <2>2, <2>5 DEF OneBlock, OneNode, Grown
  <2> QED
    BY <1>9, <2>2, <2>5, <2>7, <2>8, <2>9 DEF OneBlock, OneNode, Alike
<1> HIDE DEF Added
<1>12. PICK n \in Nat : Fresh(heap, n) /\ n + Needs(Element) <= MaxBlock
  BY <1>1, RoomFor
<1>13. Added(n)
  BY <1>11, <1>12
<1>14. HeapInv'
  BY <1>1, <1>13, HeapGrown DEF h3, Added
<1>15. RoomLeft'
  <2>1. \A k \in Nat : Fresh(heap, k) /\ k + Needs(Element) <= MaxBlock =>
          \E d \in 0 .. Needs(Element) : Fresh(heap', k + d)
    <3>1. 1 \in 0 .. Needs(Element)
      BY <1>10
    <3> QED
      BY <1>11, <3>1 DEF Added, h3
  <2> QED
    BY <1>1, <2>1, RoomStep
<1>16. BuildsOK'
  <2> DEFINE x == n + 1
             A == Linked(heap, 1)
  <2>1. Builds = A /\ Builds' = A \cup {x} /\ Linked(heap', 1) = A \cup {x}
    BY <1>1, <1>2, <1>13 DEF Builds, Added, h3
  <2>2. x \in Block /\ h3[x].kind = "build" /\ h3[x].model = m /\ MODID(h3[x]) = MODID(q)
    BY <1>9, <1>13 DEF Added, MODID
  <2>3. h3[m].kind = "model" /\ h3[m].id = MODID(q)
    BY <1>8, <1>13 DEF Added, Grown, Alike
  <2>4. ASSUME NEW b \in A
        PROVE  /\ b \in Block /\ heap[b].model \in Block /\ heap[b].kind = "build"
               /\ h3[b].kind = "build" /\ h3[b].model = heap[b].model
               /\ MODID(h3[b]) = MODID(heap[b])
               /\ h3[heap[b].model].kind = "model"
               /\ h3[heap[b].model].id = heap[heap[b].model].id
               /\ heap[heap[b].model].id = MODID(heap[b])
               /\ MODID(heap[b]) # MODID(q)
    <3>1. /\ b \in Block /\ heap[b].kind = "build" /\ heap[b].model \in Block
          /\ heap[heap[b].model].kind = "model"
      BY <1>3, <2>1, LinkedIs DEF BuildsOK
    <3>2. Alike(heap[b], h3[b]) /\ Alike(heap[heap[b].model], h3[heap[b].model])
      BY <1>13, <3>1 DEF Added, Grown
    <3>3. heap[heap[b].model].id = MODID(heap[b])
      BY <1>2 DEF BuildsOK
    <3>4. MODID(heap[b]) # MODID(q)
      BY <1>3, <1>5, LinkedIs
    <3> QED
      BY <3>1, <3>2, <3>3, <3>4 DEF Alike, MODID
  <2>5. \A b, c \in A : heap[b].model = heap[c].model => b = c
    BY <2>1 DEF BuildsOK
  <2> HIDE DEF x, A
  <2>6. \A b \in A : heap[b].model # m
    BY <1>8, <2>4
  <2>7. \A b, c \in A \cup {x} : h3[b].model = h3[c].model => b = c
    BY <2>2, <2>4, <2>5, <2>6
  <2>8. \A b \in A \cup {x} : /\ h3[b].kind = "build" /\ h3[b].model \in Block
                              /\ h3[h3[b].model].kind = "model"
                              /\ h3[h3[b].model].id = MODID(h3[b])
    BY <1>8, <2>2, <2>3, <2>4
  <2>9. build' = NULL
    BY <1>1, <1>2
  <2> QED
    BY <2>1, <2>7, <2>8, <2>9 DEF BuildsOK, h3
<1>17. BuildAdded
  <2>1. heap'[n + 1].bytes = q.bytes
    BY <1>9, <1>13 DEF Added, h3
  <2> QED
    BY <1>8, <1>13, <2>1 DEF Added, h3, q, BuildAdded
<1> QED
  BY <1>14, <1>15, <1>16, <1>17

\* The builds that are left keep their models.
LEMMA BuildsStay ==
  ASSUME BuildsOK, Builds' \subseteq Builds, freeing' # "not yet",
         \A b \in Builds' : Alike(heap[b], heap'[b]) /\ heap'[heap[b].model].kind = "model",
         build' # NULL => Isolated(heap', build')
  PROVE  BuildsOK'
<1>1. \A b \in Builds' : /\ heap'[b].kind = "build" /\ heap'[b].model = heap[b].model
                         /\ heap[b].model \in Block
  BY DEF BuildsOK, Alike
<1>2. \A b \in Builds' : /\ heap'[b].kind = "build" /\ heap'[b].model \in Block
                         /\ heap'[heap'[b].model].kind = "model"
  BY <1>1
<1>a. \A b, c \in Builds : heap[b].model = heap[c].model => b = c
  BY DEF BuildsOK
<1>3. \A b, c \in Builds' : heap'[b].model = heap'[c].model => b = c
  BY <1>1, <1>a
<1> QED
  BY <1>2, <1>3 DEF BuildsOK

\* Blocks that are freed.
Freed(h, F) == [b \in Block |-> IF b \in F THEN Free ELSE h[b]]

Freeable(h, F) ==
  /\ HeapOK(h) /\ F \in SUBSET Block
  /\ \A l \in Lists(h) \ F : Linked(h, l) \cap F = {}
  /\ \A m \in Block \ F : h[m].kind = "model" => h[m].cellList \notin F

Without(h, h2, F) ==
  /\ HeapOK(h2) /\ Lists(h2) = Lists(h) \ F
  /\ \A l \in Lists(h2) : Nodes(h2, l) = Nodes(h, l) /\ Linked(h2, l) = Linked(h, l)
  /\ \A b \in Block : Isolated(h, b) => Isolated(h2, b)
  /\ \A b \in Block \ F : h2[b] = h[b]

\* Blocks that no other list and no other model refers to can be freed.
LEMMA FreedOK ==
  ASSUME NEW h, NEW F, Freeable(h, F)
  PROVE  Without(h, Freed(h, F), F)
<1> DEFINE h2 == Freed(h, F)
<1>1. /\ HeapOK(h) /\ F \in SUBSET Block
      /\ \A l \in Lists(h) \ F : Linked(h, l) \cap F = {}
      /\ \A m \in Block \ F : h[m].kind = "model" => h[m].cellList \notin F
  BY DEF Freeable
<1>2. h2 = [b \in Block |-> IF b \in F THEN Free ELSE h[b]]
  BY DEF Freed
<1> HIDE DEF h2
<1>3. /\ HeapOK(h2) /\ Lists(h2) = Lists(h) \ F
      /\ \A l \in Lists(h2) : Nodes(h2, l) = Nodes(h, l) /\ Linked(h2, l) = Linked(h, l)
      /\ \A b \in Block : Isolated(h, b) => Isolated(h2, b)
      /\ \A b \in Block \ F : h2[b] = h[b]
  BY <1>1, <1>2, FreeOK
<1> QED
  BY <1>3 DEF Without, h2

\* A list is in no list, and a model only in that of models.
LEMMA NotLinked ==
  ASSUME NEW h, HeapOK(h), NEW l \in Lists(h), NEW b \in Linked(h, l)
  PROVE  b \in Block /\ h[b].kind = KindOf(l) /\ h[b].kind # "list"
         /\ (h[b].kind = "model" => l = 2)
<1>1. ListOK(h, l) /\ Linked(h, l) \subseteq Block
  BY LinkedBlocks DEF HeapOK
<1> QED
  BY <1>1 DEF ListOK, KindOf

\* free() of one block.
LEMMA OneFreed ==
  ASSUME NEW h \in Heaps, NEW x \in Block
  PROVE  [h EXCEPT ![x] = Free] = Freed(h, {x})
BY DEF Heaps, Freed

\* The list of models, or that of builds, goes.
LEMMA ListFreeable ==
  ASSUME NEW h, HeapOK(h), NEW l \in {1, 2}, l \in Lists(h)
  PROVE  Freeable(h, {l}) /\ l \in Block
<1>1. l \in Block /\ h[l].kind = "list"
  BY DEF Lists
<1>2. \A k \in Lists(h) \ {l} : Linked(h, k) \cap {l} = {}
  BY <1>1, NotLinked
<1>3. \A m \in Block : h[m].kind = "model" => h[m].cellList \notin {l}
  BY DEF HeapOK
<1> QED
  BY <1>1, <1>2, <1>3 DEF Freeable

\* linklist_destroy() of the list of models: its models stay, in no list.
LEMMA HeapEndOfDocument ==
  ASSUME StateOK, HeapInv, RoomLeft, BuildsOK, EndOfDocument
  PROVE  StateOK' /\ HeapInv' /\ RoomLeft' /\ BuildsOK'
<1>1. /\ freeing = "not yet" /\ freeing' = "now" /\ heap' = [heap EXCEPT ![2] = Free]
      /\ curNode = Len(document) + 1 /\ build = NULL /\ build' = NULL
      /\ UNCHANGED <<document, curNode, netItemIndex, area, modelList>>
  BY DEF EndOfDocument, StateOK
<1>2. HeapOK(heap) /\ 2 \in Lists(heap) /\ 1 \in Lists(heap) /\ heap \in Heaps
  BY <1>1 DEF HeapInv, HeapOK
<1>3. Freeable(heap, {2}) /\ 2 \in Block
  BY <1>2, ListFreeable
<1>4. heap' = Freed(heap, {2})
  BY <1>1, <1>2, <1>3, OneFreed
<1>5. Without(heap, heap', {2})
  BY <1>3, <1>4, FreedOK
<1>6. StateOK'
  <2>1. netItemIndex' = 1 + Cardinality(NetItemsBefore(curNode)')
    BY <1>1 DEF StateOK, NetItemsBefore
  <2> QED
    BY <1>1, <2>1 DEF StateOK
<1>a. HeapOK(heap') /\ Lists(heap') = Lists(heap) \ {2} /\ Linked(heap', 1) = Linked(heap, 1)
  <2>1. HeapOK(heap') /\ Lists(heap') = Lists(heap) \ {2}
    BY <1>5 DEF Without
  <2>2. 1 \in Lists(heap')
    BY <1>2, <2>1
  <2> QED
    BY <1>5, <2>1, <2>2 DEF Without
<1>7. HeapInv'
  <2>1. 1 \in Lists(heap') /\ 2 \notin Lists(heap')
    BY <1>2, <1>a
  <2>2. freeing' # "over" /\ freeing' # "not yet"
    BY <1>1
  <2> QED
    BY <1>a, <2>1, <2>2 DEF HeapInv
<1>8. RoomLeft'
  BY <1>1 DEF RoomLeft
<1>9. BuildsOK'
  <2>1. Builds = Linked(heap, 1) /\ Builds' = Linked(heap, 1)
    BY <1>1, <1>a DEF Builds
  <2>2. ASSUME NEW b \in Linked(heap, 1)
        PROVE  Alike(heap[b], heap'[b]) /\ heap'[heap[b].model].kind = "model"
    <3>1. /\ b \in Block /\ heap[b].kind = "build" /\ heap[b].model \in Block
          /\ heap[heap[b].model].kind = "model" /\ heap[2].kind = "list"
      BY <1>2, <2>1, NotLinked DEF BuildsOK, Lists
    <3>2. heap'[b] = heap[b] /\ heap'[heap[b].model] = heap[heap[b].model]
      BY <1>5, <3>1 DEF Without
    <3> QED
      BY <3>1, <3>2, AlikeItself
  <2> QED
    BY <1>1, <2>1, <2>2, BuildsStay
<1> QED
  BY <1>6, <1>7, <1>8, <1>9

\* A step of freeArea() leaves what was parsed.
LEMMA StateFreeing ==
  ASSUME StateOK, freeing = "now", freeing' \in {"now", "over"}, build' \in Ref,
         build' # NULL => freeing' = "now",
         UNCHANGED <<document, curNode, netItemIndex, area, modelList>>
  PROVE  StateOK' /\ RoomLeft'
<1>1. netItemIndex' = 1 + Cardinality(NetItemsBefore(curNode)')
  BY DEF StateOK, NetItemsBefore
<1>2. freeing' \in {"not yet", "now", "over"} /\ freeing' # "not yet"
  OBVIOUS
<1>3. curNode = Len(document) + 1
  BY DEF StateOK
<1>4. StateOK'
  BY <1>1, <1>2, <1>3 DEF StateOK
<1> QED
  BY <1>2, <1>4 DEF RoomLeft

\* linklist_destroy() of the list of builds, which is empty.
LEMMA HeapFreeBuildList ==
  ASSUME StateOK, HeapInv, BuildsOK, FreeBuildList
  PROVE  StateOK' /\ HeapInv' /\ RoomLeft' /\ BuildsOK'
<1>1. /\ freeing = "now" /\ freeing' = "over" /\ heap' = [heap EXCEPT ![1] = Free]
      /\ build = NULL /\ build' = NULL
      /\ UNCHANGED <<document, curNode, netItemIndex, area, modelList>>
  BY DEF FreeBuildList, StateOK
<1>2. HeapOK(heap) /\ 1 \in Lists(heap) /\ 2 \notin Lists(heap) /\ heap \in Heaps
  BY <1>1 DEF HeapInv, HeapOK
<1>3. Freeable(heap, {1}) /\ 1 \in Block
  BY <1>2, ListFreeable
<1>4. heap' = Freed(heap, {1})
  BY <1>1, <1>2, <1>3, OneFreed
<1>5. Without(heap, heap', {1})
  BY <1>3, <1>4, FreedOK
<1>6. StateOK' /\ RoomLeft'
  <2>1. NULL \in Ref
    BY DEF Ref
  <2> QED
    BY <1>1, <2>1, StateFreeing
<1>7. HeapInv'
  BY <1>1, <1>2, <1>5 DEF HeapInv, Without
<1>8. BuildsOK'
  <2>1. Builds' = {}
    BY <1>1 DEF Builds
  <2> QED
    BY <1>1, <2>1 DEF BuildsOK
<1> QED
  BY <1>6, <1>7, <1>8

\* linklist_deleate() of the first build: it is in no list any more.
LEMMA HeapTakeBuild ==
  ASSUME StateOK, HeapInv, BuildsOK, TakeBuild
  PROVE  StateOK' /\ HeapInv' /\ RoomLeft' /\ BuildsOK'
<1>1. /\ freeing = "now" /\ freeing' = "now" /\ build = NULL
      /\ linklist_length(heap, 1) > 0
      /\ build' = linklist_get(heap, 1, 0) /\ heap' = linklist_deleate(heap, 1, 0)
      /\ UNCHANGED <<document, curNode, netItemIndex, area, modelList>>
  BY DEF TakeBuild, StateOK
<1>2. HeapOK(heap) /\ 1 \in Lists(heap) /\ 2 \notin Lists(heap)
  BY <1>1 DEF HeapInv
<1> DEFINE h2 == heap'
           x == Nodes(heap, 1)[1]
           A == Linked(heap, 1)
<1>3. h2 = linklist_deleate(heap, 1, 0)
  BY <1>1
<1> HIDE DEF h2, x, A
<1>4. /\ HeapOK(h2) /\ Lists(h2) = Lists(heap)
      /\ linklist_get(heap, 1, 0) = x /\ Linked(h2, 1) = A \ {x}
      /\ \A b \in Block : Alike(heap[b], h2[b])
      /\ Isolated(h2, x)
  BY <1>1, <1>2, <1>3, RemoveOK DEF x, A
<1>5. x \in A
  <2>1. Nodes(heap, 1) # <<>> /\ ListOK(heap, 1)
    BY <1>1, <1>2, <1>3, RemoveOK DEF HeapOK
  <2> DEFINE s == Nodes(heap, 1)
  <2> HIDE DEF s
  <2>2. s \in Seq(Block) /\ s # <<>>
    BY <2>1 DEF s, ListOK, Chain
  <2>3. 1 \in 1 .. Len(s)
    BY <2>2
  <2> QED
    BY <2>3 DEF s, x, A, Linked
<1>6. \A b \in A : b \in Block
  BY <1>2, NotLinked DEF A
<1>7. build' = x /\ x \in Ref /\ x # NULL
  BY <1>1, <1>4, <1>5, <1>6, BlockOK DEF Ref
<1>8. StateOK' /\ RoomLeft'
  BY <1>1, <1>7, StateFreeing
<1>9. HeapInv'
  BY <1>1, <1>2, <1>4 DEF HeapInv, h2
<1>10. BuildsOK'
  <2>1. Builds = A /\ Builds' = A
    BY <1>1, <1>4, <1>5, <1>7 DEF Builds, A, h2
  <2>2. ASSUME NEW b \in A
        PROVE  Alike(heap[b], h2[b]) /\ h2[heap[b].model].kind = "model"
    <3>1. b \in Block /\ heap[b].model \in Block /\ heap[heap[b].model].kind = "model"
      BY <1>6, <2>1 DEF BuildsOK
    <3> QED
      BY <1>4, <3>1 DEF Alike
  <2> QED
    BY <1>1, <1>4, <1>7, <2>1, <2>2, BuildsStay DEF h2
<1> QED
  BY <1>8, <1>9, <1>10

\* The build that freeArea() is at, its model and the list of its cells.
LEMMA BuildIs ==
  ASSUME StateOK, HeapInv, BuildsOK, build # NULL
  PROVE  /\ freeing = "now" /\ build \in Block /\ heap[build].kind = "build"
         /\ heap[build].model \in Block /\ heap[heap[build].model].kind = "model"
         /\ heap[heap[build].model].cellList \in Lists(heap) \ {1, 2}
         /\ 1 \in Lists(heap) /\ 2 \notin Lists(heap) /\ HeapOK(heap)
         /\ Isolated(heap, build) /\ Builds = Linked(heap, 1) \cup {build}
<1>1. freeing = "now" /\ build \in Block
  BY DEF StateOK, Ref
<1>2. Builds = Linked(heap, 1) \cup {build}
  BY <1>1 DEF Builds
<1>3. /\ heap[build].kind = "build" /\ heap[build].model \in Block
      /\ heap[heap[build].model].kind = "model" /\ Isolated(heap, build)
  BY <1>2 DEF BuildsOK
<1>4. HeapOK(heap) /\ 1 \in Lists(heap) /\ 2 \notin Lists(heap)
  BY <1>1 DEF HeapInv
<1>5. heap[heap[build].model].cellList \in Lists(heap) \ {1, 2}
  BY <1>3, <1>4 DEF HeapOK
<1> QED
  BY <1>1, <1>2, <1>3, <1>4, <1>5

\* linklist_deleate() and free() of the first cell.
LEMMA HeapFreeCell ==
  ASSUME StateOK, HeapInv, BuildsOK, FreeCell
  PROVE  StateOK' /\ HeapInv' /\ RoomLeft' /\ BuildsOK'
<1> DEFINE l == heap[heap[build].model].cellList
           h2 == linklist_deleate(heap, l, 0)
           x == Nodes(heap, l)[1]
           h3 == heap'
<1>1. /\ build # NULL /\ linklist_length(heap, l) > 0
      /\ heap' = [h2 EXCEPT ![linklist_get(heap, l, 0)] = Free]
      /\ UNCHANGED <<document, curNode, netItemIndex, area, modelList, freeing, build>>
  BY DEF FreeCell, CellsLeft
<1>2. /\ freeing = "now" /\ l \in Lists(heap) \ {1, 2} /\ HeapOK(heap)
      /\ 1 \in Lists(heap) /\ 2 \notin Lists(heap) /\ build \in Block
      /\ Isolated(heap, build) /\ Builds = Linked(heap, 1) \cup {build}
  BY <1>1, BuildIs
<1>3. h2 = linklist_deleate(heap, l, 0)
  OBVIOUS
<1> HIDE DEF h2, l, x, h3
<1>4. /\ HeapOK(h2) /\ Lists(h2) = Lists(heap)
      /\ linklist_get(heap, l, 0) = x /\ Nodes(heap, l) # <<>>
      /\ Linked(h2, l) = Linked(heap, l) \ {x}
      /\ \A k \in Lists(heap) \ {l} : Nodes(h2, k) = Nodes(heap, k)
                                      /\ Linked(h2, k) = Linked(heap, k)
      /\ \A b \in Block : Alike(heap[b], h2[b])
      /\ Isolated(h2, x)
  BY <1>1, <1>2, <1>3, RemoveOK DEF x
<1>5. x \in Block /\ heap[x].kind = "cell" /\ h2[x].kind = "cell"
  <2>1. ListOK(heap, l)
    BY <1>2 DEF HeapOK
  <2> DEFINE s == Nodes(heap, l)
  <2> HIDE DEF s
  <2>2. s \in Seq(Block) /\ s # <<>>
    BY <1>4, <2>1 DEF s, ListOK, Chain
  <2>3. 1 \in 1 .. Len(s)
    BY <2>2
  <2>4. x \in Linked(heap, l)
    BY <2>3 DEF s, x, Linked
  <2>5. x \in Block /\ heap[x].kind = "cell"
    BY <1>2, <2>4, NotLinked DEF KindOf
  <2> QED
    BY <1>4, <2>5 DEF Alike
<1>6. Freeable(h2, {x})
  <2>1. \A k \in Lists(h2) \ {x} : Linked(h2, k) \cap {x} = {}
    BY <1>4 DEF Isolated
  <2>2. \A m \in Block : h2[m].kind = "model" => h2[m].cellList \notin {x}
    BY <1>4, <1>5 DEF HeapOK, Lists
  <2> QED
    BY <1>4, <1>5, <2>1, <2>2 DEF Freeable
<1>7. h3 = Freed(h2, {x})
  <2>1. h2 \in Heaps
    BY <1>4 DEF HeapOK
  <2> QED
    BY <1>1, <1>4, <1>5, <2>1, OneFreed DEF h3
<1>8. Without(h2, h3, {x})
  BY <1>6, <1>7, FreedOK
<1>9. Lists(h3) = Lists(heap) /\ HeapOK(h3)
  BY <1>4, <1>5, <1>8 DEF Without, Lists
<1>10. Linked(h3, 1) = Linked(heap, 1) /\ Isolated(h3, build)
  <2>1. Linked(h2, 1) = Linked(heap, 1)
    BY <1>2, <1>4
  <2>2. Linked(h3, 1) = Linked(h2, 1)
    BY <1>2, <1>8, <1>9 DEF Without
  <2>3. Isolated(h2, build)
    BY <1>2, <1>4 DEF Isolated
  <2> QED
    BY <1>2, <1>8, <2>1, <2>2, <2>3 DEF Without
<1>11. StateOK' /\ RoomLeft'
  <2>1. build' \in Ref
    BY <1>1 DEF StateOK
  <2> QED
    BY <1>1, <1>2, <2>1, StateFreeing
<1>12. HeapInv'
  <2>1. 1 \in Lists(h3) /\ 2 \notin Lists(h3)
    BY <1>2, <1>9
  <2>2. freeing' # "over" /\ freeing' # "not yet"
    BY <1>1, <1>2
  <2> QED
    BY <1>9, <2>1, <2>2 DEF HeapInv, h3
<1>13. BuildsOK'
  <2>1. Builds' = Builds
    BY <1>1, <1>2, <1>10 DEF Builds, h3
  <2>2. ASSUME NEW b \in Builds
        PROVE  Alike(heap[b], h3[b]) /\ h3[heap[b].model].kind = "model"
    <3>1. /\ heap[b].kind = "build" /\ heap[b].model \in Block
          /\ heap[heap[b].model].kind = "model" /\ b \in Block
      BY <1>2, NotLinked DEF BuildsOK
    <3>2. h3[b] = h2[b] /\ h3[heap[b].model] = h2[heap[b].model]
      BY <1>5, <1>8, <3>1 DEF Without
    <3> QED
      BY <1>4, <3>1, <3>2 DEF Alike
  <2> QED
    BY <1>1, <1>2, <1>10, <2>1, <2>2, BuildsStay DEF h3
<1> QED
  BY <1>11, <1>12, <1>13

\* A build goes with its model and the empty list of cells: no other build has them.
LEMMA HeapFreeModel ==
  ASSUME StateOK, HeapInv, BuildsOK, FreeModel
  PROVE  StateOK' /\ HeapInv' /\ RoomLeft' /\ BuildsOK'
<1> DEFINE m == heap[build].model
           l == heap[m].cellList
           F == {build, m, l}
           h3 == heap'
<1>1. /\ build # NULL /\ build' = NULL
      /\ heap' = [[heap EXCEPT ![l] = Free] EXCEPT ![m] = Free, ![build] = Free]
      /\ UNCHANGED <<document, curNode, netItemIndex, area, modelList, freeing>>
  BY DEF FreeModel, CellListGone
<1>2. /\ freeing = "now" /\ l \in Lists(heap) \ {1, 2} /\ HeapOK(heap)
      /\ 1 \in Lists(heap) /\ 2 \notin Lists(heap) /\ build \in Block
      /\ heap[build].kind = "build" /\ m \in Block /\ heap[m].kind = "model"
      /\ Isolated(heap, build) /\ Builds = Linked(heap, 1) \cup {build}
  BY <1>1, BuildIs
<1>3. l \in Block /\ heap[l].kind = "list" /\ heap \in Heaps
  BY <1>2 DEF Lists, HeapOK
<1>4. \A b \in Block : heap[b].kind = "model" /\ heap[b].cellList = l => b = m
  BY <1>2 DEF HeapOK
<1> HIDE DEF m, l, h3
<1>5. Freeable(heap, F)
  <2>1. ASSUME NEW k \in Lists(heap) PROVE Linked(heap, k) \cap F = {}
    <3>1. build \notin Linked(heap, k)
      BY <1>2 DEF Isolated
    <3>2. l \notin Linked(heap, k)
      BY <1>2, <1>3, NotLinked
    <3>3. m \notin Linked(heap, k)
      BY <1>2, NotLinked
    <3> QED
      BY <3>1, <3>2, <3>3
  <2>2. ASSUME NEW b \in Block \ F, heap[b].kind = "model" PROVE heap[b].cellList \notin F
    <3>1. heap[b].cellList # l
      BY <1>4, <2>2
    <3>2. heap[heap[b].cellList].kind = "list"
      BY <1>2, <2>2 DEF HeapOK, Lists
    <3> QED
      BY <1>2, <3>1, <3>2
  <2> QED
    BY <1>2, <1>3, <2>1, <2>2 DEF Freeable
<1>6. h3 = Freed(heap, F)
  <2>1. [[heap EXCEPT ![l] = Free] EXCEPT ![m] = Free, ![build] = Free] = Freed(heap, F)
    BY <1>2, <1>3 DEF Heaps, Freed
  <2> QED
    BY <1>1, <2>1 DEF h3
<1> HIDE DEF F
<1>7. Without(heap, h3, F)
  BY <1>5, <1>6, FreedOK
<1>8. 1 \in Lists(h3) /\ 2 \notin Lists(h3) /\ HeapOK(h3)
  <2>1. 1 \notin F
    BY <1>2 DEF F, Lists
  <2> QED
    BY <1>2, <1>7, <2>1 DEF Without
<1>9. Linked(h3, 1) = Linked(heap, 1)
  BY <1>7, <1>8 DEF Without
<1>10. StateOK' /\ RoomLeft'
  <2>1. build' \in Ref
    BY <1>1 DEF Ref
  <2> QED
    BY <1>1, <1>2, <2>1, StateFreeing
<1>11. HeapInv'
  <2>1. freeing' # "over" /\ freeing' # "not yet"
    BY <1>1, <1>2
  <2> QED
    BY <1>8, <2>1 DEF HeapInv, h3
<1>12. BuildsOK'
  <2>1. Builds' = Linked(heap, 1)
    BY <1>1, <1>2, <1>9 DEF Builds, h3
  <2>2. ASSUME NEW b \in Linked(heap, 1)
        PROVE  Alike(heap[b], h3[b]) /\ h3[heap[b].model].kind = "model"
    <3>1. /\ heap[b].kind = "build" /\ heap[b].model \in Block
          /\ heap[heap[b].model].kind = "model" /\ b \in Block /\ b # build
      BY <1>2, NotLinked DEF BuildsOK, Isolated
    <3>2. heap[b].model # m
      BY <1>2, <3>1 DEF BuildsOK, m
    <3>3. b \notin F /\ heap[b].model \notin F
      BY <1>2, <1>3, <3>1, <3>2 DEF F
    <3>4. h3[b] = heap[b] /\ h3[heap[b].model] = heap[heap[b].model]
      BY <1>7, <3>1, <3>3 DEF Without
    <3> QED
      BY <3>1, <3>4, AlikeItself
  <2> QED
    BY <1>1, <1>2, <2>1, <2>2, BuildsStay DEF h3
<1> QED
  BY <1>10, <1>11, <1>12

\* Nothing of a guard is read, and nothing of the guards changes.
LEMMA GuardsStay ==
  ASSUME GuardsInv, GuardsAsWritten, area'.guard = area.guard, document' = document,
         \A g \in 1 .. 3 : \A i \in Elements(GuardTag[g]) : i < curNode' <=> i < curNode
  PROVE  GuardsInv' /\ GuardsAsWritten'
<1>1. GuardsInOrder' = GuardsInOrder /\ \A tag : Elements(tag)' = Elements(tag)
  BY DEF GuardsInOrder, Elements
<1>2. {MANAGE, AREAGATE, GUARD} = 1 .. 3
  BY DEF MANAGE, AREAGATE, GUARD
<1>3. GuardsInv'
  <2> SUFFICES ASSUME GuardsInOrder', NEW j \in 1 .. 12,
                      \A g \in 1 .. 3 : \A i \in Elements(GuardTag[g])' : i < curNode' => j > 3 * g
               PROVE  area'.guard[j] = 0
    BY DEF GuardsInv, ZerosBehind
  <2>1. \A g \in 1 .. 3 : \A i \in Elements(GuardTag[g]) : i < curNode => j > 3 * g
    BY <1>1
  <2>2. area.guard[j] = 0
    BY <1>1, <2>1 DEF GuardsInv, ZerosBehind
  <2> QED
    BY <2>2
<1>4. GuardsAsWritten'
  <2> SUFFICES ASSUME GuardsInOrder', NEW g \in 1 .. 3, NEW k \in 1 .. 3,
                      NEW i \in Elements(GuardTag[g])', i < curNode'
               PROVE  area'.guard[3 * (g - 1) + k] = Written(document'[i].fields[k])
    BY <1>2 DEF GuardsAsWritten
  <2>1. i \in Elements(GuardTag[g]) /\ i < curNode /\ GuardsInOrder
    BY <1>1
  <2>2. area.guard[3 * (g - 1) + k] = Written(document[i].fields[k])
    BY <1>2, <2>1 DEF GuardsAsWritten
  <2> QED
    BY <2>2
<1> QED
  BY <1>3, <1>4

\* An element that is no guard.
LEMMA GuardsPassed ==
  ASSUME StateOK, GuardsInv, GuardsAsWritten, NEW tag, Parsing(tag),
         \A g \in 1 .. 3 : GuardTag[g] # tag, area'.guard = area.guard, document' = document,
         curNode' = curNode + 1
  PROVE  GuardsInv' /\ GuardsAsWritten'
<1>1. curNode \in Nat /\ Element.tag = tag /\ DOMAIN document \subseteq Nat
  <2>1. DOMAIN document = 1 .. Len(document) /\ Len(document) \in Nat
    BY ParsingIs
  <2>2. DOMAIN document \subseteq Nat
    BY <2>1
  <2> QED
    BY <2>2, ParsingIs
<1>2. \A g \in 1 .. 3 : \A i \in Elements(GuardTag[g]) : i < curNode' <=> i < curNode
  <2> SUFFICES ASSUME NEW g \in 1 .. 3, NEW i \in Elements(GuardTag[g])
               PROVE  i < curNode' <=> i < curNode
    OBVIOUS
  <2>1. i \in Nat /\ i # curNode
    BY <1>1 DEF Elements, Element
  <2> QED
    BY <1>1, <2>1
<1> QED
  BY <1>1, <1>2, GuardsStay

\* What precedes a guard in a document in order, and what it writes.
LEMMA GuardOrder ==
  ASSUME StateOK, NEW g \in 1 .. 3, Parsing(GuardTag[g]), GuardsInOrder
  PROVE  /\ curNode \in Elements(GuardTag[g])
         /\ \A k \in 1 .. 3 : \A i \in Elements(GuardTag[k]) :
              i < curNode + 1 <=> i < curNode \/ i = curNode
         /\ \A k \in 1 .. 3 : \A i \in Elements(GuardTag[k]) : i < curNode => k < g
         /\ \A k \in 1 .. 3 : curNode \in Elements(GuardTag[k]) => k = g
         /\ Element.fields \in [1 .. 3 -> Value] /\ Element = document[curNode]
         /\ \A k \in 1 .. 3 : Element.fields[k] # Blank
<1>1. /\ curNode \in DOMAIN document /\ curNode \in Nat /\ Element.tag = GuardTag[g]
      /\ DOMAIN document \subseteq Nat /\ Element \in ElementRec
  <2>1. DOMAIN document = 1 .. Len(document) /\ Len(document) \in Nat
    BY ParsingIs
  <2>2. DOMAIN document \subseteq Nat
    BY <2>1
  <2> QED
    BY <2>2, ParsingIs
<1>2. {MANAGE, AREAGATE, GUARD} = 1 .. 3
  BY DEF MANAGE, AREAGATE, GUARD
<1>3. curNode \in Elements(GuardTag[g]) /\ Element = document[curNode]
  BY <1>1 DEF Elements, Element
<1>4. \A k \in 1 .. 3 : \A i \in Elements(GuardTag[k]) : i \in Nat
  BY <1>1 DEF Elements
<1>5. \A k \in 1 .. 3 : \A i \in Elements(GuardTag[k]) : i < curNode => k < g
  BY <1>2, <1>3 DEF GuardsInOrder
<1>6. \A k \in 1 .. 3 : curNode \in Elements(GuardTag[k]) => k = g
  <2> SUFFICES ASSUME NEW k \in 1 .. 3, GuardTag[k] = GuardTag[g] PROVE k = g
    BY <1>1 DEF Elements, Element
  <2> QED
    BY DEF GuardTag
<1>7. Element.fields \in [1 .. 3 -> Value]
  BY <1>1, Fields
<1>8. Blank \notin Range(Element.fields)
  BY <1>2, <1>3 DEF GuardsInOrder
<1>9. \A k \in 1 .. 3 : Element.fields[k] # Blank
  BY <1>7, <1>8 DEF Range
<1> QED
  BY <1>1, <1>3, <1>4, <1>5, <1>6, <1>7, <1>9

\* A guard is read: its fields are stored behind those of the guards before it, and the
\* zeros stored with them fall on bytes that are 0.
LEMMA GuardsRead ==
  ASSUME StateOK, GuardsInv, GuardsAsWritten, NEW g \in 1 .. 3, Guard(g)
  PROVE  GuardsInv' /\ GuardsAsWritten'
<1>1. /\ Parsing(GuardTag[g]) /\ curNode' = curNode + 1 /\ document' = document
      /\ area' = [area EXCEPT !.guard = fillInfo(Element.fields, area.guard, 3 * g - 2)]
  BY DEF Guard, NextElement
<1> DEFINE bytes == area.guard
           fields == Element.fields
           r == fillInfo(fields, bytes, 3 * g - 2)
<1>2. bytes \in [1 .. 12 -> Byte] /\ area'.guard = r
  <2> DEFINE G == [1 .. 12 -> Byte]
             I == [1 .. 2 -> NetRec]
  <2>1. area \in [guard : G, netItem : I, buildList : {1}]
    BY DEF StateOK
  <2> HIDE DEF G, I, r
  <2>2. area' = [area EXCEPT !.guard = r]
    BY <1>1 DEF r
  <2>3. area.guard \in G /\ area'.guard = r
    BY <2>1, <2>2
  <2> QED
    BY <2>3 DEF G
<1>3. GuardsInOrder' = GuardsInOrder /\ \A tag : Elements(tag)' = Elements(tag)
  BY <1>1 DEF GuardsInOrder, Elements
<1>4. {MANAGE, AREAGATE, GUARD} = 1 .. 3
  BY DEF MANAGE, AREAGATE, GUARD
<1> SUFFICES ASSUME GuardsInOrder PROVE GuardsInv' /\ GuardsAsWritten'
  BY <1>3 DEF GuardsInv, GuardsAsWritten
<1>5. /\ curNode \in Elements(GuardTag[g])
      /\ \A k \in 1 .. 3 : \A i \in Elements(GuardTag[k]) :
           i < curNode + 1 <=> i < curNode \/ i = curNode
      /\ \A k \in 1 .. 3 : \A i \in Elements(GuardTag[k]) : i < curNode => k < g
      /\ \A k \in 1 .. 3 : curNode \in Elements(GuardTag[k]) => k = g
      /\ fields \in [1 .. 3 -> Value] /\ Element = document[curNode]
      /\ \A k \in 1 .. 3 : fields[k] # Blank
  BY <1>1, GuardOrder
<1>6. \A j \in 1 .. 12 : j > 3 * g - 3 => bytes[j] = 0
  <2> SUFFICES ASSUME NEW j \in 1 .. 12, j > 3 * g - 3 PROVE bytes[j] = 0
    OBVIOUS
  <2>1. \A k \in 1 .. 3 : \A i \in Elements(GuardTag[k]) : i < curNode => j > 3 * k
    <3> SUFFICES ASSUME NEW k \in 1 .. 3, k < g PROVE j > 3 * k
      BY <1>5
    <3> QED
      OBVIOUS
  <2> QED
    BY <2>1 DEF GuardsInv, ZerosBehind
<1> HIDE DEF bytes, fields
<1>7. /\ \A j \in 1 .. 12 : j <= 3 * g - 3 => r[j] = bytes[j]
      /\ \A k \in 1 .. 3 : r[3 * (g - 1) + k] = Written(fields[k])
      /\ \A j \in 1 .. 12 : j > 3 * g => r[j] = 0
  BY <1>2, <1>5, <1>6, GuardFill
<1> HIDE DEF r
<1>8. GuardsInv'
  <2> SUFFICES ASSUME NEW j \in 1 .. 12,
                      \A k \in 1 .. 3 : \A i \in Elements(GuardTag[k])' : i < curNode' => j > 3 * k
               PROVE  area'.guard[j] = 0
    BY DEF GuardsInv, ZerosBehind
  <2>1. curNode \in Elements(GuardTag[g])' /\ curNode < curNode'
    BY <1>1, <1>3, <1>5
  <2>2. j > 3 * g
    BY <2>1
  <2> QED
    BY <1>2, <1>7, <2>2
<1>9. GuardsAsWritten'
  <2> SUFFICES ASSUME NEW k \in 1 .. 3, NEW p \in 1 .. 3,
                      NEW i \in Elements(GuardTag[k])', i < curNode'
               PROVE  area'.guard[3 * (k - 1) + p] = Written(document'[i].fields[p])
    BY <1>4 DEF GuardsAsWritten
  <2>1. i \in Elements(GuardTag[k]) /\ (i < curNode \/ i = curNode)
    BY <1>1, <1>3, <1>5
  <2>2. CASE i = curNode
    <3>1. k = g /\ document'[i].fields = fields
      BY <1>1, <1>5, <2>1, <2>2 DEF fields
    <3> QED
      BY <1>2, <1>7, <3>1
  <2>3. CASE i < curNode
    <3>1. k < g /\ 3 * (k - 1) + p \in 1 .. 12 /\ 3 * (k - 1) + p <= 3 * g - 3
      <4>1. k < g
        BY <1>5, <2>1, <2>3
      <4> QED
        BY <4>1
    <3>2. bytes[3 * (k - 1) + p] = Written(document[i].fields[p])
      BY <1>4, <2>1, <2>3 DEF GuardsAsWritten, bytes
    <3> QED
      BY <1>1, <1>2, <1>7, <3>1, <3>2
  <2> QED
    BY <2>1, <2>2, <2>3
<1> QED
  BY <1>8, <1>9

Inv == StateOK /\ HeapInv /\ RoomLeft /\ BuildsOK /\ GuardsInv /\ GuardsAsWritten

\* At first nothing is read.
LEMMA InitState ==
  ASSUME Init
  PROVE  StateOK /\ GuardsInv /\ GuardsAsWritten /\ MaxBlock \in Nat /\ MaxBlock >= 2
<1>1. document \in Documents /\ curNode = 1 /\ freeing = "not yet" /\ build = NULL
      /\ modelList = 2 /\ netItemIndex = 1
  BY DEF Init
<1>2. Len(document) \in Nat /\ DOMAIN document = 1 .. Len(document)
  <2> DEFINE ER == ElementRec
  <2>1. document \in Seq(ER)
    BY <1>1, DocumentsAssumption
  <2> HIDE DEF ER
  <2> QED
    BY <2>1
<1>e. \A i \in DOMAIN document : ~(i < curNode)
  <2> DEFINE n == Len(document)
  <2>1. n \in Nat /\ DOMAIN document = 1 .. n /\ curNode = 1
    BY <1>1, <1>2
  <2> HIDE DEF n
  <2>2. \A i \in 1 .. n : ~(i < 1)
    BY <2>1
  <2> QED
    BY <2>1, <2>2
<1>3. MaxBlock \in Nat /\ MaxBlock >= 2
  <2>1. PICK k \in 1 .. MaxBlock : 2 + k * Len(document) <= MaxBlock
    BY <1>1, DocumentsAssumption
  <2>2. k \in Nat /\ MaxBlock \in Nat
    BY DocumentsAssumption
  <2>3. \A x, y \in Nat : x * y \in Nat
    OBVIOUS
  <2>4. k * Len(document) \in Nat
    BY <1>2, <2>2, <2>3
  <2> DEFINE q == k * Len(document)
  <2>5. 2 + q <= MaxBlock /\ q \in Nat
    BY <2>1, <2>4
  <2> HIDE DEF q
  <2> QED
    BY <2>2, <2>5
<1>4. netItemIndex = 1 + Cardinality(NetItemsBefore(curNode))
  <2>1. \A i \in DOMAIN document : ~(i < curNode)
    BY <1>e
  <2>3. NetItemsBefore(curNode) = {}
    BY <2>1 DEF NetItemsBefore
  <2>2. Cardinality({}) = 0
    BY FS_EmptySet
  <2>4. Cardinality(NetItemsBefore(curNode)) = 0
    BY <2>2, <2>3
  <2>5. netItemIndex = 1
    BY <1>1
  <2> HIDE DEF NetItemsBefore
  <2> QED
    BY <2>4, <2>5
<1>5. /\ area = [guard |-> Zeros(12), netItem |-> <<NoNetItem, NoNetItem>>, buildList |-> 1]
      /\ area.guard = Zeros(12)
  BY DEF Init
<1>6. area \in [guard : [1 .. 12 -> Byte], netItem : [1 .. 2 -> NetRec], buildList : {1}]
  <2>1. Zeros(12) \in [1 .. 12 -> Byte]
    <3>1. 12 \in Nat
      OBVIOUS
    <3> QED
      BY <3>1, ZerosOK
  <2>2. NoNetItem \in NetRec
    BY DEF NoNetItem, NetRec, Byte
  <2> HIDE DEF NoNetItem
  <2>3. <<NoNetItem, NoNetItem>> \in [1 .. 2 -> NetRec]
    BY <2>2
  <2> QED
    BY <1>5, <2>1, <2>3
<1>7. StateOK
  <2>1. curNode \in 1 .. Len(document) + 1
    <3> DEFINE n == Len(document)
    <3>1. n \in Nat /\ curNode = 1
      BY <1>1, <1>2
    <3> HIDE DEF n
    <3>2. 1 \in 1 .. n + 1
      BY <3>1
    <3> QED
      BY <3>1, <3>2 DEF n
  <2>2. freeing = "not yet" /\ build = NULL /\ build \in Ref
    BY <1>1 DEF Ref
  <2> QED
    BY <1>1, <1>4, <1>6, <2>1, <2>2, Zenon DEF StateOK
<1>8. GuardsInv
  <2>1. \A j \in 1 .. 12 : area.guard[j] = 0
    BY <1>5 DEF Zeros
  <2> QED
    BY <2>1 DEF GuardsInv, ZerosBehind
<1>9. GuardsAsWritten
  <2>1. \A tag : \A i \in Elements(tag) : ~(i < curNode)
    BY <1>e DEF Elements
  <2> QED
    BY <2>1 DEF GuardsAsWritten
<1> QED
  BY <1>3, <1>7, <1>8, <1>9

\* At first there are two empty lists.
LEMMA InitHeap ==
  ASSUME Init
  PROVE  HeapInv /\ RoomLeft /\ BuildsOK
<1>1. MaxBlock \in Nat /\ MaxBlock >= 2 /\ StateOK
  BY InitState
<1>2. heap = [b \in Block |-> IF b <= 2 THEN linklist_create ELSE Free]
      /\ freeing = "not yet" /\ build = NULL /\ curNode = 1 /\ document \in Documents
  BY DEF Init
<1>3. 1 \in Block /\ 2 \in Block /\ \A b \in Block : b \in Nat /\ (b <= 2 <=> b \in {1, 2})
  BY <1>1 DEF Block
<1>4. /\ linklist_create \in BlockRec /\ linklist_create.kind = "list"
      /\ linklist_create.length = 0 /\ linklist_create.next = NULL
      /\ Free \in BlockRec /\ Free.kind = "free"
  BY DEF linklist_create, BlockRec, ListRec, Ref, Free
<1>5. heap \in Heaps
  <2>1. \A b \in Block : (IF b <= 2 THEN linklist_create ELSE Free) \in BlockRec
    BY <1>4
  <2> QED
    BY <1>2, <2>1 DEF Heaps
<1>6. heap[1] = linklist_create /\ heap[2] = linklist_create
      /\ \A b \in Block \ {1, 2} : heap[b] = Free
  BY <1>2, <1>3
<1>7. Lists(heap) = {1, 2}
  BY <1>3, <1>4, <1>6 DEF Lists
<1>8. \A l \in Lists(heap) : ListOK(heap, l) /\ Linked(heap, l) = {}
  BY <1>4, <1>6, <1>7, EmptyList
<1>9. \A b \in Block : heap[b].kind \in {"list", "free"}
  BY <1>4, <1>6
<1>10. HeapOK(heap)
  BY <1>5, <1>8, <1>9 DEF HeapOK
<1>11. HeapInv
  BY <1>2, <1>7, <1>10 DEF HeapInv
<1>12. RoomLeft
  <2>1. Fresh(heap, 2)
    BY <1>3, <1>4, <1>6 DEF Fresh
  <2>2. PICK k \in 1 .. MaxBlock :
          2 + k * Len(document) <= MaxBlock /\ \A i \in DOMAIN document : Needs(document[i]) <= k
    BY <1>2, DocumentsAssumption
  <2>3. Len(document) + 1 - curNode = Len(document)
    <3> DEFINE n == Len(document)
    <3>1. n \in Nat
      <4> DEFINE ER == ElementRec
      <4>1. document \in Seq(ER)
        BY <1>2, DocumentsAssumption
      <4> HIDE DEF ER
      <4> QED
        BY <4>1
    <3> HIDE DEF n
    <3>2. n + 1 - 1 = n
      BY <3>1
    <3> QED
      BY <1>2, <3>2 DEF n
  <2>4. k \in Nat /\ 2 \in Nat
    BY <1>1
  <2>5. 2 + k * (Len(document) + 1 - curNode) <= MaxBlock
    BY <2>2, <2>3
  <2> QED
    BY <2>1, <2>2, <2>4, <2>5, Zenon DEF RoomLeft
<1>13. BuildsOK
  <2>1. Linked(heap, 1) = {} /\ Builds = {}
    BY <1>2, <1>7, <1>8 DEF Builds
  <2> QED
    BY <1>2, <2>1 DEF BuildsOK
<1> QED
  BY <1>11, <1>12, <1>13

\* One step for every action.
LEMMA NextInv ==
  ASSUME Inv, Next
  PROVE  Inv'
<1>0. StateOK /\ HeapInv /\ RoomLeft /\ BuildsOK /\ GuardsInv /\ GuardsAsWritten
  BY DEF Inv
<1>t. \A g \in 1 .. 3 : GuardTag[g] \notin {"Modol", "BuildList", "NETITEM", "DEVNAME"}
  BY DEF GuardTag
<1>1. CASE Modol
  <2>1. /\ Parsing("Modol") /\ curNode' = curNode + 1
        /\ UNCHANGED <<document, netItemIndex, area, modelList, freeing, build>>
    BY <1>1 DEF Modol, NextElement
  <2>2. StateOK'
    BY <1>0, <2>1, StateParsed
  <2>3. GuardsInv' /\ GuardsAsWritten'
    BY <1>0, <1>t, <2>1, GuardsPassed
  <2> QED
    BY <1>0, <1>1, <2>2, <2>3, HeapModol DEF Inv
<1>2. CASE ExtendBuild
  <2>1. /\ Parsing("BuildList") /\ curNode' = curNode + 1
        /\ UNCHANGED <<document, netItemIndex, area, modelList, freeing, build>>
    BY <1>2 DEF ExtendBuild, NextElement
  <2>2. StateOK'
    BY <1>0, <2>1, StateParsed
  <2>3. GuardsInv' /\ GuardsAsWritten'
    BY <1>0, <1>t, <2>1, GuardsPassed
  <2> QED
    BY <1>0, <1>2, <2>2, <2>3, HeapExtendBuild DEF Inv
<1>3. CASE AddBuild
  <2>1. /\ Parsing("BuildList") /\ curNode' = curNode + 1
        /\ UNCHANGED <<document, netItemIndex, area, modelList, freeing, build>>
    BY <1>3 DEF AddBuild, NextElement
  <2>2. StateOK'
    BY <1>0, <2>1, StateParsed
  <2>3. GuardsInv' /\ GuardsAsWritten'
    BY <1>0, <1>t, <2>1, GuardsPassed
  <2> QED
    BY <1>0, <1>3, <2>2, <2>3, HeapAddBuild DEF Inv
<1>4. CASE LoseBuild
  <2>1. /\ Parsing("BuildList") /\ curNode' = curNode + 1
        /\ UNCHANGED <<document, netItemIndex, area, modelList, freeing, build>>
    BY <1>4 DEF LoseBuild, NextElement
  <2>2. StateOK'
    BY <1>0, <2>1, StateParsed
  <2>3. GuardsInv' /\ GuardsAsWritten'
    BY <1>0, <1>t, <2>1, GuardsPassed
  <2> QED
    BY <1>0, <1>4, <2>2, <2>3, HeapLoseBuild DEF Inv
<1>5. CASE \E g \in {MANAGE, AREAGATE, GUARD} : Guard(g)
  <2>1. PICK g \in 1 .. 3 : Guard(g)
    BY <1>5 DEF MANAGE, AREAGATE, GUARD
  <2>2. /\ Parsing(GuardTag[g]) /\ curNode' = curNode + 1
        /\ UNCHANGED <<document, heap, freeing, build>>
    BY <2>1 DEF Guard, NextElement
  <2>3. HeapInv' /\ RoomLeft' /\ BuildsOK'
    BY <1>0, <2>2, HeapUntouched
  <2> QED
    BY <1>0, <2>1, <2>3, StateGuard, GuardsRead DEF Inv
<1>6. CASE NetItem
  <2>1. /\ Parsing("NETITEM") /\ curNode' = curNode + 1
        /\ UNCHANGED <<document, heap, freeing, build>>
    BY <1>6 DEF NetItem, NextElement
  <2>2. HeapInv' /\ RoomLeft' /\ BuildsOK'
    BY <1>0, <2>1, HeapUntouched
  <2>3. area'.guard = area.guard
    <3> DEFINE G == [1 .. 12 -> Byte]
               I == [1 .. 2 -> NetRec]
    <3>1. area \in [guard : G, netItem : I, buildList : {1}]
      BY <1>0 DEF StateOK
    <3>2. \E v : area' = [area EXCEPT !.netItem[netItemIndex] = v]
      BY <1>6 DEF NetItem
    <3> HIDE DEF G, I
    <3> QED
      BY <3>1, <3>2
  <2>4. GuardsInv' /\ GuardsAsWritten'
    BY <1>0, <1>t, <2>1, <2>3, GuardsPassed
  <2> QED
    BY <1>0, <1>6, <2>2, <2>4, StateNetItem DEF Inv
<1>7. CASE Other
  <2>1. /\ Parsing("DEVNAME") /\ curNode' = curNode + 1
        /\ UNCHANGED <<document, netItemIndex, area, heap, modelList, freeing, build>>
    BY <1>7 DEF Other, NextElement
  <2>2. StateOK'
    BY <1>0, <2>1, StateParsed
  <2>3. GuardsInv' /\ GuardsAsWritten'
    BY <1>0, <1>t, <2>1, GuardsPassed
  <2>4. HeapInv' /\ RoomLeft' /\ BuildsOK'
    BY <1>0, <2>1, HeapUntouched
  <2> QED
    BY <2>2, <2>3, <2>4 DEF Inv
<1>a. ASSUME UNCHANGED <<document, curNode, area>> PROVE GuardsInv' /\ GuardsAsWritten'
  BY <1>0, <1>a, GuardsStay
<1>8. CASE EndOfDocument
  <2>1. GuardsInv' /\ GuardsAsWritten'
    BY <1>8, <1>a DEF EndOfDocument
  <2> QED
    BY <1>0, <1>8, <2>1, HeapEndOfDocument DEF Inv
<1>9. CASE TakeBuild
  <2>1. GuardsInv' /\ GuardsAsWritten'
    BY <1>9, <1>a DEF TakeBuild
  <2> QED
    BY <1>0, <1>9, <2>1, HeapTakeBuild DEF Inv
<1>10. CASE FreeCell
  <2>1. GuardsInv' /\ GuardsAsWritten'
    BY <1>10, <1>a DEF FreeCell
  <2> QED
    BY <1>0, <1>10, <2>1, HeapFreeCell DEF Inv
<1>11. CASE FreeModel
  <2>1. GuardsInv' /\ GuardsAsWritten'
    BY <1>11, <1>a DEF FreeModel
  <2> QED
    BY <1>0, <1>11, <2>1, HeapFreeModel DEF Inv
<1>12. CASE FreeBuildList
  <2>1. GuardsInv' /\ GuardsAsWritten'
    BY <1>12, <1>a DEF FreeBuildList
  <2> QED
    BY <1>0, <1>12, <2>1, HeapFreeBuildList DEF Inv
<1> QED
  BY <1>1, <1>2, <1>3, <1>4, <1>5, <1>6, <1>7, <1>8, <1>9, <1>10, <1>11, <1>12 DEF Next

\* A step that changes nothing.
LEMMA StutterInv ==
  ASSUME Inv, UNCHANGED vars
  PROVE  Inv'
<1>1. UNCHANGED <<document, curNode, netItemIndex, area, heap, modelList, freeing, build>>
  BY DEF vars
<1>2. StateOK'
  BY <1>1 DEF Inv, StateOK, NetItemsBefore
<1>3. HeapInv' /\ RoomLeft'
  BY <1>1 DEF Inv, HeapInv, RoomLeft
<1>4. BuildsOK'
  <2>1. Builds' = Builds /\ Linked(heap, 1)' = Linked(heap, 1)
    BY <1>1 DEF Builds
  <2> QED
    BY <1>1, <2>1 DEF Inv, BuildsOK
<1>5. GuardsInv' /\ GuardsAsWritten'
  BY <1>1, GuardsStay DEF Inv
<1> QED
  BY <1>2, <1>3, <1>4, <1>5 DEF Inv

\* The inductive invariant of parsing and freeing: the lists of getAreaInfo() are chains
\* of blocks that do not meet, blocks are handed out in order and suffice, each build has
\* a model of its own, and the bytes behind the last guard are 0.
THEOREM ConfigInvariant == Spec => []Inv
<1>1. Init => Inv
  BY InitState, InitHeap DEF Inv
<1>2. Inv /\ [Next]_vars => Inv'
  BY NextInv, StutterInv
<1> QED
  BY <1>1, <1>2, PTL DEF Spec

\* The types follow: there are two net items at most.
LEMMA TypesFollow ==
  ASSUME Inv
  PROVE  TypeOK
<1>0. StateOK /\ HeapInv
  BY DEF Inv
<1>1. heap \in Heaps
  BY <1>0 DEF HeapInv, HeapOK
<1>2. \A b \in Block : heap[b].kind \in {"free", "list", "build", "model", "cell"}
  BY <1>1, Kinds DEF Heaps
<1>3. netItemIndex \in 1 .. 3
  <2> DEFINE A == {i \in DOMAIN document : document[i].tag = "NETITEM"}
             S == NetItemsBefore(curNode)
             ER == ElementRec
  <2>1. document \in Seq(ER) /\ Cardinality(A) <= 2
    BY <1>0, DocumentsAssumption DEF StateOK
  <2>2. IsFiniteSet(A)
    <3> HIDE DEF ER
    <3>1. DOMAIN document = 1 .. Len(document) /\ Len(document) \in Nat
      BY <2>1
    <3>2. IsFiniteSet(1 .. Len(document))
      BY <3>1, FS_Interval
    <3> QED
      BY <3>1, <3>2, FS_Subset
  <2>3. S \subseteq A
    BY DEF NetItemsBefore
  <2>4. Cardinality(S) \in Nat /\ Cardinality(S) <= Cardinality(A) /\ Cardinality(A) \in Nat
    BY <2>2, <2>3, FS_Subset, FS_CardinalityType
  <2>5. netItemIndex = 1 + Cardinality(S)
    BY <1>0 DEF StateOK
  <2> HIDE DEF S, A
  <2> QED
    BY <2>1, <2>4, <2>5
<1>4. area.guard \in [1 .. 12 -> 0 .. 255] /\ DOMAIN area.netItem = 1 .. 2
  <2> DEFINE G == [1 .. 12 -> Byte]
             I == [1 .. 2 -> NetRec]
  <2>1. area \in [guard : G, netItem : I, buildList : {1}]
    BY <1>0 DEF StateOK
  <2>2. area.guard \in G /\ area.netItem \in I
    <3> HIDE DEF G, I
    <3> QED
      BY <2>1
  <2> QED
    BY <2>2 DEF Byte
<1>5. modelList \in Block
  <2>1. document \in Documents /\ modelList = 2
    BY <1>0 DEF StateOK
  <2>2. PICK k \in 1 .. MaxBlock : 2 + k * Len(document) <= MaxBlock
    BY <2>1, DocumentsAssumption
  <2>3. Len(document) \in Nat
    <3> DEFINE ER == ElementRec
    <3>1. document \in Seq(ER)
      BY <2>1, DocumentsAssumption
    <3> HIDE DEF ER
    <3> QED
      BY <3>1
  <2>4. \A x, y \in Nat : x * y \in Nat
    OBVIOUS
  <2> DEFINE q == k * Len(document)
  <2>5. k \in Nat /\ MaxBlock \in Nat /\ q \in Nat /\ 2 + q <= MaxBlock
    BY <2>2, <2>3, <2>4, DocumentsAssumption
  <2> HIDE DEF q
  <2> QED
    BY <2>1, <2>5 DEF Block
<1> QED
  BY <1>0, <1>2, <1>3, <1>4, <1>5 DEF TypeOK, StateOK, Ref

\* The two names of the nodes of a list.
LEMMA NodeSetIs ==
  ASSUME HeapInv, NEW l \in Lists(heap)
  PROVE  NodeSet(l) = Linked(heap, l)
<1>1. NodeSet(l) \subseteq Linked(heap, l)
  BY ListedIs DEF NodeSet, Range
<1>2. Linked(heap, l) \subseteq NodeSet(l)
  BY LinkedIs DEF NodeSet, Range
<1> QED
  BY <1>1, <1>2

\* A chain is sound: ListsAreSound.
LEMMA SoundnessFollows ==
  ASSUME Inv
  PROVE  ListsAreSound
<1>0. HeapInv /\ HeapOK(heap)
  BY DEF Inv, HeapInv
<1>1. Live("list") = Lists(heap)
  BY DEF Live, Lists
<1>2. ASSUME NEW l \in Lists(heap)
      PROVE  /\ \A i, j \in DOMAIN Nodes(heap, l) :
                  /\ Nodes(heap, l)[i] \in Block /\ heap[Nodes(heap, l)[i]] # Free
                  /\ Nodes(heap, l)[i] = Nodes(heap, l)[j] => i = j
             /\ linklist_get(heap, l, linklist_length(heap, l)) = NULL
  <2>1. Chain(heap, l, Nodes(heap, l))
    BY <1>0 DEF HeapOK, ListOK
  <2>2. linklist_get(heap, l, linklist_length(heap, l)) = NULL
    BY <2>1, NodesIs DEF linklist_length
  <2>3. ASSUME NEW i \in DOMAIN Nodes(heap, l)
        PROVE  Nodes(heap, l)[i] \in Block /\ heap[Nodes(heap, l)[i]] # Free
    <3>1. Nodes(heap, l)[i] \in Block /\ heap[Nodes(heap, l)[i]].kind = KindOf(l)
      BY <1>0, ListedIs
    <3> QED
      BY <3>1 DEF KindOf, Free
  <2>4. \A i, j \in DOMAIN Nodes(heap, l) : Nodes(heap, l)[i] = Nodes(heap, l)[j] => i = j
    <3> DEFINE s == Nodes(heap, l)
    <3>1. s \in Seq(Block) /\ \A i, j \in 1 .. Len(s) : s[i] = s[j] => i = j
      BY <2>1 DEF Chain
    <3> HIDE DEF s
    <3>2. DOMAIN s = 1 .. Len(s)
      BY <3>1
    <3>3. \A i, j \in DOMAIN s : s[i] = s[j] => i = j
      BY <3>1, <3>2
    <3> QED
      BY <3>3 DEF s
  <2> QED
    BY <2>2, <2>3, <2>4
<1>3. \A l, k \in Lists(heap) : l # k => NodeSet(l) \cap NodeSet(k) = {}
  BY <1>0, NodeSetIs DEF HeapOK
<1> QED
  BY <1>1, <1>2, <1>3 DEF ListsAreSound

\* The builds still to be freed are whole: NoDangling.
LEMMA NoDanglingFollows ==
  ASSUME Inv
  PROVE  NoDangling
<1>0. StateOK /\ HeapInv /\ HeapOK(heap) /\ BuildsOK /\ area.buildList = 1
  BY DEF Inv, HeapInv, StateOK
<1> DEFINE builds == (IF freeing = "over" THEN {} ELSE NodeSet(area.buildList))
                       \cup ({build} \ {NULL})
           Whole(b) == /\ heap[b].kind = "build" /\ heap[b].model \in Live("model")
                       /\ heap[heap[b].model].cellList \in Live("list")
                       /\ NodeSet(heap[heap[b].model].cellList) \subseteq Live("cell")
<1>1. builds = Builds
  BY <1>0, NodeSetIs DEF Builds, HeapInv
<1>2. ASSUME NEW b \in Builds PROVE Whole(b)
  <2> DEFINE m == heap[b].model
             l == heap[m].cellList
  <2>1. heap[b].kind = "build" /\ m \in Block /\ heap[m].kind = "model"
    BY <1>0 DEF BuildsOK
  <2>2. l \in Lists(heap) \ {1, 2}
    BY <1>0, <2>1 DEF HeapOK
  <2> HIDE DEF l
  <2>3. \A x \in Linked(heap, l) : x \in Block /\ heap[x].kind = "cell"
    BY <1>0, <2>2, LinkedIs DEF KindOf
  <2>4. NodeSet(l) = Linked(heap, l)
    BY <1>0, <2>2, NodeSetIs
  <2> QED
    BY <2>1, <2>2, <2>3, <2>4 DEF Live, Lists, l
<1>3. \A b, c \in Builds : heap[b].model = heap[c].model => b = c
  BY <1>0 DEF BuildsOK
<1> HIDE DEF builds, Whole
<1>4. /\ \A b \in builds : Whole(b)
      /\ \A b, c \in builds : heap[b].model = heap[c].model => b = c
  BY <1>1, <1>2, <1>3
<1> QED
  BY <1>4 DEF NoDangling, builds, Whole

\* Whatever is read: the guards stay bytes, a third net item is never begun, every block
\* of the heap is one of the structures of area.h.
THEOREM ConfigTypes == Spec => []TypeOK
BY ConfigInvariant, TypesFollow, PTL

\* linklist_insert() and linklist_deleate(), in whatever order getAreaInfo() and freeArea()
\* call them, keep the length of every list that of its chain; no chain meets itself or
\* another one, and none reaches freed memory.
THEOREM ListsSound == Spec => []ListsAreSound
BY ConfigInvariant, SoundnessFollows, PTL

\* freeArea() never follows a pointer to freed memory and never frees a model twice: until
\* a build is freed it has a live model, list of cells and cells, and shares them with no
\* other build.
THEOREM NothingDangles == Spec => []NoDangling
BY ConfigInvariant, NoDanglingFollows, PTL

\* When the guards come in the order of struct Area, each at most once and without blank
\* fields, the four-byte stores of fillInfo() leave every guard read as it was written.
THEOREM GuardsWritten == Spec => []GuardsAsWritten
<1>1. Inv => GuardsAsWritten
  BY DEF Inv
<1> QED
  BY <1>1, ConfigInvariant, PTL
-----------------------------------------------------------------------------
\* What is read so far of a document in order.
ReadSoFar(tag) == {i \in Elements(tag) : i < curNode}

\* The model m of the heap h is that of element i.
ModelFrom(h, m, i) ==
  /\ h[m].id = document[i].id
  /\ CellsRead(h, h[m].cellList, document[i].items, Len(document[i].items))

ModelsAsRead ==
  /\ \A i \in ReadSoFar("Modol") : \E m \in Linked(heap, 2) : heap[m].id = document[i].id
  /\ \A m \in Linked(heap, 2) : \E i \in ReadSoFar("Modol") : ModelFrom(heap, m, i)
  /\ \A b \in Linked(heap, 1) : heap[b].model \in Linked(heap, 2)

\* The bytes of the listed builds: they ascend, and have MODIDs of their own.
Entries(h) == [p \in DOMAIN Nodes(h, 1) |-> h[Nodes(h, 1)[p]].bytes]

Ascend(B) ==
  /\ \A p \in DOMAIN B : 1 <= B[p][2] /\ B[p][2] <= B[p][3]
  /\ \A p, q \in DOMAIN B : p < q => B[p][3] < B[q][2]
  /\ \A p, q \in DOMAIN B : B[p][4] = B[q][4] => p = q

\* An entry has the buildings of an element with the fields f.
Holds(b, f) ==
  b[1] = f[1] /\ f[2] \in b[2] .. b[3] /\ f[3] \in b[2] .. b[3] /\ b[4] = f[4]

LastIs(B, f) == B # <<>> /\ B[Len(B)][1] = f[1] /\ B[Len(B)][3] = f[3] /\ B[Len(B)][4] = f[4]

\* The fields of the last element of R.
LastFields(R) == document[Max(R)].fields

\* The entries B are those of the elements R; the last one is that of the last element.
EntriesOK(B, R) ==
  /\ B \in Seq([1 .. 7 -> Byte]) /\ Ascend(B)
  /\ \A j \in R : \E p \in DOMAIN B : Holds(B[p], document[j].fields)
  /\ \A p \in DOMAIN B : \E j \in R : B[p][4] = document[j].fields[4]
  /\ R # {} => LastIs(B, LastFields(R))

ReadInOrder ==
  InOrder /\ freeing = "not yet" =>
    ModelsAsRead /\ EntriesOK(Entries(heap), ReadSoFar("BuildList"))

\* What comes next continues what was read, R: a new entry, or one building more.
FieldsOK(f) == (\A k \in 1 .. 4 : f[k] \in 1 .. 255) /\ f[2] <= f[3]

Same(R, f) == {i \in R : document[i].fields[4] = f[4]}

NextFields(R, f) ==
  R # {} =>
    IF Same(R, f) = {} THEN LastFields(R)[3] < f[2]
    ELSE /\ LastFields(R)[4] = f[4] /\ LastFields(R)[1] = f[1]
         /\ f[2] = LastFields(R)[3] + 1 /\ f[3] = f[2]

\* The fields of a build, in a document in order.
LEMMA FieldsInOrder ==
  ASSUME StateOK, InOrder, NEW j \in Elements("BuildList")
  PROVE  /\ FieldsOK(document[j].fields) /\ Models(j) # {}
         /\ document[j] \in ElementRec /\ document[j].tag = "BuildList"
<1> DEFINE e == document[j]
           f == e.fields
<1>1. e \in ElementRec /\ e.tag = "BuildList"
  <2> DEFINE ER == ElementRec
  <2>1. document \in Seq(ER) /\ j \in DOMAIN document
    BY DocumentsAssumption DEF StateOK, Elements
  <2> HIDE DEF ER
  <2>2. document[j] \in ER
    BY <2>1
  <2> QED
    BY <2>2 DEF ER, Elements
<1>2. (\A k \in 1 .. 4 : f[k] > 0) /\ f[2] <= f[3] /\ Models(j) # {}
  BY DEF InOrder
<1> HIDE DEF e
<1>3. \A k \in 1 .. 4 : f[k] \in 1 .. 255
  <2> SUFFICES ASSUME NEW k \in 1 .. 4 PROVE f[k] \in 1 .. 255
    OBVIOUS
  <2> DEFINE v == f[k]
  <2>1. v \in Value /\ v > 0
    BY <1>1, <1>2, Fields
  <2> HIDE DEF v
  <2>2. v \in 1 .. 255
    BY <2>1 DEF Value, Byte, Absent, Blank
  <2> QED
    BY <2>2 DEF v
<1> QED
  BY <1>1, <1>2, <1>3 DEF FieldsOK, e

\* The element of the next build continues what was read.
LEMMA BuildInOrder ==
  ASSUME StateOK, InOrder, Parsing("BuildList")
  PROVE  /\ FieldsOK(Element.fields) /\ NextFields(ReadSoFar("BuildList"), Element.fields)
         /\ Models(curNode) # {}
<1>1. curNode \in Elements("BuildList") /\ Element = document[curNode]
  BY ParsingIs DEF Element, Elements
<1> DEFINE R == ReadSoFar("BuildList")
           f == document[curNode].fields
           before == {i \in Elements("BuildList") : i < curNode}
           same == {i \in before : document[i].fields[4] = f[4]}
           last == document[Max(before)].fields
<1>2. before # {} =>
        IF same = {} THEN last[3] < f[2]
        ELSE last[4] = f[4] /\ last[1] = f[1] /\ f[2] = last[3] + 1 /\ f[3] = f[2]
  BY <1>1 DEF InOrder
<1>3. before = R /\ same = Same(R, f) /\ last = LastFields(R)
  BY DEF ReadSoFar, Same, LastFields
<1> HIDE DEF R, before, same, last
<1>4. NextFields(R, f)
  BY <1>2, <1>3 DEF NextFields
<1> QED
  BY <1>1, <1>4, FieldsInOrder DEF R

\* What is read, after this element.
LEMMA ReadMore ==
  ASSUME StateOK, NEW tag, Parsing(tag), curNode' = curNode + 1, document' = document, NEW t
  PROVE  /\ ReadSoFar(t)' = IF t = tag THEN ReadSoFar(t) \cup {curNode} ELSE ReadSoFar(t)
         /\ ReadSoFar(t) \in SUBSET Nat /\ \A i \in ReadSoFar(t) : i < curNode
         /\ curNode \in Nat
<1>1. /\ curNode \in DOMAIN document /\ curNode \in Nat /\ DOMAIN document \subseteq Nat
      /\ document[curNode].tag = tag
  <2>1. DOMAIN document = 1 .. Len(document) /\ Len(document) \in Nat
    BY ParsingIs
  <2> DEFINE n == Len(document)
  <2> HIDE DEF n
  <2>2. 1 .. n \subseteq Nat
    OBVIOUS
  <2> QED
    BY <2>1, <2>2, ParsingIs DEF n, Element
<1>2. Elements(t)' = Elements(t) /\ Elements(t) \subseteq Nat
      /\ (curNode \in Elements(t) <=> t = tag)
  BY <1>1 DEF Elements
<1>3. \A i \in Nat : i < curNode + 1 <=> i < curNode \/ i = curNode
  BY <1>1
<1> QED
  BY <1>1, <1>2, <1>3 DEF ReadSoFar

\* The element read last is the greatest.
LEMMA ReadLast ==
  ASSUME NEW R \in SUBSET Nat, NEW j \in Nat, \A i \in R : i < j
  PROVE  Max(R \cup {j}) = j
<1> DEFINE S == R \cup {j}
<1>1. S \in SUBSET Nat /\ S # {} /\ j \in S /\ \A x \in S : x <= j
  OBVIOUS
<1> HIDE DEF S
<1>2. Max(S) \in S /\ \A y \in S : y <= Max(S)
  BY <1>1, Greatest
<1>3. Max(S) \in Nat /\ Max(S) <= j /\ j <= Max(S)
  BY <1>1, <1>2
<1>4. Max(S) = j
  BY <1>3
<1> QED
  BY <1>4 DEF S

\* The last element of R is one of R.
LEMMA LastRead ==
  ASSUME NEW R \in SUBSET Nat, R # {}, NEW j \in Nat, \A i \in R : i < j
  PROVE  Max(R) \in R
<1>1. \A i \in R : i <= j
  OBVIOUS
<1> QED
  BY <1>1, Greatest

\* The entries B of the elements R, and the next element j with the fields f.
NextEntry(B, R, j, f) ==
  /\ R \in SUBSET Nat /\ EntriesOK(B, R) /\ j \in Nat /\ \A i \in R : i < j
  /\ f = document[j].fields /\ FieldsOK(f) /\ NextFields(R, f)

EntryOf(b, f) == b \in [1 .. 7 -> Byte] /\ \A k \in 1 .. 4 : b[k] = f[k]

\* Its fields, one by one.
LEMMA FourFields ==
  ASSUME NEW f, FieldsOK(f)
  PROVE  /\ f[1] \in 1 .. 255 /\ f[2] \in 1 .. 255 /\ f[3] \in 1 .. 255 /\ f[4] \in 1 .. 255
         /\ 1 <= f[2] /\ f[2] <= f[3]
BY DEF FieldsOK

\* Its bytes.
LEMMA FourBytes ==
  ASSUME NEW b, NEW f, EntryOf(b, f)
  PROVE  b[1] = f[1] /\ b[2] = f[2] /\ b[3] = f[3] /\ b[4] = f[4] /\ b \in [1 .. 7 -> Byte]
BY DEF EntryOf

\* A byte is a natural number.
LEMMA BytesNat ==
  ASSUME NEW b \in [1 .. 7 -> Byte]
  PROVE  b[1] \in 0 .. 255 /\ b[2] \in 0 .. 255 /\ b[3] \in 0 .. 255 /\ b[4] \in 0 .. 255
BY DEF Byte

\* A new entry behind the others.
LEMMA EntryAdded ==
  ASSUME NEW B, NEW R, NEW j, NEW f, NextEntry(B, R, j, f), NEW b, EntryOf(b, f),
         \A p \in DOMAIN B : B[p][4] # f[4]
  PROVE  EntriesOK(Append(B, b), R \cup {j})
<1>0. /\ R \in SUBSET Nat /\ EntriesOK(B, R) /\ j \in Nat /\ \A i \in R : i < j
      /\ f = document[j].fields /\ FieldsOK(f) /\ NextFields(R, f)
  BY DEF NextEntry
<1> DEFINE BY7 == [1 .. 7 -> Byte]
           n == Len(B)
           C == Append(B, b)
           last == LastFields(R)
<1>1. /\ B \in Seq(BY7) /\ Ascend(B) /\ b \in BY7
      /\ \A i \in R : \E p \in DOMAIN B : Holds(B[p], document[i].fields)
      /\ \A p \in DOMAIN B : \E i \in R : B[p][4] = document[i].fields[4]
      /\ R # {} => LastIs(B, last)
  BY <1>0, FourBytes DEF EntriesOK
<1>2. /\ f[1] \in 1 .. 255 /\ f[2] \in 1 .. 255 /\ f[3] \in 1 .. 255 /\ f[4] \in 1 .. 255
      /\ 1 <= f[2] /\ f[2] <= f[3] /\ b[1] = f[1] /\ b[2] = f[2] /\ b[3] = f[3] /\ b[4] = f[4]
  BY <1>0, FourFields, FourBytes
<1>3. Same(R, f) = {}
  <2>1. \A i \in R : document[i].fields[4] # f[4]
    BY <1>1 DEF Holds
  <2> QED
    BY <2>1 DEF Same
<1>4. R # {} => last[3] < f[2]
  BY <1>0, <1>3 DEF NextFields
<1> HIDE DEF BY7
<1>5. /\ n \in Nat /\ DOMAIN B = 1 .. n /\ C \in Seq(BY7) /\ Len(C) = n + 1
      /\ DOMAIN C = 1 .. n + 1 /\ C[n + 1] = b /\ \A p \in 1 .. n : C[p] = B[p]
  BY <1>1
<1>a. \A p \in 1 .. n : B[p] \in BY7
  BY <1>1, <1>5
<1> HIDE DEF n, C, last
<1>6. \A p \in 1 .. n : B[p][2] \in Nat /\ B[p][3] \in Nat
  <2> SUFFICES ASSUME NEW p \in 1 .. n PROVE B[p][2] \in Nat /\ B[p][3] \in Nat
    OBVIOUS
  <2> DEFINE c == B[p]
  <2>1. c \in [1 .. 7 -> Byte]
    BY <1>a DEF BY7
  <2> HIDE DEF c
  <2>2. c[2] \in 0 .. 255 /\ c[3] \in 0 .. 255
    BY <2>1, BytesNat
  <2> QED
    BY <2>2 DEF c
<1>7. \A p \in 1 .. n : B[p][3] < f[2]
  <2> SUFFICES ASSUME NEW p \in 1 .. n PROVE B[p][3] < f[2]
    OBVIOUS
  <2>1. R # {} /\ n \in 1 .. n
    BY <1>1, <1>5
  <2>2. B[n][3] < f[2]
    BY <1>1, <1>4, <2>1 DEF LastIs, n
  <2>3. CASE p = n
    BY <2>2, <2>3
  <2>4. CASE p # n
    <3>1. p < n
      BY <1>5, <2>4
    <3>2. B[p][3] < B[n][2] /\ B[n][2] <= B[n][3]
      BY <1>1, <1>5, <2>1, <3>1 DEF Ascend
    <3>3. B[p][3] \in Nat /\ B[n][2] \in Nat /\ B[n][3] \in Nat
      BY <1>6, <2>1
    <3> QED
      BY <1>2, <2>2, <3>2, <3>3
  <2> QED
    BY <2>3, <2>4
<1>8. Ascend(C)
  <2>1. ASSUME NEW p \in 1 .. n + 1 PROVE 1 <= C[p][2] /\ C[p][2] <= C[p][3]
    <3>1. CASE p = n + 1
      BY <1>2, <1>5, <3>1
    <3>2. CASE p # n + 1
      <4>1. p \in 1 .. n
        BY <1>5, <3>2
      <4> QED
        BY <1>1, <1>5, <4>1 DEF Ascend
    <3> QED
      BY <3>1, <3>2
  <2>2. ASSUME NEW p \in 1 .. n + 1, NEW q \in 1 .. n + 1, p < q
        PROVE  C[p][3] < C[q][2]
    <3>1. p \in 1 .. n
      BY <1>5, <2>2
    <3>2. CASE q = n + 1
      BY <1>2, <1>5, <1>7, <3>1, <3>2
    <3>3. CASE q # n + 1
      <4>1. q \in 1 .. n
        BY <1>5, <3>3
      <4> QED
        BY <1>1, <1>5, <2>2, <3>1, <4>1 DEF Ascend
    <3> QED
      BY <3>2, <3>3
  <2>3. ASSUME NEW p \in 1 .. n + 1, NEW q \in 1 .. n + 1, C[p][4] = C[q][4]
        PROVE  p = q
    <3>1. \A r \in 1 .. n + 1 : r # n + 1 => r \in 1 .. n /\ C[r] = B[r] /\ C[r][4] # f[4]
      BY <1>5
    <3>2. C[n + 1][4] = f[4]
      BY <1>2, <1>5
    <3>3. CASE p # n + 1 /\ q # n + 1
      <4>1. B[p][4] = B[q][4] /\ p \in DOMAIN B /\ q \in DOMAIN B
        BY <1>5, <2>3, <3>1, <3>3
      <4> QED
        BY <1>1, <4>1 DEF Ascend
    <3> QED
      BY <2>3, <3>1, <3>2, <3>3
  <2> QED
    BY <1>5, <2>1, <2>2, <2>3 DEF Ascend
<1>9. ASSUME NEW i \in R \cup {j}
      PROVE  \E p \in DOMAIN C : Holds(C[p], document[i].fields)
  <2>1. CASE i \in R
    <3>1. PICK p \in DOMAIN B : Holds(B[p], document[i].fields)
      BY <1>1, <2>1
    <3>2. p \in DOMAIN C /\ C[p] = B[p]
      BY <1>5, <3>1
    <3> QED
      BY <3>1, <3>2
  <2>2. CASE i = j
    <3>1. n + 1 \in DOMAIN C
      BY <1>5
    <3>2. Holds(b, f)
      BY <1>2 DEF Holds
    <3> QED
      BY <1>0, <1>5, <2>2, <3>1, <3>2
  <2> QED
    BY <2>1, <2>2
<1>10. ASSUME NEW p \in DOMAIN C
       PROVE  \E i \in R \cup {j} : C[p][4] = document[i].fields[4]
  <2>1. CASE p = n + 1
    <3>1. C[p][4] = document[j].fields[4]
      BY <1>0, <1>2, <1>5, <2>1
    <3> QED
      BY <3>1
  <2>2. CASE p # n + 1
    <3>1. p \in DOMAIN B /\ C[p] = B[p]
      BY <1>5, <2>2
    <3> QED
      BY <1>1, <3>1
  <2> QED
    BY <2>1, <2>2
<1>11. LastIs(C, LastFields(R \cup {j}))
  <2>1. Max(R \cup {j}) = j
    BY <1>0, ReadLast
  <2>2. C # <<>>
    BY <1>5
  <2>3. LastFields(R \cup {j}) = f
    BY <1>0, <2>1 DEF LastFields
  <2>4. LastIs(C, f)
    BY <1>2, <1>5, <2>2 DEF LastIs
  <2> QED
    BY <2>3, <2>4
<1> QED
  BY <1>5, <1>8, <1>9, <1>10, <1>11 DEF EntriesOK, BY7, C

\* The same entries but for one, with one building more.
OneBuildingMore(B, C, p) ==
  /\ DOMAIN C = DOMAIN B /\ C \in Seq([1 .. 7 -> Byte])
  /\ \A q \in DOMAIN B \ {p} : C[q] = B[q]
  /\ C[p] = [B[p] EXCEPT ![3] = OneMore(B[p][3])]

\* Only the last entry can have the model of the element.
LEMMA EntryExtended ==
  ASSUME NEW B, NEW R, NEW j, NEW f, NextEntry(B, R, j, f),
         NEW p \in DOMAIN B, B[p][4] = f[4], NEW C, OneBuildingMore(B, C, p)
  PROVE  EntriesOK(C, R \cup {j})
<1>0. /\ R \in SUBSET Nat /\ EntriesOK(B, R) /\ j \in Nat /\ \A i \in R : i < j
      /\ f = document[j].fields /\ FieldsOK(f) /\ NextFields(R, f)
      /\ DOMAIN C = DOMAIN B /\ C \in Seq([1 .. 7 -> Byte])
      /\ \A q \in DOMAIN B \ {p} : C[q] = B[q]
      /\ C[p] = [B[p] EXCEPT ![3] = OneMore(B[p][3])]
  BY DEF NextEntry, OneBuildingMore
<1> DEFINE BY7 == [1 .. 7 -> Byte]
           n == Len(B)
           last == LastFields(R)
<1>1. /\ B \in Seq(BY7) /\ Ascend(B) /\ C \in Seq(BY7)
      /\ \A i \in R : \E q \in DOMAIN B : Holds(B[q], document[i].fields)
      /\ \A q \in DOMAIN B : \E i \in R : B[q][4] = document[i].fields[4]
      /\ R # {} => LastIs(B, last)
  BY <1>0 DEF EntriesOK
<1>2. f[1] \in 1 .. 255 /\ f[2] \in 1 .. 255 /\ f[3] \in 1 .. 255
  BY <1>0, FourFields
<1>3. R # {} /\ Same(R, f) # {}
  <2>1. \E i \in R : B[p][4] = document[i].fields[4]
    BY <1>1
  <2> QED
    BY <2>1 DEF Same
<1>4. last[4] = f[4] /\ last[1] = f[1] /\ f[2] = last[3] + 1 /\ f[3] = f[2]
  BY <1>0, <1>3 DEF NextFields
<1>5. LastIs(B, last)
  BY <1>1, <1>3
<1> HIDE DEF BY7, last
<1>6. /\ n \in Nat /\ DOMAIN B = 1 .. n /\ Len(C) = n /\ n \in 1 .. n
      /\ \A q \in 1 .. n : B[q] \in BY7 /\ C[q] \in BY7
  <2>1. n \in Nat /\ DOMAIN B = 1 .. n /\ DOMAIN C = 1 .. n
    BY <1>0, <1>1
  <2>2. \A q \in 1 .. n : B[q] \in BY7 /\ C[q] \in BY7
    BY <1>1, <2>1
  <2>3. Len(C) = n
    <3>1. C \in [1 .. n -> BY7]
      BY <1>1, <2>1, <2>2
    <3> HIDE DEF n
    <3> QED
      BY <2>1, <3>1, LengthIs
  <2>4. p \in 1 .. n
    BY <2>1
  <2>5. n \in 1 .. n
    BY <2>1, <2>4
  <2> QED
    BY <2>1, <2>2, <2>3, <2>5
<1>7. p = n
  <2>1. B[n][4] = B[p][4] /\ n \in DOMAIN B
    BY <1>4, <1>5, <1>6 DEF LastIs
  <2> QED
    BY <1>1, <2>1 DEF Ascend
<1>8. /\ B[n][1] = f[1] /\ B[n][3] = last[3] /\ B[n][3] \in 0 .. 255 /\ B[n][2] \in 0 .. 255
      /\ f[3] = B[n][3] + 1
  <2>1. B[n] \in BY7
    BY <1>6
  <2> QED
    BY <1>4, <1>5, <2>1 DEF LastIs, BY7, Byte
<1>9. OneMore(B[n][3]) = f[3]
  <2> DEFINE v == B[n][3]
  <2>1. v \in 0 .. 255 /\ f[3] = v + 1 /\ f[3] \in 1 .. 255
    BY <1>2, <1>8
  <2> HIDE DEF v
  <2>2. (v + 1) % 256 = f[3]
    BY <2>1
  <2> QED
    BY <2>2 DEF v, OneMore
<1>10. C[n][1] = f[1] /\ C[n][2] = B[n][2] /\ C[n][3] = f[3] /\ C[n][4] = f[4]
       /\ B[n][3] < f[3] /\ C[n][2] <= f[2] /\ 1 <= C[n][2] /\ C[n][2] <= f[3]
  <2>1. B[n] \in [1 .. 7 -> Byte]
    BY <1>6 DEF BY7
  <2>2. C[n] = [B[n] EXCEPT ![3] = f[3]]
    BY <1>0, <1>7, <1>9
  <2> DEFINE b == B[n]
             c == C[n]
  <2> HIDE DEF b, c
  <2>3. b \in [1 .. 7 -> Byte] /\ c = [b EXCEPT ![3] = f[3]]
    BY <2>1, <2>2 DEF b, c
  <2>4. c[1] = b[1] /\ c[2] = b[2] /\ c[3] = f[3] /\ c[4] = b[4]
    BY <2>3
  <2>5. 1 <= b[2] /\ b[2] <= b[3]
    BY <1>1, <1>6 DEF Ascend, b
  <2>6. b[1] = f[1] /\ b[4] = f[4] /\ b[3] \in 0 .. 255 /\ b[2] \in 0 .. 255 /\ f[3] = b[3] + 1
        /\ f[2] = f[3]
    BY <1>4, <1>7, <1>8 DEF b
  <2>7. b[3] < f[3] /\ b[2] <= f[2] /\ b[2] <= f[3]
    <3> DEFINE x == b[2]
               y == b[3]
               z == f[3]
    <3>1. x \in 0 .. 255 /\ y \in 0 .. 255 /\ z = y + 1 /\ x <= y /\ f[2] = z
      BY <2>5, <2>6
    <3> HIDE DEF x, y, z
    <3>2. y < z /\ x <= f[2] /\ x <= z
      BY <3>1
    <3> QED
      BY <3>2 DEF x, y, z
  <2> QED
    BY <2>4, <2>5, <2>6, <2>7 DEF b, c
<1>11. \A q \in 1 .. n : q # n => C[q] = B[q]
  BY <1>0, <1>6, <1>7
<1>12. \A q \in 1 .. n : C[q][2] = B[q][2] /\ C[q][4] = B[q][4]
  BY <1>7, <1>10, <1>11
<1> HIDE DEF n
<1>13. Ascend(C)
  <2>1. ASSUME NEW q \in 1 .. n PROVE 1 <= C[q][2] /\ C[q][2] <= C[q][3]
    <3>1. CASE q = n
      BY <1>10, <3>1
    <3>2. CASE q # n
      BY <1>1, <1>6, <1>11, <3>2 DEF Ascend
    <3> QED
      BY <3>1, <3>2
  <2>2. ASSUME NEW q \in 1 .. n, NEW r \in 1 .. n, q < r
        PROVE  C[q][3] < C[r][2]
    <3>1. q # n
      BY <1>6, <2>2
    <3> QED
      BY <1>1, <1>6, <1>11, <1>12, <2>2, <3>1 DEF Ascend
  <2>3. ASSUME NEW q \in 1 .. n, NEW r \in 1 .. n, C[q][4] = C[r][4] PROVE q = r
    BY <1>1, <1>6, <1>12, <2>3 DEF Ascend
  <2> QED
    BY <1>6, <2>1, <2>2, <2>3 DEF Ascend
<1>14. ASSUME NEW i \in R \cup {j}
       PROVE  \E q \in DOMAIN C : Holds(C[q], document[i].fields)
  <2>1. CASE i = j
    <3> DEFINE c == C[n]
    <3>1. /\ c[1] = f[1] /\ c[2] = B[n][2] /\ c[3] = f[3] /\ c[4] = f[4] /\ c[2] <= f[2]
          /\ f[3] = f[2] /\ f[3] \in 1 .. 255 /\ B[n][2] \in 0 .. 255
      BY <1>2, <1>4, <1>8, <1>10
    <3> HIDE DEF c
    <3>2. c[2] \in 0 .. 255 /\ c[2] <= f[3]
      BY <3>1
    <3>3. Holds(c, f)
      BY <3>1, <3>2 DEF Holds
    <3> QED
      BY <1>0, <1>6, <2>1, <3>3 DEF c
  <2>2. CASE i \in R
    <3>1. PICK q \in DOMAIN B : Holds(B[q], document[i].fields)
      BY <1>1, <2>2
    <3>2. CASE q # n
      BY <1>6, <1>11, <3>1, <3>2
    <3>3. CASE q = n
      <4> DEFINE g == document[i].fields
                 b == B[n]
                 c == C[n]
      <4>1. /\ c[1] = b[1] /\ c[2] = b[2] /\ c[3] = f[3] /\ c[4] = b[4]
            /\ b[2] \in 0 .. 255 /\ b[3] \in 0 .. 255 /\ f[3] = b[3] + 1
        BY <1>4, <1>5, <1>6, <1>8, <1>10, <1>12
      <4>2. Holds(b, g)
        BY <3>1, <3>3
      <4> HIDE DEF b, c, g
      <4>3. b[2] .. b[3] \subseteq c[2] .. c[3]
        BY <4>1
      <4>4. Holds(c, g)
        BY <4>1, <4>2, <4>3 DEF Holds
      <4> QED
        BY <1>6, <4>4 DEF c, g
    <3> QED
      BY <3>2, <3>3
  <2> QED
    BY <2>1, <2>2
<1>15. ASSUME NEW q \in DOMAIN C
       PROVE  \E i \in R \cup {j} : C[q][4] = document[i].fields[4]
  BY <1>1, <1>6, <1>12
<1>16. LastIs(C, LastFields(R \cup {j}))
  <2>1. Max(R \cup {j}) = j
    BY <1>0, ReadLast
  <2>2. C # <<>>
    BY <1>6
  <2>3. LastFields(R \cup {j}) = f
    BY <1>0, <2>1 DEF LastFields
  <2>4. LastIs(C, f)
    BY <1>6, <1>10, <2>2 DEF LastIs
  <2> QED
    BY <2>3, <2>4
<1> QED
  BY <1>1, <1>13, <1>14, <1>15, <1>16 DEF EntriesOK, BY7

\* The build that is read has the fields of its element.
LEMMA ReadBuildBytes ==
  ASSUME NEW e \in ElementRec, e.tag = "BuildList", FieldsOK(e.fields)
  PROVE  EntryOf(ReadBuild(e).bytes, e.fields) /\ MODID(ReadBuild(e)) = e.fields[4]
<1> DEFINE f == e.fields
           z == Zeros(7)
           b == fillInfo(f, z, 1)
<1>1. f \in [1 .. 4 -> Value] /\ \A k \in 1 .. 4 : f[k] \in 1 .. 255
  BY Fields DEF FieldsOK
<1>2. z \in [1 .. 7 -> Byte] /\ \A j \in 1 .. 7 : z[j] = 0
  <2>1. 7 \in Nat
    OBVIOUS
  <2> QED
    BY <2>1, ZerosOK DEF Zeros
<1> HIDE DEF f, z
<1>3. PlainReady(f, 4, z, 7, 0)
  <2>1. \A k \in 1 .. 4 : f[k] # Blank
    BY <1>1 DEF Blank
  <2> QED
    BY <1>1, <1>2, <2>1 DEF PlainReady
<1>4. PlainDone(b, f, 4, z, 7, 0)
  <2>1. PlainDone(fillInfo(f, z, 0 + 1), f, 4, z, 7, 0)
    BY <1>3, PlainFill
  <2>2. 0 + 1 = 1
    OBVIOUS
  <2> QED
    BY <2>1, <2>2
<1> HIDE DEF b
<1>5. \A k \in 1 .. 4 : b[k] = f[k]
  <2> SUFFICES ASSUME NEW k \in 1 .. 4 PROVE b[k] = f[k]
    OBVIOUS
  <2>1. b[0 + k] = Written(f[k]) /\ 0 + k = k
    BY <1>4 DEF PlainDone
  <2>2. Written(f[k]) = f[k]
    BY <1>1 DEF Written, Absent
  <2> QED
    BY <2>1, <2>2
<1>6. ReadBuild(e).bytes = b
  BY DEF ReadBuild, b, f, z
<1>7. b \in [1 .. 7 -> Byte]
  <2>1. ReadBuild(e) \in BuildRec
    BY ReadBuildIs
  <2> QED
    BY <1>6, <2>1 DEF BuildRec
<1>8. EntryOf(b, f)
  BY <1>5, <1>7 DEF EntryOf
<1> QED
  BY <1>5, <1>6, <1>8 DEF MODID, f

\* The entries of a heap, one for every node.
LEMMA EntriesIs ==
  ASSUME NEW h, HeapOK(h), 1 \in Lists(h)
  PROVE  /\ Nodes(h, 1) \in Seq(Block) /\ Len(Nodes(h, 1)) \in Nat
         /\ DOMAIN Nodes(h, 1) = 1 .. Len(Nodes(h, 1))
         /\ DOMAIN Entries(h) = 1 .. Len(Nodes(h, 1)) /\ Entries(h) \in Seq([1 .. 7 -> Byte])
         /\ Len(Entries(h)) = Len(Nodes(h, 1))
         /\ \A p \in 1 .. Len(Nodes(h, 1)) :
              /\ Nodes(h, 1)[p] \in Linked(h, 1) /\ Nodes(h, 1)[p] \in Block
              /\ h[Nodes(h, 1)[p]].kind = "build"
              /\ Entries(h)[p] = h[Nodes(h, 1)[p]].bytes
         /\ \A p, q \in 1 .. Len(Nodes(h, 1)) : Nodes(h, 1)[p] = Nodes(h, 1)[q] => p = q
<1> DEFINE s == Nodes(h, 1)
           n == Len(s)
           B == Entries(h)
           BY7 == [1 .. 7 -> Byte]
<1>1. ListOK(h, 1) /\ h \in Heaps
  BY DEF HeapOK
<1>2. s \in Seq(Block) /\ \A p, q \in 1 .. n : s[p] = s[q] => p = q
  BY <1>1 DEF ListOK, Chain
<1>3. \A p \in 1 .. n : s[p] \in Linked(h, 1)
  BY DEF Linked
<1>4. \A x \in Linked(h, 1) : h[x].kind = "build"
  BY <1>1 DEF ListOK, KindOf
<1>5. B = [p \in DOMAIN s |-> h[s[p]].bytes]
  BY DEF Entries
<1> HIDE DEF s, B
<1>6. n \in Nat /\ DOMAIN s = 1 .. n /\ \A p \in 1 .. n : s[p] \in Block
  BY <1>2
<1> HIDE DEF n
<1>7. \A p \in 1 .. n : h[s[p]].bytes \in BY7
  <2> SUFFICES ASSUME NEW p \in 1 .. n PROVE h[s[p]].bytes \in BY7
    OBVIOUS
  <2> DEFINE r == h[s[p]]
  <2>1. r \in BlockRec /\ r.kind = "build"
    BY <1>1, <1>3, <1>4, <1>6 DEF Heaps
  <2> HIDE DEF r
  <2>2. r \in BuildRec
    BY <2>1, Kinds
  <2>3. r.bytes \in BY7
    BY <2>2 DEF BuildRec
  <2> QED
    BY <2>3 DEF r
<1> HIDE DEF BY7
<1>8. B \in [1 .. n -> BY7]
  BY <1>5, <1>6, <1>7
<1>9. B \in Seq(BY7) /\ Len(B) = n
  BY <1>6, <1>8, LengthIs
<1>10. DOMAIN B = 1 .. n /\ \A p \in 1 .. n : B[p] = h[s[p]].bytes
  BY <1>5, <1>6
<1> QED
  BY <1>2, <1>3, <1>4, <1>6, <1>9, <1>10 DEF s, n, B, BY7

\* Entries of the same nodes.
LEMMA EntriesKept ==
  ASSUME NEW h, NEW h2, NEW L, HeapOK(h), Grown(h, h2, L), 1 \in Lists(h), 1 \notin L
  PROVE  Entries(h2) = Entries(h)
<1>1. Nodes(h2, 1) = Nodes(h, 1)
  BY DEF Grown
<1> DEFINE s == Nodes(h, 1)
<1>2. \A p \in DOMAIN s : h2[s[p]].bytes = h[s[p]].bytes
  <2> SUFFICES ASSUME NEW p \in DOMAIN s PROVE h2[s[p]].bytes = h[s[p]].bytes
    OBVIOUS
  <2>1. s[p] \in Block /\ h[s[p]].kind = "build"
    BY EntriesIs
  <2> HIDE DEF s
  <2>2. Alike(h[s[p]], h2[s[p]])
    BY <2>1 DEF Grown
  <2> QED
    BY <2>1, <2>2 DEF Alike
<1> HIDE DEF s
<1>3. [p \in DOMAIN s |-> h2[s[p]].bytes] = [p \in DOMAIN s |-> h[s[p]].bytes]
  BY <1>2
<1> QED
  BY <1>1, <1>3 DEF Entries, s

\* One entry more.
LEMMA EntriesMore ==
  ASSUME NEW h, NEW h2, HeapOK(h), Grown(h, h2, {1}), 1 \in Lists(h),
         NEW x \in Block, Nodes(h2, 1) = Append(Nodes(h, 1), x)
  PROVE  Entries(h2) = Append(Entries(h), h2[x].bytes)
<1> DEFINE s == Nodes(h, 1)
           t == Nodes(h2, 1)
           n == Len(s)
           B == Entries(h)
           C == Entries(h2)
           BY7 == [1 .. 7 -> Byte]
<1>1. HeapOK(h2) /\ 1 \in Lists(h2)
  BY DEF Grown, Lists, Alike
<1>2. /\ s \in Seq(Block) /\ n \in Nat /\ B \in Seq(BY7) /\ Len(B) = n
      /\ \A p \in 1 .. n : s[p] \in Block /\ h[s[p]].kind = "build" /\ B[p] = h[s[p]].bytes
  BY EntriesIs
<1>3. /\ C \in Seq(BY7) /\ Len(C) = Len(t) /\ \A p \in 1 .. Len(t) : C[p] = h2[t[p]].bytes
  BY <1>1, EntriesIs
<1>4. t = Append(s, x)
  OBVIOUS
<1> HIDE DEF s, t, B, C, BY7
<1>5. Len(t) = n + 1 /\ t[n + 1] = x /\ \A p \in 1 .. n : t[p] = s[p]
  BY <1>2, <1>4
<1> HIDE DEF n
<1>6. ASSUME NEW p \in 1 .. n PROVE C[p] = B[p]
  <2>1. p \in 1 .. Len(t)
    BY <1>2, <1>5
  <2>2. C[p] = h2[s[p]].bytes /\ s[p] \in Block /\ h[s[p]].kind = "build"
    BY <1>2, <1>3, <1>5, <2>1
  <2>3. Alike(h[s[p]], h2[s[p]])
    BY <2>2 DEF Grown
  <2> QED
    BY <1>2, <2>2, <2>3 DEF Alike
<1>7. C[n + 1] = h2[x].bytes
  <2>1. n + 1 \in 1 .. Len(t)
    BY <1>2, <1>5
  <2> QED
    BY <1>3, <1>5, <2>1
<1> DEFINE b == h2[x].bytes
<1>8. b \in BY7
  <2>1. Len(C) = n + 1
    BY <1>3, <1>5
  <2>2. C[n + 1] \in BY7
    BY <1>2, <1>3, <2>1
  <2> QED
    BY <1>7, <2>2
<1> HIDE DEF b
<1>9. C = Append(B, b)
  <2>1. C \in Seq(BY7) /\ Len(C) = n + 1 /\ Append(B, b) \in Seq(BY7) /\ Len(B) = n
        /\ Len(Append(B, b)) = n + 1
    BY <1>2, <1>3, <1>5, <1>8
  <2>2. ASSUME NEW p \in 1 .. n + 1 PROVE C[p] = Append(B, b)[p]
    <3>1. CASE p = n + 1
      BY <1>2, <1>7, <1>8, <2>1, <3>1 DEF b
    <3>2. CASE p # n + 1
      <4>1. p \in 1 .. n
        BY <1>2, <3>2
      <4>2. Append(B, b)[p] = B[p]
        BY <1>2, <1>8, <4>1
      <4> QED
        BY <1>6, <4>1, <4>2
    <3> QED
      BY <3>1, <3>2
  <2> QED
    BY <2>1, <2>2, SeqEqual
<1> QED
  BY <1>9 DEF B, C, b

\* Models and cells are what they were.
ModelsStay ==
  /\ \A b \in Block : heap[b].kind \in {"model", "cell"} => Alike(heap[b], heap'[b])
  /\ \A l \in Lists(heap) \ {1, 2} : Nodes(heap', l) = Nodes(heap, l)

\* So a model that was read from an element still is.
LEMMA ModelKept ==
  ASSUME HeapInv, 2 \in Lists(heap), ModelsStay, NEW m \in Linked(heap, 2),
         NEW i, ModelFrom(heap, m, i)
  PROVE  ModelFrom(heap', m, i) /\ heap'[m].id = heap[m].id
<1> DEFINE l == heap[m].cellList
           items == document[i].items
           k == Len(items)
           s == Nodes(heap, l)
<1>1. m \in Block /\ heap[m].kind = "model"
  BY LinkedIs DEF KindOf
<1>2. heap'[m].id = heap[m].id /\ heap'[m].cellList = l
  BY <1>1 DEF ModelsStay, Alike
<1>3. l \in Lists(heap) \ {1, 2}
  BY <1>1 DEF HeapInv, HeapOK
<1>4. heap[m].id = document[i].id /\ CellsRead(heap, l, items, k)
  BY DEF ModelFrom
<1> HIDE DEF l, items, k
<1>5. s \in Seq(Block) /\ Len(s) = k /\ \A p \in 1 .. k : CellAt(heap, s[p], items[p])
  BY <1>4 DEF CellsRead
<1>6. Nodes(heap', l) = s
  BY <1>3 DEF ModelsStay
<1>7. ASSUME NEW p \in 1 .. k PROVE CellAt(heap', s[p], items[p])
  <2> DEFINE y == s[p]
  <2>1. y \in Block /\ heap[y].kind = "cell"
        /\ heap[y].bytes = fillInfo(items[p], Zeros(12), 1)
    BY <1>5 DEF CellAt
  <2> HIDE DEF y
  <2>2. Alike(heap[y], heap'[y])
    BY <2>1 DEF ModelsStay
  <2>3. CellAt(heap', y, items[p])
    BY <2>1, <2>2 DEF Alike, CellAt
  <2> QED
    BY <2>3 DEF y
<1> HIDE DEF s
<1>8. CellsRead(heap', l, items, k)
  BY <1>5, <1>6, <1>7 DEF CellsRead
<1> QED
  BY <1>2, <1>4, <1>8 DEF ModelFrom, items, k

\* Blocks are only added.
LEMMA GrownStays ==
  ASSUME NEW L, L \subseteq {1, 2}, Grown(heap, heap', L)
  PROVE  ModelsStay
BY DEF Grown, ModelsStay

\* What is read of the models when there is no model more.
LEMMA ModelsKept ==
  ASSUME HeapInv, 2 \in Lists(heap), ModelsAsRead, ModelsStay, Linked(heap', 2) = Linked(heap, 2),
         document' = document, ReadSoFar("Modol")' = ReadSoFar("Modol"),
         \A b \in Linked(heap', 1) : heap'[b].model \in Linked(heap, 2)
  PROVE  ModelsAsRead'
<1>1. \A m \in Linked(heap, 2) :
        \E i \in ReadSoFar("Modol") : ModelFrom(heap', m, i) /\ heap'[m].id = heap[m].id
  BY ModelKept DEF ModelsAsRead
<1>2. \A m, i : ModelFrom(heap', m, i) => ModelFrom(heap, m, i)'
  BY DEF ModelFrom
<1>3. \A i \in ReadSoFar("Modol") : \E m \in Linked(heap, 2) : heap'[m].id = document[i].id
  <2> SUFFICES ASSUME NEW i \in ReadSoFar("Modol")
               PROVE  \E m \in Linked(heap, 2) : heap'[m].id = document[i].id
    OBVIOUS
  <2>1. PICK m \in Linked(heap, 2) : heap[m].id = document[i].id
    BY DEF ModelsAsRead
  <2> QED
    BY <1>1, <2>1
<1>4. (\A i \in ReadSoFar("Modol") : \E m \in Linked(heap, 2) : heap[m].id = document[i].id)'
  BY <1>3
<1>5. (\A m \in Linked(heap, 2) : \E i \in ReadSoFar("Modol") : ModelFrom(heap, m, i))'
  BY <1>1, <1>2
<1> QED
  BY <1>4, <1>5 DEF ModelsAsRead

\* The builds of the list keep their models.
LEMMA BuildsHaveModels ==
  ASSUME HeapInv, 1 \in Lists(heap), ModelsAsRead, NEW L, Grown(heap, heap', L),
         NEW b \in Linked(heap, 1)
  PROVE  heap'[b].model \in Linked(heap, 2)
<1>1. b \in Block /\ heap[b].kind = "build"
  BY LinkedIs DEF KindOf
<1>2. heap'[b].model = heap[b].model
  BY <1>1 DEF Grown, Alike
<1> QED
  BY <1>2 DEF ModelsAsRead

\* The document stays in order, or out of order.
LEMMA OrderStays ==
  ASSUME document' = document
  PROVE  InOrder' <=> InOrder
BY DEF InOrder, Elements, Models

\* While a document in order is read, all is as read.
LEMMA ReadingIs ==
  ASSUME Inv, ReadInOrder, InOrder, NEW tag, Parsing(tag)
  PROVE  /\ StateOK /\ HeapInv /\ RoomLeft /\ BuildsOK /\ HeapOK(heap)
         /\ 1 \in Lists(heap) /\ 2 \in Lists(heap)
         /\ ModelsAsRead /\ EntriesOK(Entries(heap), ReadSoFar("BuildList"))
<1>1. StateOK /\ HeapInv /\ RoomLeft /\ BuildsOK
  BY DEF Inv
<1>2. freeing = "not yet"
  BY <1>1, ParsingIs
<1> QED
  BY <1>1, <1>2 DEF ReadInOrder, HeapInv

\* Elements that leave the heap alone.
LEMMA ReadPassed ==
  ASSUME Inv, ReadInOrder, InOrder, NEW tag, Parsing(tag), tag \notin {"Modol", "BuildList"},
         curNode' = curNode + 1, UNCHANGED <<document, heap>>
  PROVE  ModelsAsRead' /\ EntriesOK(Entries(heap), ReadSoFar("BuildList"))'
<1>1. ModelsAsRead /\ EntriesOK(Entries(heap), ReadSoFar("BuildList")) /\ StateOK
  BY ReadingIs
<1>2. /\ ReadSoFar("Modol")' = ReadSoFar("Modol")
      /\ ReadSoFar("BuildList")' = ReadSoFar("BuildList")
  BY <1>1, ReadMore
<1>3. ModelsAsRead'
  BY <1>1, <1>2 DEF ModelsAsRead, ModelFrom
<1>4. EntriesOK(Entries(heap), ReadSoFar("BuildList"))'
  BY <1>1, <1>2 DEF EntriesOK, Entries, LastFields
<1> QED
  BY <1>3, <1>4

\* One more model.
LEMMA ReadModol ==
  ASSUME Inv, ReadInOrder, InOrder, Modol
  PROVE  ModelsAsRead' /\ EntriesOK(Entries(heap), ReadSoFar("BuildList"))'
<1>1. Parsing("Modol") /\ curNode' = curNode + 1 /\ document' = document
  BY DEF Modol, NextElement
<1>2. /\ StateOK /\ HeapInv /\ RoomLeft /\ BuildsOK /\ HeapOK(heap)
      /\ 1 \in Lists(heap) /\ 2 \in Lists(heap)
      /\ ModelsAsRead /\ EntriesOK(Entries(heap), ReadSoFar("BuildList"))
  BY <1>1, ReadingIs
<1>3. /\ ReadSoFar("Modol")' = ReadSoFar("Modol") \cup {curNode}
      /\ ReadSoFar("BuildList")' = ReadSoFar("BuildList")
  BY <1>1, <1>2, ReadMore
<1>4. curNode \in Elements("Modol") /\ Element = document[curNode]
  BY <1>1, <1>2, ParsingIs DEF Elements, Element
<1>5. ModelAdded
  <2>1. ~Element.empty
    BY <1>4 DEF InOrder
  <2> QED
    BY <1>2, <2>1, HeapModol
<1>6. Grown(heap, heap', {2})
  BY <1>5 DEF ModelAdded
<1>7. PICK x \in Block :
        /\ Linked(heap', 2) = Linked(heap, 2) \cup {x}
        /\ heap'[x].id = Element.id
        /\ CellsRead(heap', heap'[x].cellList, Element.items, Len(Element.items))
  BY <1>5 DEF ModelAdded, ModelRead
<1>8. ModelFrom(heap', x, curNode)
  BY <1>4, <1>7 DEF ModelFrom
<1>9. ModelsStay
  BY <1>6, GrownStays
<1>10. \A m \in Linked(heap, 2) :
         \E i \in ReadSoFar("Modol") : ModelFrom(heap', m, i) /\ heap'[m].id = heap[m].id
  BY <1>2, <1>9, ModelKept DEF ModelsAsRead
<1>11. \A m, i : ModelFrom(heap', m, i) => ModelFrom(heap, m, i)'
  BY <1>1 DEF ModelFrom
<1>12. \A m \in Linked(heap', 2) : \E i \in ReadSoFar("Modol")' : ModelFrom(heap, m, i)'
  BY <1>3, <1>7, <1>8, <1>10, <1>11
<1>13. \A i \in ReadSoFar("Modol")' : \E m \in Linked(heap', 2) : heap'[m].id = document[i].id
  <2> SUFFICES ASSUME NEW i \in ReadSoFar("Modol")'
               PROVE  \E m \in Linked(heap', 2) : heap'[m].id = document[i].id
    OBVIOUS
  <2>1. CASE i = curNode
    BY <1>4, <1>7, <2>1
  <2>2. CASE i \in ReadSoFar("Modol")
    <3>1. PICK m \in Linked(heap, 2) : heap[m].id = document[i].id
      BY <1>2, <2>2 DEF ModelsAsRead
    <3> QED
      BY <1>7, <1>10, <3>1
  <2> QED
    BY <1>3, <2>1, <2>2
<1>14. \A b \in Linked(heap', 1) : heap'[b].model \in Linked(heap', 2)
  <2>1. Linked(heap', 1) = Linked(heap, 1)
    BY <1>2, <1>6 DEF Grown
  <2>2. \A b \in Linked(heap, 1) : heap'[b].model \in Linked(heap, 2)
    BY <1>2, <1>6, BuildsHaveModels
  <2> QED
    BY <1>7, <2>1, <2>2
<1>15. ModelsAsRead'
  BY <1>1, <1>12, <1>13, <1>14 DEF ModelsAsRead
<1>16. Entries(heap') = Entries(heap)
  BY <1>2, <1>6, EntriesKept
<1>17. EntriesOK(Entries(heap), ReadSoFar("BuildList"))'
  BY <1>1, <1>2, <1>3, <1>16 DEF EntriesOK, LastFields
<1> QED
  BY <1>15, <1>17

\* The element of a build, and the entries before it.
LEMMA NextBuild ==
  ASSUME Inv, ReadInOrder, InOrder, Parsing("BuildList"), curNode' = curNode + 1,
         document' = document
  PROVE  LET f == Element.fields
             R == ReadSoFar("BuildList")
         IN  /\ NextEntry(Entries(heap), R, curNode, f)
             /\ EntryOf(ReadBuild(Element).bytes, f) /\ MODID(ReadBuild(Element)) = f[4]
             /\ ReadSoFar("BuildList")' = R \cup {curNode}
             /\ ReadSoFar("Modol")' = ReadSoFar("Modol")
             /\ Models(curNode) # {}
<1>1. StateOK /\ EntriesOK(Entries(heap), ReadSoFar("BuildList"))
  BY ReadingIs
<1>2. /\ ReadSoFar("BuildList")' = ReadSoFar("BuildList") \cup {curNode}
      /\ ReadSoFar("Modol")' = ReadSoFar("Modol")
      /\ ReadSoFar("BuildList") \in SUBSET Nat /\ curNode \in Nat
      /\ \A i \in ReadSoFar("BuildList") : i < curNode
  BY <1>1, ReadMore
<1>3. /\ FieldsOK(Element.fields) /\ NextFields(ReadSoFar("BuildList"), Element.fields)
      /\ Models(curNode) # {}
  BY <1>1, BuildInOrder
<1>4. Element \in ElementRec /\ Element.tag = "BuildList" /\ Element = document[curNode]
  BY <1>1, ParsingIs DEF Element
<1>5. EntryOf(ReadBuild(Element).bytes, Element.fields)
      /\ MODID(ReadBuild(Element)) = Element.fields[4]
  BY <1>3, <1>4, ReadBuildBytes
<1>6. NextEntry(Entries(heap), ReadSoFar("BuildList"), curNode, Element.fields)
  BY <1>1, <1>2, <1>3, <1>4 DEF NextEntry
<1> QED
  BY <1>2, <1>3, <1>5, <1>6

\* One more build.
LEMMA ReadAddBuild ==
  ASSUME Inv, ReadInOrder, InOrder, AddBuild
  PROVE  ModelsAsRead' /\ EntriesOK(Entries(heap), ReadSoFar("BuildList"))'
<1>1. Parsing("BuildList") /\ curNode' = curNode + 1 /\ document' = document
  BY DEF AddBuild, NextElement
<1>2. /\ StateOK /\ HeapInv /\ RoomLeft /\ BuildsOK /\ HeapOK(heap)
      /\ 1 \in Lists(heap) /\ 2 \in Lists(heap) /\ ModelsAsRead /\ area.buildList = 1
  BY <1>1, ReadingIs DEF StateOK
<1> DEFINE f == Element.fields
           R == ReadSoFar("BuildList")
           B == Entries(heap)
           r == ReadBuild(Element)
<1>3. /\ NextEntry(B, R, curNode, f) /\ EntryOf(r.bytes, f) /\ MODID(r) = f[4]
      /\ ReadSoFar("BuildList")' = R \cup {curNode}
      /\ ReadSoFar("Modol")' = ReadSoFar("Modol")
  BY <1>1, NextBuild
<1>4. PICK x \in Block, m \in Linked(heap, 2) :
        /\ Grown(heap, heap', {1}) /\ Nodes(heap', 1) = Append(Nodes(heap, 1), x)
        /\ heap'[x].bytes = r.bytes /\ heap'[x].model = m
  BY <1>2, HeapAddBuild DEF BuildAdded
<1>5. \A p \in DOMAIN B : B[p][4] # f[4]
  <2> SUFFICES ASSUME NEW p \in DOMAIN B PROVE B[p][4] # f[4]
    OBVIOUS
  <2> DEFINE y == Nodes(heap, 1)[p]
  <2>1. p \in DOMAIN Nodes(heap, 1) /\ B[p] = heap[y].bytes
    BY <1>2, EntriesIs
  <2>2. MODID(heap[y]) # MODID(r)
    BY <1>2, <2>1 DEF AddBuild, NewBuild, Listed, Positions
  <2> QED
    BY <1>3, <2>1, <2>2 DEF MODID
<1>6. Entries(heap') = Append(B, r.bytes)
  BY <1>2, <1>4, EntriesMore
<1> HIDE DEF B, R, r, f
<1>7. EntriesOK(Entries(heap'), R \cup {curNode})
  BY <1>3, <1>5, <1>6, EntryAdded
<1>8. EntriesOK(Entries(heap), ReadSoFar("BuildList"))'
  BY <1>1, <1>3, <1>7 DEF EntriesOK, LastFields
<1>9. Linked(heap', 2) = Linked(heap, 2) /\ ModelsStay
  <2>1. {1} \subseteq {1, 2} /\ 2 \in Lists(heap) \ {1}
    BY <1>2
  <2> QED
    BY <1>4, <2>1, GrownStays DEF Grown
<1>10. Linked(heap', 1) = Linked(heap, 1) \cup {x}
  <2> DEFINE s == Nodes(heap, 1)
             t == Nodes(heap', 1)
             n == Len(s)
  <2>1. s \in Seq(Block) /\ n \in Nat /\ t = Append(s, x)
    BY <1>2, <1>4, EntriesIs
  <2> HIDE DEF s, t
  <2>2. Len(t) = n + 1 /\ t[n + 1] = x /\ \A p \in 1 .. n : t[p] = s[p]
    BY <2>1
  <2> HIDE DEF n
  <2>3. 1 .. n + 1 = (1 .. n) \cup {n + 1}
    BY <2>1
  <2>4. {t[p] : p \in 1 .. n + 1} = {s[p] : p \in 1 .. n} \cup {x}
    BY <2>2, <2>3
  <2> QED
    BY <2>2, <2>4 DEF s, t, n, Linked
<1>11. \A b \in Linked(heap', 1) : heap'[b].model \in Linked(heap, 2)
  BY <1>2, <1>4, <1>10, BuildsHaveModels
<1>12. ModelsAsRead'
  BY <1>1, <1>2, <1>3, <1>9, <1>11, ModelsKept
<1> QED
  BY <1>8, <1>12

\* One building more.
LEMMA ReadExtendBuild ==
  ASSUME Inv, ReadInOrder, InOrder, ExtendBuild
  PROVE  ModelsAsRead' /\ EntriesOK(Entries(heap), ReadSoFar("BuildList"))'
<1>1. Parsing("BuildList") /\ curNode' = curNode + 1 /\ document' = document
  BY DEF ExtendBuild, NextElement
<1>2. /\ StateOK /\ HeapInv /\ RoomLeft /\ BuildsOK /\ HeapOK(heap)
      /\ 1 \in Lists(heap) /\ 2 \in Lists(heap) /\ ModelsAsRead /\ area.buildList = 1
  BY <1>1, ReadingIs DEF StateOK
<1> DEFINE f == Element.fields
           R == ReadSoFar("BuildList")
           B == Entries(heap)
           C == Entries(heap')
           s == Nodes(heap, 1)
<1>3. /\ NextEntry(B, R, curNode, f) /\ MODID(ReadBuild(Element)) = f[4]
      /\ ReadSoFar("BuildList")' = R \cup {curNode}
      /\ ReadSoFar("Modol")' = ReadSoFar("Modol")
  BY <1>1, NextBuild
<1>4. HeapInv' /\ BuildExtended /\ freeing' = "not yet"
  <2>1. freeing' = "not yet"
    BY <1>1, <1>2, ParsingIs DEF ExtendBuild
  <2> QED
    BY <1>2, <2>1, HeapExtendBuild
<1>5. PICK p \in Listed :
        /\ s[p] \in Block /\ heap[s[p]] \in BuildRec
        /\ heap'[s[p]] = [heap[s[p]] EXCEPT !.bytes[3] = OneMore(heap[s[p]].bytes[3])]
        /\ \A b \in Block \ {s[p]} : heap'[b] = heap[b]
        /\ \A l \in Lists(heap) : Nodes(heap', l) = Nodes(heap, l)
                                  /\ Linked(heap', l) = Linked(heap, l)
  BY <1>4 DEF BuildExtended
<1> DEFINE x == s[p]
<1>6. p \in DOMAIN s /\ MODID(heap[x]) = f[4]
  BY <1>2, <1>3 DEF Listed, Positions
<1>7. /\ heap'[x].bytes = [heap[x].bytes EXCEPT ![3] = OneMore(heap[x].bytes[3])]
      /\ heap'[x].kind = "build" /\ heap[x].kind = "build" /\ heap'[x].model = heap[x].model
  <2> DEFINE r == heap[x]
  <2>1. r \in BuildRec /\ heap'[x] = [r EXCEPT !.bytes[3] = OneMore(r.bytes[3])]
    BY <1>5
  <2> HIDE DEF r
  <2>2. heap'[x].bytes = [r.bytes EXCEPT ![3] = OneMore(r.bytes[3])]
        /\ heap'[x].kind = "build" /\ r.kind = "build" /\ heap'[x].model = r.model
    BY <2>1 DEF BuildRec
  <2> QED
    BY <2>2 DEF r
<1>8. HeapOK(heap') /\ 1 \in Lists(heap') /\ Nodes(heap', 1) = s
  BY <1>2, <1>4, <1>5 DEF HeapInv
<1>9. /\ DOMAIN B = 1 .. Len(s) /\ DOMAIN s = 1 .. Len(s)
      /\ \A q \in 1 .. Len(s) : s[q] \in Block /\ B[q] = heap[s[q]].bytes
      /\ \A q, v \in 1 .. Len(s) : s[q] = s[v] => q = v
  BY <1>2, EntriesIs
<1>10. /\ DOMAIN C = 1 .. Len(s) /\ C \in Seq([1 .. 7 -> Byte])
       /\ \A q \in 1 .. Len(s) : C[q] = heap'[s[q]].bytes
  <2> DEFINE t == Nodes(heap', 1)
  <2>1. /\ DOMAIN C = 1 .. Len(t) /\ C \in Seq([1 .. 7 -> Byte])
        /\ \A q \in 1 .. Len(t) : C[q] = heap'[t[q]].bytes
    BY <1>8, EntriesIs
  <2>2. t = s
    BY <1>8
  <2> HIDE DEF t, C, s
  <2> QED
    BY <2>1, <2>2
<1>11. OneBuildingMore(B, C, p) /\ p \in DOMAIN B /\ B[p][4] = f[4]
  <2> HIDE DEF B, C, s
  <2>1. p \in 1 .. Len(s) /\ B[p] = heap[x].bytes /\ C[p] = heap'[x].bytes
    BY <1>6, <1>9, <1>10
  <2>2. B[p][4] = f[4]
    BY <1>6, <2>1 DEF MODID
  <2>3. \A q \in DOMAIN B \ {p} : C[q] = B[q]
    BY <1>5, <1>9, <1>10, <2>1
  <2>4. C[p] = [B[p] EXCEPT ![3] = OneMore(B[p][3])]
    BY <1>7, <2>1
  <2> QED
    BY <1>9, <1>10, <2>1, <2>2, <2>3, <2>4 DEF OneBuildingMore
<1>12. ModelsStay
  <2>1. \A b \in Block : heap[b].kind \in {"model", "cell"} => heap'[b] = heap[b]
    BY <1>5, <1>7
  <2> QED
    BY <1>5, <2>1, AlikeItself DEF ModelsStay
<1>13. \A b \in Linked(heap', 1) : heap'[b].model \in Linked(heap, 2)
  <2> SUFFICES ASSUME NEW b \in Linked(heap, 1) PROVE heap'[b].model \in Linked(heap, 2)
    BY <1>2, <1>5
  <2>1. b \in Block /\ heap[b].model \in Linked(heap, 2)
    BY <1>2, LinkedIs DEF ModelsAsRead
  <2>2. CASE b = x
    BY <1>7, <2>1, <2>2
  <2>3. CASE b # x
    BY <1>5, <2>1, <2>3
  <2> QED
    BY <2>2, <2>3
<1> HIDE DEF B, C, R, f, s
<1>14. EntriesOK(C, R \cup {curNode})
  BY <1>3, <1>11, EntryExtended
<1>15. EntriesOK(Entries(heap), ReadSoFar("BuildList"))'
  BY <1>1, <1>3, <1>14 DEF EntriesOK, LastFields, C
<1>16. ModelsAsRead'
  <2>1. Linked(heap', 2) = Linked(heap, 2)
    BY <1>2, <1>5
  <2> QED
    BY <1>1, <1>2, <1>3, <1>12, <1>13, <2>1, ModelsKept
<1> QED
  BY <1>15, <1>16

\* In a document in order no build is lost.
LEMMA NoBuildLost ==
  ASSUME Inv, ReadInOrder, InOrder, Parsing("BuildList"), curNode' = curNode + 1,
         document' = document
  PROVE  ~LoseBuild
<1>1. /\ StateOK /\ HeapInv /\ 2 \in Lists(heap) /\ ModelsAsRead /\ modelList = 2
  BY ReadingIs DEF StateOK
<1>2. Models(curNode) # {}
  BY NextBuild
<1>3. PICK i \in Elements("Modol") :
        i < curNode /\ document[i].id = MODID(ReadBuild(document[curNode]))
  BY <1>2 DEF Models
<1>4. PICK m \in Linked(heap, 2) : heap[m].id = document[i].id
  BY <1>1, <1>3 DEF ModelsAsRead, ReadSoFar
<1>5. PICK p \in DOMAIN Nodes(heap, 2) : Nodes(heap, 2)[p] = m
  BY <1>1, LinkedIs
<1>6. p \in Fitting
  BY <1>1, <1>3, <1>4, <1>5 DEF Fitting, Positions, Element
<1> QED
  BY <1>6 DEF LoseBuild

\* One step for every action.
LEMMA NextRead ==
  ASSUME Inv, ReadInOrder, Next
  PROVE  ReadInOrder'
<1>g. {MANAGE, AREAGATE, GUARD} = 1 .. 3
  BY DEF MANAGE, AREAGATE, GUARD
<1>t. \A g \in 1 .. 3 : GuardTag[g] \notin {"Modol", "BuildList"}
  BY DEF GuardTag
<1> SUFFICES ASSUME InOrder', freeing' = "not yet"
             PROVE  ModelsAsRead' /\ EntriesOK(Entries(heap), ReadSoFar("BuildList"))'
  BY DEF ReadInOrder
<1>0. document' = document /\ StateOK
  BY DEF Inv, Next, Modol, ExtendBuild, AddBuild, LoseBuild, Guard, NetItem, Other,
         EndOfDocument, TakeBuild, FreeCell, FreeModel, FreeBuildList
<1>1. InOrder
  BY <1>0, OrderStays
<1>2. CASE Modol
  BY <1>1, <1>2, ReadModol
<1>3. CASE ExtendBuild
  BY <1>1, <1>3, ReadExtendBuild
<1>4. CASE AddBuild
  BY <1>1, <1>4, ReadAddBuild
<1>5. CASE LoseBuild
  <2>1. Parsing("BuildList") /\ curNode' = curNode + 1
    BY <1>5 DEF LoseBuild, NextElement
  <2> QED
    BY <1>0, <1>1, <1>5, <2>1, NoBuildLost
<1>6. CASE \E g \in {MANAGE, AREAGATE, GUARD} : Guard(g)
  <2>1. PICK g \in 1 .. 3 : Guard(g)
    BY <1>6, <1>g
  <2>2. Parsing(GuardTag[g]) /\ curNode' = curNode + 1 /\ UNCHANGED <<document, heap>>
    BY <2>1 DEF Guard, NextElement
  <2> QED
    BY <1>1, <1>t, <2>2, ReadPassed
<1>7. CASE NetItem
  <2>1. Parsing("NETITEM") /\ curNode' = curNode + 1 /\ UNCHANGED <<document, heap>>
    BY <1>7 DEF NetItem, NextElement
  <2> QED
    BY <1>1, <2>1, ReadPassed
<1>8. CASE Other
  <2>1. Parsing("DEVNAME") /\ curNode' = curNode + 1 /\ UNCHANGED <<document, heap>>
    BY <1>8 DEF Other, NextElement
  <2> QED
    BY <1>1, <2>1, ReadPassed
<1>9. CASE EndOfDocument
  BY <1>9 DEF EndOfDocument
<1>10. CASE TakeBuild
  BY <1>10 DEF TakeBuild
<1>11. CASE FreeCell
  BY <1>0, <1>11 DEF FreeCell, StateOK
<1>12. CASE FreeModel
  BY <1>0, <1>12 DEF FreeModel, StateOK
<1>13. CASE FreeBuildList
  BY <1>13 DEF FreeBuildList
<1> QED
  BY <1>2, <1>3, <1>4, <1>5, <1>6, <1>7, <1>8, <1>9, <1>10, <1>11, <1>12, <1>13 DEF Next

\* At first nothing is read.
LEMMA InitRead ==
  ASSUME Init
  PROVE  ReadInOrder
<1>1. StateOK /\ HeapInv /\ curNode = 1 /\ freeing = "not yet"
  BY InitState, InitHeap DEF Init
<1>2. HeapOK(heap) /\ 1 \in Lists(heap) /\ 2 \in Lists(heap)
  BY <1>1 DEF HeapInv
<1>3. /\ Nodes(heap, 1) = <<>> /\ Linked(heap, 1) = {} /\ Linked(heap, 2) = {}
  <2>1. heap[1] = linklist_create /\ heap[2] = linklist_create
    <3>1. heap = [b \in Block |-> IF b <= 2 THEN linklist_create ELSE Free]
      BY DEF Init
    <3>2. 1 \in Block /\ 2 \in Block
      BY <1>2 DEF Lists
    <3> QED
      BY <3>1, <3>2
  <2>2. /\ heap[1].length = 0 /\ heap[1].next = NULL
        /\ heap[2].length = 0 /\ heap[2].next = NULL
    BY <2>1 DEF linklist_create
  <2> QED
    BY <2>2, EmptyList
<1>4. \A t : ReadSoFar(t) = {}
  <2> SUFFICES ASSUME NEW t, NEW i \in Elements(t) PROVE ~(i < 1)
    BY <1>1 DEF ReadSoFar
  <2>1. i \in DOMAIN document
    BY DEF Elements
  <2>2. DOMAIN document = 1 .. Len(document)
    <3> DEFINE ER == ElementRec
    <3>1. document \in Seq(ER)
      BY <1>1, DocumentsAssumption DEF StateOK
    <3> HIDE DEF ER
    <3> QED
      BY <3>1
  <2> DEFINE n == Len(document)
  <2> HIDE DEF n
  <2>3. i \in 1 .. n
    BY <2>1, <2>2 DEF n
  <2> QED
    BY <2>3
<1>5. Entries(heap) = <<>> /\ Entries(heap) \in Seq([1 .. 7 -> Byte])
  <2> DEFINE B == Entries(heap)
             BY7 == [1 .. 7 -> Byte]
             s == Nodes(heap, 1)
  <2>1. B \in Seq(BY7) /\ Len(B) = Len(s) /\ s = <<>>
    BY <1>2, <1>3, EntriesIs
  <2> HIDE DEF B, BY7, s
  <2>2. Len(B) = 0
    BY <2>1
  <2>3. B = <<>>
    BY <2>1, <2>2
  <2> QED
    BY <2>1, <2>3 DEF B, BY7
<1>6. EntriesOK(Entries(heap), ReadSoFar("BuildList"))
  <2>1. DOMAIN Entries(heap) = {}
    BY <1>5
  <2> QED
    BY <1>4, <1>5, <2>1 DEF EntriesOK, Ascend
<1>7. ModelsAsRead
  BY <1>3, <1>4 DEF ModelsAsRead
<1> QED
  BY <1>6, <1>7 DEF ReadInOrder

\* A document in order is read so that the listed models are those of its elements, and
\* the listed builds ascend and have the buildings of its elements, the last one of them
\* those of the last element.
THEOREM ReadInvariant == Spec => []ReadInOrder
<1>1. Init => ReadInOrder
  BY InitRead
<1>2. Inv /\ ReadInOrder /\ [Next]_vars => ReadInOrder'
  <2> SUFFICES ASSUME Inv, ReadInOrder, UNCHANGED vars PROVE ReadInOrder'
    BY NextRead
  <2>1. UNCHANGED <<document, curNode, heap, freeing>>
    BY DEF vars
  <2>2. InOrder' <=> InOrder
    BY <2>1, OrderStays
  <2>3. \A t : ReadSoFar(t)' = ReadSoFar(t)
    BY <2>1 DEF ReadSoFar, Elements
  <2>4. ModelsAsRead => ModelsAsRead'
    BY <2>1, <2>3 DEF ModelsAsRead, ModelFrom
  <2>5. EntriesOK(Entries(heap), ReadSoFar("BuildList"))
          => EntriesOK(Entries(heap), ReadSoFar("BuildList"))'
    BY <2>1, <2>3 DEF EntriesOK, Entries, LastFields
  <2> QED
    BY <2>1, <2>2, <2>4, <2>5 DEF ReadInOrder
<1> QED
  BY <1>1, <1>2, ConfigInvariant, PTL DEF Spec

\* The cells of a model that was read are those of its element.
LEMMA CellsWritten ==
  ASSUME StateOK, InOrder, NEW l, NEW i \in Elements("Modol"),
         CellsRead(heap, l, document[i].items, Len(document[i].items))
  PROVE  CellsOf(l) = WrittenCells(document[i].items)
<1> DEFINE items == document[i].items
           k == Len(items)
           s == Nodes(heap, l)
           CV == [1 .. 9 -> Value]
<1>1. items \in Seq(CV) /\ \A n \in DOMAIN items : Blank \notin Range(items[n])
  <2> DEFINE ER == ElementRec
  <2>1. document \in Seq(ER) /\ i \in DOMAIN document
    BY DocumentsAssumption DEF StateOK, Elements
  <2> HIDE DEF ER
  <2>2. document[i] \in ER
    BY <2>1
  <2>3. document[i] \in ElementRec /\ document[i].tag = "Modol"
    BY <2>2 DEF ER, Elements
  <2> QED
    BY <2>3, Fields DEF InOrder
<1>2. s \in Seq(Block) /\ Len(s) = k /\ \A n \in 1 .. k : CellAt(heap, s[n], items[n])
  BY DEF CellsRead
<1>3. CellsOf(l) = [n \in DOMAIN s |-> CellOf(heap[s[n]].bytes)]
  BY DEF CellsOf
<1>4. WrittenCells(items) = [n \in DOMAIN items |-> CellOf([v \in 1 .. 9 |-> Written(items[n][v])])]
  BY DEF WrittenCells
<1> HIDE DEF items, s, CV
<1>5. k \in Nat /\ DOMAIN items = 1 .. k /\ DOMAIN s = 1 .. k /\ \A n \in 1 .. k : items[n] \in CV
  BY <1>1, <1>2
<1> HIDE DEF k
<1>6. ASSUME NEW n \in 1 .. k
      PROVE  CellOf(heap[s[n]].bytes) = CellOf([v \in 1 .. 9 |-> Written(items[n][v])])
  <2> DEFINE f == items[n]
             z == Zeros(12)
             b == fillInfo(f, z, 1)
             w == [v \in 1 .. 9 |-> Written(f[v])]
  <2>1. heap[s[n]].bytes = b
    BY <1>2 DEF CellAt
  <2>2. f \in [1 .. 9 -> Value] /\ \A v \in 1 .. 9 : f[v] # Blank
    <3>1. f \in CV /\ Blank \notin Range(f)
      BY <1>1, <1>5
    <3> QED
      BY <3>1 DEF CV, Range
  <2>3. z \in [1 .. 12 -> Byte] /\ \A v \in 1 .. 12 : z[v] = 0
    <3>1. 12 \in Nat
      OBVIOUS
    <3> QED
      BY <3>1, ZerosOK DEF Zeros
  <2> HIDE DEF f, z
  <2>4. PlainReady(f, 9, z, 12, 0)
    BY <2>2, <2>3 DEF PlainReady
  <2>5. PlainDone(b, f, 9, z, 12, 0)
    <3>1. PlainDone(fillInfo(f, z, 0 + 1), f, 9, z, 12, 0)
      BY <2>4, PlainFill
    <3>2. 0 + 1 = 1
      OBVIOUS
    <3> QED
      BY <3>1, <3>2
  <2> HIDE DEF b
  <2>6. \A v \in 1 .. 9 : b[v] = w[v]
    <3> SUFFICES ASSUME NEW v \in 1 .. 9 PROVE b[v] = w[v]
      OBVIOUS
    <3>1. b[0 + v] = Written(f[v]) /\ 0 + v = v
      BY <2>5 DEF PlainDone
    <3> QED
      BY <3>1
  <2> HIDE DEF w
  <2>7. CellOf(b) = CellOf(w)
    BY <2>6 DEF CellOf
  <2> QED
    BY <2>1, <2>7 DEF w, f
<1> QED
  BY <1>3, <1>4, <1>5, <1>6 DEF items

\* What there is at the end of a document in order: entries B of the listed builds s.
AllRead(s, B) ==
  /\ s = Nodes(heap, 1) /\ B = Entries(heap) /\ DOMAIN s = DOMAIN B
  /\ DOMAIN B = 1 .. Len(B) /\ Len(B) \in Nat /\ Len(B) > 0
  /\ \A p \in DOMAIN B : B[p] \in [1 .. 7 -> Byte] /\ B[p] = heap[s[p]].bytes
  /\ Ascend(B)
  /\ \A j \in Elements("BuildList") : \E p \in DOMAIN B : Holds(B[p], document[j].fields)
  /\ \A p \in DOMAIN B : \E i \in Elements("Modol") :
       /\ document[i].id = B[p][4]
       /\ CellsOf(heap[heap[s[p]].model].cellList) = WrittenCells(document[i].items)

\* The document is read, and nothing freed.
AtEnd == curNode = Len(document) + 1 /\ freeing = "not yet"

\* At the end every element is read.
LEMMA ReadToEnd ==
  ASSUME StateOK, AtEnd, NEW t
  PROVE  ReadSoFar(t) = Elements(t)
<1> DEFINE ER == ElementRec
           k == Len(document)
<1>1. document \in Seq(ER)
  BY DocumentsAssumption DEF StateOK
<1> HIDE DEF ER
<1>2. DOMAIN document = 1 .. k /\ k \in Nat
  BY <1>1
<1>3. curNode = k + 1
  BY DEF AtEnd
<1> HIDE DEF k
<1>4. \A i \in 1 .. k : i < curNode
  BY <1>2, <1>3
<1> QED
  BY <1>2, <1>4 DEF ReadSoFar, Elements

\* So it is at the end.
LEMMA AllIsRead ==
  ASSUME Inv, ReadInOrder, InOrder, AtEnd
  PROVE  AllRead(Nodes(heap, 1), Entries(heap))
<1> DEFINE s == Nodes(heap, 1)
           B == Entries(heap)
           n == Len(s)
           BY7 == [1 .. 7 -> Byte]
<1>1. /\ StateOK /\ HeapInv /\ HeapOK(heap) /\ BuildsOK /\ 1 \in Lists(heap) /\ 2 \in Lists(heap)
      /\ ModelsAsRead /\ EntriesOK(B, ReadSoFar("BuildList"))
  BY DEF Inv, HeapInv, ReadInOrder, AtEnd
<1>2. \A t : ReadSoFar(t) = Elements(t)
  BY <1>1, ReadToEnd
<1>3. /\ n \in Nat /\ DOMAIN s = 1 .. n /\ DOMAIN B = 1 .. n /\ B \in Seq(BY7) /\ Len(B) = n
      /\ \A p \in 1 .. n : s[p] \in Linked(heap, 1) /\ s[p] \in Block /\ B[p] = heap[s[p]].bytes
  BY <1>1, EntriesIs
<1>4. /\ Ascend(B) /\ \A j \in Elements("BuildList") :
                        \E p \in DOMAIN B : Holds(B[p], document[j].fields)
  BY <1>1, <1>2 DEF EntriesOK
<1> HIDE DEF s, B, n, BY7
<1>a. n \in Nat /\ DOMAIN B = 1 .. n
  BY <1>3
<1>5. \A p \in 1 .. n : B[p] \in BY7
  <2>1. B \in Seq(BY7)
    BY <1>3
  <2> QED
    BY <1>a, <2>1
<1>6. n > 0
  <2>1. PICK j \in Elements("BuildList") : TRUE
    BY DEF InOrder
  <2>2. \E p \in 1 .. n : TRUE
    BY <1>a, <1>4
  <2> QED
    BY <1>a, <2>2
<1>7. ASSUME NEW p \in 1 .. n
      PROVE  \E i \in Elements("Modol") :
               /\ document[i].id = B[p][4]
               /\ CellsOf(heap[heap[s[p]].model].cellList) = WrittenCells(document[i].items)
  <2> DEFINE x == s[p]
             m == heap[x].model
  <2>1. x \in Linked(heap, 1) /\ B[p] = heap[x].bytes
    BY <1>3
  <2> HIDE DEF x
  <2>2. m \in Linked(heap, 2) /\ heap[m].id = MODID(heap[x])
    BY <1>1, <2>1 DEF ModelsAsRead, BuildsOK, AtEnd
  <2> HIDE DEF m
  <2>3. PICK i \in Elements("Modol") : ModelFrom(heap, m, i)
    BY <1>1, <1>2, <2>2 DEF ModelsAsRead
  <2>4. CellsOf(heap[m].cellList) = WrittenCells(document[i].items)
    BY <1>1, <2>3, CellsWritten DEF ModelFrom
  <2>5. document[i].id = B[p][4]
    BY <2>1, <2>2, <2>3 DEF ModelFrom, MODID
  <2> QED
    BY <2>4, <2>5 DEF x, m
<1> QED
  BY <1>3, <1>4, <1>5, <1>6, <1>7 DEF AllRead, s, B, BY7

\* The entries as the address plan has them.
LEMMA ResultIs ==
  ASSUME StateOK, NEW s, NEW B, AllRead(s, B)
  PROVE  /\ DOMAIN Result.buildList = DOMAIN B
         /\ \A p \in DOMAIN B :
              /\ Result.buildList[p].IPID = B[p][1]
              /\ Result.buildList[p].buildBegin = B[p][2]
              /\ Result.buildList[p].buildEnd = B[p][3]
              /\ Result.buildList[p].cellList = CellsOf(heap[heap[s[p]].model].cellList)
<1>1. s = Nodes(heap, area.buildList) /\ DOMAIN s = DOMAIN B
      /\ \A p \in DOMAIN B : B[p] = heap[s[p]].bytes
  BY DEF AllRead, StateOK
<1>2. Result.buildList = [p \in DOMAIN s |-> BuildOf(s[p])]
  BY <1>1 DEF Result
<1>3. \A p \in DOMAIN B : Result.buildList[p] = BuildOf(s[p])
  BY <1>1, <1>2
<1> DEFINE A == Result.buildList
<1>4. DOMAIN A = DOMAIN B
  BY <1>1, <1>2
<1> HIDE DEF A
<1>5. ASSUME NEW p \in DOMAIN B
      PROVE  /\ A[p].IPID = B[p][1] /\ A[p].buildBegin = B[p][2] /\ A[p].buildEnd = B[p][3]
             /\ A[p].cellList = CellsOf(heap[heap[s[p]].model].cellList)
  <2> DEFINE x == s[p]
  <2>1. A[p] = BuildOf(x) /\ B[p] = heap[x].bytes
    BY <1>1, <1>3 DEF A
  <2> HIDE DEF x
  <2>2. /\ BuildOf(x).IPID = heap[x].bytes[1] /\ BuildOf(x).buildBegin = heap[x].bytes[2]
        /\ BuildOf(x).buildEnd = heap[x].bytes[3]
        /\ BuildOf(x).cellList = CellsOf(heap[heap[x].model].cellList)
    BY DEF BuildOf, IPID, buildBegin, buildEnd
  <2> QED
    BY <2>1, <2>2 DEF x
<1> QED
  BY <1>4, <1>5 DEF A

\* Such a document gives an area with its buildings and cells in order.
LEMMA OrderFollows ==
  ASSUME StateOK, InOrder, NEW s, NEW B, AllRead(s, B)
  PROVE  BuildingsInOrder(Result)
<1> DEFINE A == Result.buildList
           n == Len(B)
<1>1. /\ DOMAIN B = 1 .. n /\ n \in Nat /\ n > 0 /\ Ascend(B)
      /\ \A p \in DOMAIN B : B[p] \in [1 .. 7 -> Byte]
      /\ \A p \in DOMAIN B : \E i \in Elements("Modol") :
           CellsOf(heap[heap[s[p]].model].cellList) = WrittenCells(document[i].items)
  BY DEF AllRead
<1>2. /\ DOMAIN A = 1 .. n
      /\ \A p \in 1 .. n :
           /\ A[p].buildBegin = B[p][2] /\ A[p].buildEnd = B[p][3]
           /\ A[p].cellList = CellsOf(heap[heap[s[p]].model].cellList)
  BY <1>1, ResultIs
<1>3. \A i \in Elements("Modol") : CellsInOrder(WrittenCells(document[i].items))
  BY DEF InOrder
<1> HIDE DEF A, n
<1>4. A # <<>>
  <2>1. 1 \in DOMAIN A
    BY <1>1, <1>2
  <2> QED
    BY <2>1
<1>5. ASSUME NEW p \in 1 .. n
      PROVE  /\ 1 <= A[p].buildBegin /\ A[p].buildBegin <= A[p].buildEnd
             /\ CellsInOrder(A[p].cellList)
  <2>1. 1 <= B[p][2] /\ B[p][2] <= B[p][3]
    BY <1>1 DEF Ascend
  <2>2. CellsInOrder(CellsOf(heap[heap[s[p]].model].cellList))
    BY <1>1, <1>3
  <2> QED
    BY <1>2, <2>1, <2>2
<1>6. ASSUME NEW p \in 1 .. n, p > 1
      PROVE  A[p - 1].buildEnd < A[p].buildBegin
  <2>0. n \in Nat
    BY <1>1
  <2>1. p - 1 \in 1 .. n /\ p - 1 < p
    BY <1>6, <2>0
  <2>2. B[p - 1][3] < B[p][2]
    BY <1>1, <2>1 DEF Ascend
  <2> QED
    BY <1>2, <2>1, <2>2
<1> QED
  BY <1>2, <1>4, <1>5, <1>6 DEF BuildingsInOrder, A

\* Every building of a document in order lies in one entry.
LEMMA BuildingWritten ==
  ASSUME StateOK, InOrder, NEW s, NEW B, AllRead(s, B),
         NEW j \in Elements("BuildList"),
         NEW n \in document[j].fields[2] .. document[j].fields[3]
  PROVE  \E p \in DOMAIN B :
           /\ {b \in Range(Result.buildList) : b.buildBegin <= n /\ n <= b.buildEnd}
                = {Result.buildList[p]}
           /\ Result.buildList[p].IPID = document[j].fields[1]
           /\ Result.buildList[p].cellList =
                WrittenCells(document[CHOOSE i \in Models(j) : TRUE].items)
<1> DEFINE f == document[j].fields
           A == Result.buildList
           entries == {b \in Range(A) : b.buildBegin <= n /\ n <= b.buildEnd}
           c == CHOOSE i \in Models(j) : TRUE
<1>1. /\ FieldsOK(f) /\ Models(j) # {} /\ document[j] \in ElementRec
      /\ document[j].tag = "BuildList"
  BY FieldsInOrder
<1>2. f[2] \in 1 .. 255 /\ f[3] \in 1 .. 255 /\ MODID(ReadBuild(document[j])) = f[4]
  BY <1>1, FourFields, ReadBuildBytes
<1>3. /\ Ascend(B) /\ \A p \in DOMAIN B : B[p] \in [1 .. 7 -> Byte]
      /\ DOMAIN B = 1 .. Len(B) /\ Len(B) \in Nat
      /\ \E p \in DOMAIN B : Holds(B[p], f)
      /\ \A p \in DOMAIN B : \E i \in Elements("Modol") :
           /\ document[i].id = B[p][4]
           /\ CellsOf(heap[heap[s[p]].model].cellList) = WrittenCells(document[i].items)
  BY DEF AllRead
<1>4. PICK p \in DOMAIN B : Holds(B[p], f)
  BY <1>3
<1>5. PICK i \in Elements("Modol") :
        /\ document[i].id = B[p][4]
        /\ CellsOf(heap[heap[s[p]].model].cellList) = WrittenCells(document[i].items)
  BY <1>3
<1>6. c \in Elements("Modol") /\ document[c].id = f[4]
  <2>1. c \in Models(j)
    BY <1>1
  <2> HIDE DEF c
  <2> QED
    BY <1>2, <2>1 DEF Models
<1>7. i = c
  <2>1. document[i].id = document[c].id
    BY <1>4, <1>5, <1>6 DEF Holds
  <2> HIDE DEF c
  <2> QED
    BY <1>6, <2>1 DEF InOrder
<1>8. /\ DOMAIN A = DOMAIN B
      /\ \A q \in DOMAIN B :
           /\ A[q].IPID = B[q][1] /\ A[q].buildBegin = B[q][2] /\ A[q].buildEnd = B[q][3]
           /\ A[q].cellList = CellsOf(heap[heap[s[q]].model].cellList)
  BY ResultIs
<1>9. n \in Nat /\ f[2] <= n /\ n <= f[3]
  <2> DEFINE x == f[2]
             y == f[3]
  <2>1. x \in 1 .. 255 /\ y \in 1 .. 255 /\ n \in x .. y
    BY <1>2
  <2> HIDE DEF x, y
  <2>2. n \in Nat /\ x <= n /\ n <= y
    BY <2>1
  <2> QED
    BY <2>2 DEF x, y
<1> HIDE DEF f, A, c
<1>10. \A q \in DOMAIN B : B[q][2] \in 0 .. 255 /\ B[q][3] \in 0 .. 255
  <2> SUFFICES ASSUME NEW q \in DOMAIN B PROVE B[q][2] \in 0 .. 255 /\ B[q][3] \in 0 .. 255
    OBVIOUS
  <2> DEFINE b == B[q]
  <2>1. b \in [1 .. 7 -> Byte]
    BY <1>3
  <2> HIDE DEF b
  <2>2. b[2] \in 0 .. 255 /\ b[3] \in 0 .. 255
    BY <2>1, BytesNat
  <2> QED
    BY <2>2 DEF b
<1>11. B[p][2] <= n /\ n <= B[p][3]
  <2> DEFINE x == B[p][2]
             y == B[p][3]
  <2>1. f[2] \in x .. y /\ f[3] \in x .. y /\ x \in 0 .. 255 /\ y \in 0 .. 255
    BY <1>4, <1>10 DEF Holds
  <2> HIDE DEF x, y
  <2>2. x <= n /\ n <= y
    BY <1>2, <1>9, <2>1
  <2> QED
    BY <2>2 DEF x, y
<1>12. ASSUME NEW q \in DOMAIN B, B[q][2] <= n, n <= B[q][3]
       PROVE  q = p
  <2>1. q \in Nat /\ p \in Nat
    BY <1>3
  <2>2. /\ q < p => B[q][3] < B[p][2]
        /\ p < q => B[p][3] < B[q][2]
    BY <1>3 DEF Ascend
  <2>3. /\ B[q][2] \in 0 .. 255 /\ B[q][3] \in 0 .. 255
        /\ B[p][2] \in 0 .. 255 /\ B[p][3] \in 0 .. 255
    BY <1>10
  <2>4. ~(q < p) /\ ~(p < q)
    <3> DEFINE qb == B[q][2]
               qe == B[q][3]
               pb == B[p][2]
               pe == B[p][3]
    <3>1. qb <= n /\ n <= qe /\ pb <= n /\ n <= pe
      BY <1>11, <1>12
    <3>2. qb \in Nat /\ qe \in Nat /\ pb \in Nat /\ pe \in Nat
      BY <2>3
    <3>3. (q < p => qe < pb) /\ (p < q => pe < qb)
      BY <2>2
    <3> HIDE DEF qb, qe, pb, pe
    <3> QED
      BY <1>9, <3>1, <3>2, <3>3
  <2> QED
    BY <2>1, <2>4
<1>13. entries = {A[p]}
  <2>1. A[p] \in entries
    BY <1>8, <1>11 DEF Range
  <2>2. ASSUME NEW b \in entries PROVE b = A[p]
    <3>1. PICK q \in DOMAIN A : b = A[q]
      BY DEF Range
    <3>2. q \in DOMAIN B /\ B[q][2] <= n /\ n <= B[q][3]
      BY <1>8, <3>1
    <3>3. q = p
      BY <1>12, <3>2
    <3> QED
      BY <3>1, <3>3
  <2> HIDE DEF entries
  <2> QED
    BY <2>1, <2>2
<1>14. A[p].IPID = f[1] /\ A[p].cellList = WrittenCells(document[c].items)
  BY <1>4, <1>5, <1>7, <1>8 DEF Holds
<1> QED
  BY <1>13, <1>14 DEF A, f, c

\* What was written is what the area has: AreaAsWritten.
LEMMA WrittenFollows ==
  ASSUME Inv, ReadInOrder
  PROVE  AreaAsWritten
<1> SUFFICES ASSUME InOrder, AtEnd
             PROVE  /\ BuildingsInOrder(Result)
                    /\ \A j \in Elements("BuildList") :
                         LET f == document[j].fields
                             model == document[CHOOSE i \in Models(j) : TRUE]
                         IN  \A n \in f[2] .. f[3] :
                               LET entries == {b \in Range(Result.buildList) :
                                                 b.buildBegin <= n /\ n <= b.buildEnd}
                               IN  /\ Cardinality(entries) = 1
                                   /\ \A b \in entries :
                                        b.IPID = f[1] /\ b.cellList = WrittenCells(model.items)
  BY DEF AreaAsWritten, AtEnd
<1>1. StateOK /\ AllRead(Nodes(heap, 1), Entries(heap))
  BY AllIsRead DEF Inv
<1>2. BuildingsInOrder(Result)
  BY <1>1, OrderFollows
<1>3. ASSUME NEW j \in Elements("BuildList"),
             NEW n \in document[j].fields[2] .. document[j].fields[3]
      PROVE  LET entries == {b \in Range(Result.buildList) :
                               b.buildBegin <= n /\ n <= b.buildEnd}
             IN  /\ Cardinality(entries) = 1
                 /\ \A b \in entries :
                      /\ b.IPID = document[j].fields[1]
                      /\ b.cellList = WrittenCells(document[CHOOSE i \in Models(j) : TRUE].items)
  <2>1. PICK p \in DOMAIN Entries(heap) :
          /\ {b \in Range(Result.buildList) : b.buildBegin <= n /\ n <= b.buildEnd}
               = {Result.buildList[p]}
          /\ Result.buildList[p].IPID = document[j].fields[1]
          /\ Result.buildList[p].cellList =
               WrittenCells(document[CHOOSE i \in Models(j) : TRUE].items)
    BY <1>1, BuildingWritten
  <2>2. Cardinality({Result.buildList[p]}) = 1
    BY FS_Singleton
  <2> QED
    BY <2>1, <2>2
<1> QED
  BY <1>2, <1>3

\* Of a document in order getAreaInfo() makes an area the address plan can number: each
\* building of each of its elements lies in exactly one listed build, which has the subnet
\* and the cells that were written for it.
THEOREM ReadAsWritten == Spec => []AreaAsWritten
BY ConfigInvariant, ReadInvariant, WrittenFollows, PTL
=============================================================================
