----------------------------- MODULE AreaConfig -----------------------------
(***************************************************************************)
(* getAreaInfo(), fillInfo() and freeArea() of libarea/area.c: from the    *)
(* configuration file to struct Area and its lists on the heap, and back.  *)
(*                                                                         *)
(* A document is the sequence of the elements below its root.  A field of  *)
(* an element is a number, Absent (no such child) or Blank (a child with   *)
(* no text).  Structures that fillInfo() fills are sequences of bytes: it  *)
(* stores four bytes for every one-byte field, the upper three of them 0,  *)
(* into what comes after the field.                                        *)
(*                                                                         *)
(* Left out: malloc() that fails, texts that are no numbers below 256, the *)
(* other fields of a net item, MODEMATCH and VERSION (each has its own     *)
(* bytes), the memory of libxml2.                                          *)
(***************************************************************************)
EXTENDS Integers, Sequences, FiniteSets, FiniteSetsExt, SequencesExt, LinkList, AreaTypes

CONSTANTS
  Documents,   \* bound: the documents read
  MaxBlock     \* bound: blocks on the heap

Absent == -1
Blank == -2
Value == Byte \cup {Absent, Blank}
GuardTag == <<"MANAGE", "AREAGATE", "GUARD">>

ElementRec ==
  [tag : {"Modol"}, empty : BOOLEAN, id : Byte, items : Seq([1 .. 9 -> Value])]
    \cup [tag : {"BuildList"}, fields : [1 .. 4 -> Value]]
    \cup [tag : Range(GuardTag), fields : [1 .. 3 -> Value]]
    \cup [tag : {"NETITEM"}, IPID : Byte, netStart : Byte \X Byte, netGW : Byte \X Byte]
    \cup [tag : {"DEVNAME"}]

\* The blocks an element takes at most.
Needs(e) == IF e.tag = "Modol" THEN 2 + Len(e.items) ELSE 1

\* What the code takes for granted of a document: two net items at most
\* (area.h:16), addresses in full, enough memory.
ASSUME DocumentsAssumption ==
  /\ MaxBlock \in Nat
  /\ \A doc \in Documents :
       /\ doc \in Seq(ElementRec)
       /\ Cardinality({i \in DOMAIN doc : doc[i].tag = "NETITEM"}) <= 2
       /\ \E k \in 1 .. MaxBlock :
            /\ 2 + k * Len(doc) <= MaxBlock
            /\ \A i \in DOMAIN doc : Needs(doc[i]) <= k

VARIABLES
  document,
  curNode,       \* the element getAreaInfo() has come to
  netItemIndex,
  area,          \* *area: guards as bytes, net items, buildList
  heap,          \* the lists, builds, models and cells
  modelList,
  freeing,       \* freeArea(): "not yet", "now" or "over"
  build          \* its local variable

vars == <<document, curNode, netItemIndex, area, heap, modelList, freeing, build>>

Block == 1 .. MaxBlock
Free == [kind |-> "free"]
NoNetItem == [IPID |-> 0, netStart |-> <<0, 0>>]
Zeros(n) == [i \in 1 .. n |-> 0]

\* malloc()
NewBlock(h) == Min({b \in Block : h[b] = Free})

Init ==
  /\ document \in Documents
  /\ curNode = 1 /\ netItemIndex = 1
  /\ heap = [b \in Block |-> IF b <= 2 THEN linklist_create ELSE Free]
  /\ modelList = 2
  /\ area = [guard |-> Zeros(12), netItem |-> <<NoNetItem, NoNetItem>>, buildList |-> 1]
  /\ freeing = "not yet" /\ build = NULL

TypeOK ==
  /\ curNode \in 1 .. Len(document) + 1
  /\ netItemIndex \in 1 .. 3
  /\ area.guard \in [1 .. 12 -> 0 .. 255]
  /\ DOMAIN area.netItem = 1 .. 2
  /\ \A b \in Block :
       heap[b].kind \in {"free", "list", "build", "model", "cell"}
  /\ modelList \in Block
  /\ freeing \in {"not yet", "now", "over"} /\ build \in Block \cup {NULL}
-----------------------------------------------------------------------------
\* The byte after the one just stored (mutant: an int further on).
MutNextByte(addr) == addr + 4
NextByte(addr) == addr + 1

\* A child without text does not move the pointer on.
Put(s, value) ==
  CASE value = Absent -> [s EXCEPT !.addr = @ + 1]
    [] value = Blank  -> s
    [] OTHER          -> [addr |-> NextByte(s.addr),
                          bytes |-> [k \in DOMAIN s.bytes |->
                                       IF k = s.addr THEN value
                                       ELSE IF k \in s.addr + 1 .. s.addr + 3 THEN 0
                                       ELSE s.bytes[k]]]

\* The numeric fields of an element, stored from byte number first on.
fillInfo(values, bytes, first) ==
  FoldLeft(Put, [addr |-> first, bytes |-> bytes], values).bytes

\* The fields of struct Build, in the order of buildInfo.
IPID(b) == b.bytes[1]
buildBegin(b) == b.bytes[2]
buildEnd(b) == b.bytes[3]
MODID(b) == b.bytes[4]

Element == document[curNode]
Parsing(tag) == curNode <= Len(document) /\ Element.tag = tag
NextElement == curNode' = curNode + 1
-----------------------------------------------------------------------------
\* An Item of a Modol becomes the last cell of its list.
AddCell(h, cellList, item) ==
  LET b == NewBlock(h)
      cell == [kind |-> "cell", bytes |-> fillInfo(item, Zeros(12), 1), next |-> NULL]
  IN  InsertLast([h EXCEPT ![b] = cell], cellList, b)

AddCells(h, cellList, items) ==
  FoldLeft(LAMBDA g, item : AddCell(g, cellList, item), h, items)

\* A Modol with children; one without is allocated and freed at once.
Modol ==
  /\ Parsing("Modol") /\ NextElement
  /\ IF Element.empty THEN UNCHANGED heap
     ELSE LET m == NewBlock(heap)
              h1 == [heap EXCEPT ![m] = [kind |-> "model", id |-> Element.id,
                                         cellList |-> NULL, next |-> NULL]]
              l == NewBlock(h1)
              h2 == [h1 EXCEPT ![l] = linklist_create, ![m].cellList = l]
              h3 == AddCells(h2, l, Element.items)
          IN  heap' = InsertLast(h3, modelList, m)
  /\ UNCHANGED <<document, netItemIndex, area, modelList, freeing, build>>

\* The build that a BuildList element is read into.
ReadBuild(e) == [kind |-> "build", bytes |-> fillInfo(e.fields, Zeros(7), 1),
                 model |-> NULL, next |-> NULL]

\* The positions of the listed builds, and of the models, with its MODID.
Positions(list, Is(_)) == {i \in DOMAIN Nodes(heap, list) : Is(heap[Nodes(heap, list)[i]])}
Listed == Positions(area.buildList, LAMBDA b : MODID(b) = MODID(ReadBuild(Element)))
Fitting == Positions(modelList, LAMBDA m : m.id = MODID(ReadBuild(Element)))

\* (*build)->buildEnd++ on a byte (mutant: it stays).
MutOneMore(end) == end
OneMore(end) == (end + 1) % 256

\* A listed build has the same cells: it gets one building more, whatever number
\* and subnet the element gives, and the new build is freed.
ExtendBuild ==
  /\ Parsing("BuildList") /\ Listed # {} /\ NextElement
  /\ heap' = [heap EXCEPT ![Nodes(heap, area.buildList)[Min(Listed)]].bytes[3] =
                            OneMore(@)]
  /\ UNCHANGED <<document, netItemIndex, area, modelList, freeing, build>>

\* existBuild is FALSE (mutant: it never becomes TRUE).
MutNewBuild == TRUE
NewBuild == Listed = {}

\* The first model with its MODID is its own.
AddBuild ==
  /\ Parsing("BuildList") /\ NewBuild /\ Fitting # {} /\ NextElement
  /\ LET b == NewBlock(heap)
         m == Nodes(heap, modelList)[Min(Fitting)]
     IN  heap' = InsertLast([heap EXCEPT ![b] = [ReadBuild(Element) EXCEPT !.model = m]],
                          area.buildList, b)
  /\ UNCHANGED <<document, netItemIndex, area, modelList, freeing, build>>

\* No model yet: nothing refers to the new build any more, and nothing frees it.
LoseBuild ==
  /\ Parsing("BuildList") /\ NewBuild /\ Fitting = {} /\ NextElement
  /\ heap' = [heap EXCEPT ![NewBlock(heap)] = ReadBuild(Element)]
  /\ UNCHANGED <<document, netItemIndex, area, modelList, freeing, build>>

Guard(g) ==
  /\ Parsing(GuardTag[g]) /\ NextElement
  /\ area' = [area EXCEPT !.guard = fillInfo(Element.fields, @, 3 * g - 2)]
  /\ UNCHANGED <<document, netItemIndex, heap, modelList, freeing, build>>

\* netItemIndex++; the one inside sizeof is not evaluated (mutant: both are).
MutNextItem == netItemIndex' = netItemIndex + 2
NextItem == netItemIndex' = netItemIndex + 1

\* With a gateway, the addresses begin after it.
NetItem ==
  /\ Parsing("NETITEM") /\ NextElement
  /\ LET start == Element.netStart
         gw == Element.netGW
     IN  area' = [area EXCEPT !.netItem[netItemIndex] =
           [IPID |-> Element.IPID,
            netStart |-> IF gw # <<0, 0>> /\ gw[2] >= start[2]
                         THEN <<start[1], gw[2]>> ELSE start]]
  /\ NextItem
  /\ UNCHANGED <<document, heap, modelList, freeing, build>>

\* Elements that leave no trace.
Other ==
  /\ Parsing("DEVNAME") /\ NextElement
  /\ UNCHANGED <<document, netItemIndex, area, heap, modelList, freeing, build>>

\* At the end the list of models goes, but not the models.
EndOfDocument ==
  /\ curNode = Len(document) + 1 /\ freeing = "not yet"
  /\ heap' = [heap EXCEPT ![modelList] = Free]
  /\ freeing' = "now"
  /\ UNCHANGED <<document, curNode, netItemIndex, area, modelList, build>>
-----------------------------------------------------------------------------

\* freeArea(), one step for every pass of its loops.
TakeBuild ==
  /\ freeing = "now" /\ build = NULL /\ linklist_length(heap, area.buildList) > 0
  /\ build' = linklist_get(heap, area.buildList, 0)
  /\ heap' = linklist_deleate(heap, area.buildList, 0)
  /\ UNCHANGED <<document, curNode, netItemIndex, area, modelList, freeing>>

CellsLeft == linklist_length(heap, heap[heap[build].model].cellList) > 0

FreeCell ==
  /\ build # NULL /\ CellsLeft
  /\ LET cellList == heap[heap[build].model].cellList
     IN  heap' = [linklist_deleate(heap, cellList, 0)
                    EXCEPT ![linklist_get(heap, cellList, 0)] = Free]
  /\ UNCHANGED <<document, curNode, netItemIndex, area, modelList, freeing, build>>

\* linklist_destroy() of the model's list (mutant: not called).
MutCellListGone(h, l) == h
CellListGone(h, l) == [h EXCEPT ![l] = Free]

FreeModel ==
  /\ build # NULL /\ ~CellsLeft
  /\ LET model == heap[build].model
     IN  heap' = [CellListGone(heap, heap[model].cellList)
                    EXCEPT ![model] = Free, ![build] = Free]
  /\ build' = NULL
  /\ UNCHANGED <<document, curNode, netItemIndex, area, modelList, freeing>>

FreeBuildList ==
  /\ freeing = "now" /\ build = NULL /\ linklist_length(heap, area.buildList) = 0
  /\ heap' = [heap EXCEPT ![area.buildList] = Free]
  /\ freeing' = "over"
  /\ UNCHANGED <<document, curNode, netItemIndex, area, modelList, build>>

Next ==
  \/ Modol \/ ExtendBuild \/ AddBuild \/ LoseBuild
  \/ \E g \in {MANAGE, AREAGATE, GUARD} : Guard(g)
  \/ NetItem \/ Other \/ EndOfDocument
  \/ TakeBuild \/ FreeCell \/ FreeModel \/ FreeBuildList

Spec == Init /\ [][Next]_vars
-----------------------------------------------------------------------------
Live(kind) == {b \in Block : heap[b].kind = kind}
NodeSet(list) == Range(Nodes(heap, list))

\* The length of a list and its chain agree, no chain meets itself or another
\* one: what linklist_insert() and linklist_deleate() must keep up between them.
ListsAreSound ==
  /\ \A l \in Live("list") :
       /\ \A i, j \in DOMAIN Nodes(heap, l) :
            /\ Nodes(heap, l)[i] \in Block /\ heap[Nodes(heap, l)[i]] # Free
            /\ Nodes(heap, l)[i] = Nodes(heap, l)[j] => i = j
       /\ linklist_get(heap, l, linklist_length(heap, l)) = NULL
  /\ \A l, k \in Live("list") : l # k => NodeSet(l) \cap NodeSet(k) = {}

\* freeArea() and the address plan never follow a pointer to freed memory, and
\* no model is freed twice: builds do not share models.
NoDangling ==
  LET builds == (IF freeing = "over" THEN {} ELSE NodeSet(area.buildList))
                  \cup ({build} \ {NULL})
      Whole(b) == /\ heap[b].kind = "build" /\ heap[b].model \in Live("model")
                  /\ heap[heap[b].model].cellList \in Live("list")
                  /\ NodeSet(heap[heap[b].model].cellList) \subseteq Live("cell")
  IN  /\ \A b \in builds : Whole(b)
      /\ \A b, c \in builds : heap[b].model = heap[c].model => b = c
-----------------------------------------------------------------------------
\* What the elements of the document ask for.
Elements(tag) == {i \in DOMAIN document : document[i].tag = tag}
Models(j) ==
  {i \in Elements("Modol") : i < j /\ ~document[i].empty
                             /\ document[i].id = MODID(ReadBuild(document[j]))}

\* What is never freed is a build that came before its model, and a model no
\* build took: its list and its cells with it.
LeftOver ==
  LET builds == Elements("BuildList")
      taken == {Min(Models(j)) : j \in {j \in builds : Models(j) # {}}}
      untaken == {i \in Elements("Modol") : ~document[i].empty} \ taken
      lost == {j \in builds : Models(j) = {}}
  IN  freeing = "over" =>
        Cardinality({b \in Block : heap[b] # Free}) =
          Cardinality(lost) + MapThenSumSet(LAMBDA i : 2 + Len(document[i].items), untaken)

Written(value) == IF value = Absent THEN 0 ELSE value

\* The four-byte stores do no harm when the guards come in the order of struct
\* Area, each at most once, and no field is blank.
GuardsInOrder ==
  \A g, k \in {MANAGE, AREAGATE, GUARD} :
    \A i \in Elements(GuardTag[g]), j \in Elements(GuardTag[k]) :
      /\ i < j => g < k
      /\ Blank \notin Range(document[i].fields)

GuardsAsWritten ==
  GuardsInOrder =>
    \A g \in {MANAGE, AREAGATE, GUARD}, k \in 1 .. 3 :
      \A i \in Elements(GuardTag[g]) :
        i < curNode => area.guard[3 * (g - 1) + k] = Written(document[i].fields[k])
-----------------------------------------------------------------------------
\* The area as AddressPlan has it.
CellOf(bytes) ==
  [cellBegin |-> bytes[1], cellEnd |-> bytes[2], floorBegin |-> bytes[3],
   floorEnd |-> bytes[4], roomBegin |-> bytes[5], roomEnd |-> bytes[6],
   outDoorCount |-> bytes[7], inDoorCount |-> bytes[8], secondOutDoorCount |-> bytes[9]]

CellsOf(list) == [i \in DOMAIN Nodes(heap, list) |-> CellOf(heap[Nodes(heap, list)[i]].bytes)]

BuildOf(b) ==
  [IPID |-> IPID(heap[b]), buildBegin |-> buildBegin(heap[b]), buildEnd |-> buildEnd(heap[b]),
   cellList |-> CellsOf(heap[heap[b].model].cellList)]

Result == [buildList |-> [i \in DOMAIN Nodes(heap, area.buildList) |->
                            BuildOf(Nodes(heap, area.buildList)[i])]]

WrittenCells(items) == [i \in DOMAIN items |-> CellOf([k \in 1 .. 9 |-> Written(items[i][k])])]

\* A document in order: every model has a number of its own and cells in order,
\* and comes before its builds; buildings ascend, and those of one model follow
\* each other number by number, in one subnet.
InOrder ==
  /\ Elements("BuildList") # {}
  /\ \A i, j \in Elements("Modol") :
       /\ ~document[i].empty /\ CellsInOrder(WrittenCells(document[i].items))
       /\ \A n \in DOMAIN document[i].items : Blank \notin Range(document[i].items[n])
       /\ document[i].id = document[j].id => i = j
  /\ \A j \in Elements("BuildList") :
       LET f == document[j].fields
           before == {i \in Elements("BuildList") : i < j}
           same == {i \in before : document[i].fields[4] = f[4]}
       IN  /\ \A k \in 1 .. 4 : f[k] > 0
           /\ f[2] <= f[3] /\ Models(j) # {}
           /\ before # {} =>
                LET last == document[Max(before)].fields IN
                IF same = {} THEN last[3] < f[2]
                ELSE last[4] = f[4] /\ last[1] = f[1] /\ f[2] = last[3] + 1 /\ f[3] = f[2]

\* Such a document gives an area the address plan can number, and every building
\* of it lies in one entry, which has its subnet and its cells.
AreaAsWritten ==
  InOrder /\ curNode = Len(document) + 1 /\ freeing = "not yet" =>
    /\ BuildingsInOrder(Result)
    /\ \A j \in Elements("BuildList") :
         LET f == document[j].fields
             model == document[CHOOSE i \in Models(j) : TRUE]
         IN  \A n \in f[2] .. f[3] :
               LET entries == {b \in Range(Result.buildList) :
                                 b.buildBegin <= n /\ n <= b.buildEnd}
               IN  /\ Cardinality(entries) = 1
                   /\ \A b \in entries : b.IPID = f[1] /\ b.cellList = WrittenCells(model.items)
=============================================================================
