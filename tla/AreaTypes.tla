------------------------------ MODULE AreaTypes ------------------------------
(***************************************************************************)
(* struct Area of libarea/area.h as the address plan reads it, and what    *)
(* the plan takes for granted of it.                                       *)
(***************************************************************************)
EXTENDS Naturals, Sequences

\* area->guard[0..2] is guard[1..3] here: managers, area doors, guard units.
MANAGE == 1
AREAGATE == 2
GUARD == 3

\* The fields of an area.  A cell has a floor at least, and a room on each.
Byte == 0 .. 255

CellRec ==
  [cellBegin : Nat, cellEnd : Nat, floorBegin : Nat, floorEnd : Nat, roomBegin : Nat,
   roomEnd : Nat, outDoorCount : Nat, inDoorCount : Nat, secondOutDoorCount : Nat]

AreaTypeOK(a) ==
  /\ a.buildList \in Seq([IPID : Nat, buildBegin : Nat, buildEnd : Nat,
                          cellList : Seq(CellRec)])
  /\ \A i \in DOMAIN a.buildList : \A j \in DOMAIN a.buildList[i].cellList :
       LET l == a.buildList[i].cellList[j]
       IN  l.floorBegin <= l.floorEnd /\ l.roomBegin <= l.roomEnd
  /\ a.guard \in [{MANAGE, AREAGATE, GUARD} ->
                    [IPID : Nat, indexBegin : Nat, indexEnd : Nat]]
  /\ a.netItem \in Seq([IPID : Nat, netStart : Byte \X Byte])

\* Cells come in the order of their numbers, and so do buildings; no list is empty.
CellsInOrder(cells) ==
  /\ cells # <<>>
  /\ \A i \in DOMAIN cells :
       /\ 1 <= cells[i].cellBegin /\ cells[i].cellBegin <= cells[i].cellEnd
       /\ i > 1 => cells[i - 1].cellEnd < cells[i].cellBegin

BuildingsInOrder(a) ==
  /\ a.buildList # <<>>
  /\ \A i \in DOMAIN a.buildList :
       LET b == a.buildList[i] IN
       /\ 1 <= b.buildBegin /\ b.buildBegin <= b.buildEnd
       /\ i > 1 => a.buildList[i - 1].buildEnd < b.buildBegin
       /\ CellsInOrder(b.cellList)

\* Common machines are numbered from 1, all of them in one subnet; every subnet
\* has a net item.
SubnetsGiven(a) ==
  /\ \A g \in {MANAGE, AREAGATE, GUARD} :
       a.guard[g].indexBegin = 1 /\ a.guard[g].IPID = a.guard[MANAGE].IPID
  /\ {a.guard[MANAGE].IPID} \cup {a.buildList[i].IPID : i \in DOMAIN a.buildList}
       \subseteq {a.netItem[k].IPID : k \in DOMAIN a.netItem}
=============================================================================
