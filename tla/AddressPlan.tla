----------------------------- MODULE AddressPlan -----------------------------
(***************************************************************************)
(* libarea/area.c and the JNI call roomIdGetIP: how a room number becomes  *)
(* an IP address.                                                          *)
(*                                                                         *)
(* A housing area has buildings, buildings have cells (stairways), a cell  *)
(* has door stations, floors and rooms, a room has confirmation and indoor *)
(* units.  initMachineInfo() numbers the machines of a subnet one after    *)
(* the other and adds the number to the first address of the subnet.       *)
(*                                                                         *)
(* A machine code is the record of its seven fields.  Loops over the lists *)
(* are sums over their indices; C's unsigned char wraps are kept.          *)
(***************************************************************************)
EXTENDS Integers, Sequences, FiniteSets, FiniteSetsExt, Functions, AreaTypes

CONSTANTS
  Areas,       \* housing areas, as getAreaInfo() returns them
  Codes        \* bound: the machine codes looked up

ROOM_TYPE == 1
CELL_DOOR_TYPE == 2
HOUSE_DOOR_TYPE == 3
MONITOR_TYPE == 5
GUARD_TYPE == 6
AREA_DOOR_TYPE == 7
MANAGER_TYPE == 8

GuardOf(type) == CASE type = MANAGER_TYPE -> MANAGE
                   [] type = AREA_DOOR_TYPE -> AREAGATE
                   [] type = GUARD_TYPE -> GUARD

CommonType == {MONITOR_TYPE, GUARD_TYPE, AREA_DOOR_TYPE, MANAGER_TYPE}

Type == {ROOM_TYPE, CELL_DOOR_TYPE, HOUSE_DOOR_TYPE} \cup CommonType

ASSUME AreasAssumption ==
  \A a \in Areas : AreaTypeOK(a) /\ BuildingsInOrder(a) /\ SubnetsGiven(a)

\* The one caller of the library knows no other area than area 1 (native-lib.cpp).
ASSUME CodesAssumption ==
  Codes \subseteq [type : Type, sub : Nat, room : Nat, floor : Nat, cell : Nat,
                  build : Nat, area : {1}]

VARIABLES
  area,        \* what the configuration file says
  last         \* the last call of the library and what it returned

vars == <<area, last>>

NoAddress == <<0, 0>>
NoInfo == [number |-> 0, IPID |-> 0, ipAddress |-> NoAddress]

Init ==
  /\ area \in Areas
  /\ last = [call |-> "none"]
-----------------------------------------------------------------------------
\* Packing the fields into a code and parsing them again returns them, but for
\* the cell: cellIndex has 32 bits and is shifted by 28, so four of its bits stay.
GENERATE_MACHINE_CODE(c) == [c EXCEPT !.cell = @ % 16]

Count(begin, end) == end - begin + 1

calculationCellMachineNumber(cell) ==
  Count(cell.floorBegin, cell.floorEnd) * Count(cell.roomBegin, cell.roomEnd)
    * (cell.inDoorCount + cell.secondOutDoorCount) + cell.outDoorCount

\* The machines of a building, or of a list's entry that stands for several cells.
CellsMachines(cell) ==
  Count(cell.cellBegin, cell.cellEnd) * calculationCellMachineNumber(cell)

calculationBuildMachineNumber(build) ==
  SumFunction([j \in DOMAIN build.cellList |-> CellsMachines(build.cellList[j])])

BuildsMachines(build) ==
  Count(build.buildBegin, build.buildEnd) * calculationBuildMachineNumber(build)
-----------------------------------------------------------------------------
\* Mutant: the low byte is not moved on for the carries before it.
MutIpBytes(start, n) ==
  LET t == n + start[2]
      h8 == (t \div 255) % 256
      l8 == (IF h8 = 0 THEN t ELSE t % 255) % 256
  IN  <<(start[1] + h8) % 256, IF l8 % 255 = 0 THEN 1 ELSE l8>>

\* The two low bytes of the n-th address after start.
IpBytes(start, n) ==
  LET t == n + start[2]
      h8 == (t \div 255) % 256
      l8 == (IF h8 = 0 THEN t ELSE (t % 255) + h8) % 256
  IN  <<(start[1] + h8) % 256, IF l8 % 255 = 0 THEN 1 ELSE l8>>

\* calculationIP: the last net item with the id counts, none leaves the address.
calculationIP(a, n, ipid, old) ==
  LET items == {i \in DOMAIN a.netItem : a.netItem[i].IPID = ipid}
  IN  IF n > 0 /\ items # {} THEN IpBytes(a.netItem[Max(items)].netStart, n) ELSE old
-----------------------------------------------------------------------------
\* The search loops: the first entry the index does not lie behind, or else the
\* last one.
FirstOrLast(S, n) == IF S = {} THEN n ELSE Min(S)

BuildOf(a, c) ==
  a.buildList[FirstOrLast({i \in DOMAIN a.buildList :
                 LET b == a.buildList[i] IN
                 c.build <= b.buildEnd /\ (c.area <= b.buildEnd \/ c.build < b.buildBegin)},
               Len(a.buildList))]

CellOf(build, c) ==
  build.cellList[FirstOrLast({j \in DOMAIN build.cellList :
                                c.cell <= build.cellList[j].cellEnd},
                             Len(build.cellList))]

InBuild(b, c) == b.buildBegin <= c.build /\ c.build <= b.buildEnd
InCell(l, c) == l.cellBegin <= c.cell /\ c.cell <= l.cellEnd
HasRoom(l, c) == /\ l.floorBegin <= c.floor /\ c.floor <= l.floorEnd
                 /\ l.roomBegin <= c.room /\ c.room <= l.roomEnd

\* The checks at the head of initMachineInfo().
Legal(a, c) ==
  \/ /\ c.type \in {ROOM_TYPE, CELL_DOOR_TYPE, HOUSE_DOOR_TYPE}
     /\ LET b == BuildOf(a, c)
            l == CellOf(b, c)
        IN  /\ InBuild(b, c) /\ InCell(l, c)
            /\ c.type # CELL_DOOR_TYPE => HasRoom(l, c)
            /\ c.sub \in 1 .. CASE c.type = ROOM_TYPE -> l.inDoorCount
                                [] c.type = CELL_DOOR_TYPE -> l.outDoorCount
                                [] c.type = HOUSE_DOOR_TYPE -> l.secondOutDoorCount
  \/ /\ c.type \in {MANAGER_TYPE, AREA_DOOR_TYPE, GUARD_TYPE}
     /\ LET g == a.guard[GuardOf(c.type)]
        IN  c.sub \in g.indexBegin .. g.indexEnd

\* Mutant: an indoor unit is counted as if its room had no confirmation units.
MutNumberInCell(l, c) ==
  LET rooms == Count(l.roomBegin, l.roomEnd)
      units == l.inDoorCount + l.secondOutDoorCount
      before == l.outDoorCount + (c.floor - l.floorBegin) * rooms * units
                  + (c.room - l.roomBegin) * units
  IN  CASE c.type = CELL_DOOR_TYPE -> c.sub
        [] c.type = HOUSE_DOOR_TYPE -> before + c.sub
        [] c.type = ROOM_TYPE -> before + c.sub

\* The number of a machine among those of its cell: the door stations first,
\* then room after room its confirmation units and its indoor units.
NumberInCell(l, c) ==
  LET rooms == Count(l.roomBegin, l.roomEnd)
      units == l.inDoorCount + l.secondOutDoorCount
      before == l.outDoorCount + (c.floor - l.floorBegin) * rooms * units
                  + (c.room - l.roomBegin) * units
  IN  CASE c.type = CELL_DOOR_TYPE -> c.sub
        [] c.type = HOUSE_DOOR_TYPE -> before + c.sub
        [] c.type = ROOM_TYPE -> before + l.secondOutDoorCount + c.sub

\* Its number among those of the building: all cells of the entries before, and
\* those of its own entry up to it.
NumberInBuild(b, c) ==
  LET Before(j) == IF c.cell > b.cellList[j].cellEnd
                   THEN CellsMachines(b.cellList[j]) ELSE 0
      own == {j \in DOMAIN b.cellList : InCell(b.cellList[j], c)}
      first == Min(own)
      l == b.cellList[first]
  IN  IF own = {}
      THEN SumFunction([j \in DOMAIN b.cellList |-> Before(j)])
      ELSE SumFunction([j \in 1 .. first - 1 |-> Before(j)])
             + (c.cell - l.cellBegin) * calculationCellMachineNumber(l)
             + NumberInCell(l, c)

\* The counting loops of initMachineInfo(), for a legal code.
NumberInSubnet(a, c, ipid) ==
  LET Entry(i) ==
        LET b == a.buildList[i] IN
        IF b.IPID # ipid THEN 0
        ELSE IF c.build > b.buildEnd THEN BuildsMachines(b)
        ELSE IF InBuild(b, c) /\ c.area <= b.buildEnd
        THEN (c.build - b.buildBegin) * calculationBuildMachineNumber(b)
               + NumberInBuild(b, c)
        ELSE 0
  IN  SumFunction([i \in DOMAIN a.buildList |-> Entry(i)])

CommonNumber(a, c, ipid) ==
  LET All(i) == IF a.buildList[i].IPID = ipid THEN BuildsMachines(a.buildList[i]) ELSE 0
      Guards(g) == Count(a.guard[g].indexBegin, a.guard[g].indexEnd)
  IN  SumFunction([i \in DOMAIN a.buildList |-> All(i)])
        + SumFunction([g \in 1 .. GuardOf(c.type) - 1 |-> Guards(g)])
        + c.sub

\* initMachineInfo(): its return value and the machineInfo it fills in.
initMachineInfo(a, c) ==
  IF ~Legal(a, c) THEN NoInfo
  ELSE LET ipid == IF c.type \in CommonType THEN a.guard[GuardOf(c.type)].IPID
                                            ELSE BuildOf(a, c).IPID
           n == IF c.type \in CommonType THEN CommonNumber(a, c, ipid)
                                         ELSE NumberInSubnet(a, c, ipid)
       IN  [number |-> n, IPID |-> ipid,
            ipAddress |-> calculationIP(a, n, ipid, NoAddress)]
-----------------------------------------------------------------------------
\* The building the search of getObjectMachineInfo() ends at: it goes past the
\* one that the index lies inside of, unless it is the first of its entry.
TargetBuild(a, c) ==
  a.buildList[FirstOrLast({i \in DOMAIN a.buildList :
                 c.build <= a.buildList[i].buildEnd /\ c.build <= a.buildList[i].buildBegin},
               Len(a.buildList))]

\* The early returns of getObjectMachineInfo().  The third test of the first
\* condition reads "|| HOUSE_DOOR_TYPE" and is true of every type.
Refused(src, type) ==
  \/ src.type \in CommonType
  \/ src.type \in {CELL_DOOR_TYPE, HOUSE_DOOR_TYPE} /\ type = ROOM_TYPE

\* getObjectMachineInfo(): the number of targets.
Targets(a, src, type) ==
  IF Refused(src, type) \/ type = MONITOR_TYPE
  THEN 0
  ELSE IF type \in CommonType
  THEN LET g == a.guard[GuardOf(type)] IN Count(g.indexBegin, g.indexEnd)
  ELSE LET b == TargetBuild(a, src)
           own == {j \in DOMAIN b.cellList : InCell(b.cellList[j], src)}
           l == b.cellList[Min(own)]
       IN  IF own = {} THEN 0
           ELSE CASE type = ROOM_TYPE -> IF HasRoom(l, src) THEN l.inDoorCount ELSE 0
                  [] type = CELL_DOOR_TYPE -> l.outDoorCount
                  [] type = HOUSE_DOOR_TYPE -> l.secondOutDoorCount

\* And the code of the first of them, unless it is refused.
TargetCode(src, type) ==
  GENERATE_MACHINE_CODE(
    IF type \in CommonType
    THEN [src EXCEPT !.type = type, !.sub = 1, !.room = 1, !.floor = 1, !.cell = 1,
                     !.build = 1]
    ELSE IF type = CELL_DOOR_TYPE
    THEN [src EXCEPT !.type = type, !.sub = 1, !.room = 1, !.floor = 1]
    ELSE [src EXCEPT !.type = type, !.sub = 1])
-----------------------------------------------------------------------------
\* A device resolves the code of a machine.
Resolve(c) ==
  /\ last' = [call |-> "initMachineInfo", code |-> GENERATE_MACHINE_CODE(c),
              info |-> initMachineInfo(area, GENERATE_MACHINE_CODE(c))]
  /\ UNCHANGED area

Resolved == last.call = "initMachineInfo" /\ last.info.number > 0

\* It counts the machines of a type that the one resolved may reach.
Find(type) ==
  /\ Resolved
  /\ last' = [call |-> "getObjectMachineInfo", src |-> last.code, type |-> type,
              dest |-> IF Refused(last.code, type) THEN {} ELSE {TargetCode(last.code, type)},
              num |-> Targets(area, last.code, type)]
  /\ UNCHANGED area

\* Mutant: floor and room change places among the arguments.
MutRoomCode(floor, room) ==
  [type |-> ROOM_TYPE, sub |-> 1, room |-> floor, floor |-> room, cell |-> 1,
   build |-> 1, area |-> 1]

\* The first indoor unit of a room of building 1, cell 1, area 1.
RoomCode(floor, room) ==
  [type |-> ROOM_TYPE, sub |-> 1, room |-> room, floor |-> floor, cell |-> 1,
   build |-> 1, area |-> 1]

\* roomIdGetIP(floor, room): the address of that unit.  For a room that does not
\* exist the function ends without a return; the model then says NoAddress.
roomIdGetIP(floor, room) ==
  LET src == GENERATE_MACHINE_CODE(RoomCode(floor, room))
      target == initMachineInfo(area, TargetCode(src, ROOM_TYPE))
  IN  /\ last' = [call |-> "roomIdGetIP", room |-> <<floor, room>>,
                  ip |-> IF /\ initMachineInfo(area, src).number > 0
                            /\ target.number > 0
                            /\ Targets(area, src, ROOM_TYPE) > 0
                         THEN target.ipAddress ELSE NoAddress]
      /\ UNCHANGED area

Next ==
  \/ \E c \in Codes : Resolve(c)
  \/ \E type \in Type : Find(type)
  \/ \E c \in Codes : c.type = ROOM_TYPE /\ roomIdGetIP(c.floor, c.room)

Spec == Init /\ [][Next]_vars
-----------------------------------------------------------------------------
(***************************************************************************)
(* The reference definition: the machines of a subnet in their order.      *)
(***************************************************************************)

\* Where a machine stands: doors before rooms in its cell, confirmation units
\* before indoor units in its room, common machines after all buildings.
Place(c) ==
  CASE c.type \in CommonType -> <<1, GuardOf(c.type), c.sub>>
    [] c.type = CELL_DOOR_TYPE -> <<0, c.build, c.cell, 0, c.sub>>
    [] OTHER -> <<0, c.build, c.cell, 1, c.floor, c.room,
                  IF c.type = HOUSE_DOOR_TYPE THEN 0 ELSE 1, c.sub>>

Before(p, q) ==
  \E i \in DOMAIN p \cap DOMAIN q :
    p[i] < q[i] /\ \A j \in 1 .. i - 1 : p[j] = q[j]

\* The units of a room as pairs <<kind, unit>>.
Units(l) == ({0} \X (1 .. l.secondOutDoorCount)) \cup ({1} \X (1 .. l.inDoorCount))

\* The places of a cell with number y in a building with number x.
CellPlaces(l, x, y) ==
  {<<0, x, y, 0, s>> : s \in 1 .. l.outDoorCount}
    \cup {<<0, x, y, 1, f, r, u[1], u[2]>> :
            f \in l.floorBegin .. l.floorEnd, r \in l.roomBegin .. l.roomEnd, u \in Units(l)}

\* The places of an entry of a building's list of cells, of a building, of an entry
\* of the list of buildings and of a kind of common machines.
CellsPlaces(l, x) == UNION {CellPlaces(l, x, y) : y \in l.cellBegin .. l.cellEnd}

BuildPlaces(b, x) == UNION {CellsPlaces(b.cellList[j], x) : j \in DOMAIN b.cellList}

BuildsPlaces(b) == UNION {BuildPlaces(b, x) : x \in b.buildBegin .. b.buildEnd}

GuardPlaces(a, g) == {<<1, g, s>> : s \in a.guard[g].indexBegin .. a.guard[g].indexEnd}

\* The places of all machines of the subnet.
Places(a, ipid) ==
  LET builds == {i \in DOMAIN a.buildList : a.buildList[i].IPID = ipid}
      guards == {g \in {MANAGE, AREAGATE, GUARD} : a.guard[g].IPID = ipid}
  IN  (UNION {BuildsPlaces(a.buildList[i]) : i \in builds})
        \cup (UNION {GuardPlaces(a, g) : g \in guards})

\* Every machine's number is its rank in its subnet: the sums of area.c leave no
\* gap and count nothing twice, so the first address plus the number of machines
\* is all a subnet needs.
NumberIsRank ==
  Resolved =>
    last.info.number =
      1 + Cardinality({p \in Places(area, last.info.IPID) : Before(p, Place(last.code))})

\* How far the numbering may go: the 509th address after the first of a byte is
\* that of the 255th again (area.c:419-422).
Fits(a) == \A i \in DOMAIN a.netItem :
             Cardinality(Places(a, a.netItem[i].IPID)) + a.netItem[i].netStart[2] <= 508

\* Two machines of a subnet never have the same address.
AddressesDistinct ==
  [][(/\ Fits(area)
      /\ Resolved /\ Resolved' /\ last.info.IPID = last'.info.IPID
      /\ Place(last.code) # Place(last'.code))
     => last.info.ipAddress # last'.info.ipAddress]_vars

\* The address that a room number is turned into is that of the first indoor unit
\* of the room in building 1, cell 1, and no other machine of the subnet has it.
RoomGetsItsUnit ==
  [][(/\ last'.call = "roomIdGetIP" /\ last'.ip # NoAddress
      /\ Resolved /\ last.info.IPID = area.buildList[1].IPID /\ Fits(area))
     => (last.info.ipAddress = last'.ip
           <=> Place(last.code) = <<0, 1, 1, 1, last'.room[1], last'.room[2], 1, 1>>)]_vars

\* A machine finds the machines of its own kind: "siblings may find each other"
\* (area.h:127).
SiblingsFound ==
  last.call = "getObjectMachineInfo" /\ last.src.type = GUARD_TYPE /\ last.type = GUARD_TYPE
    => last.num > 0
=============================================================================
