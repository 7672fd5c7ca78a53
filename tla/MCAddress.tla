------------------------------ MODULE MCAddress ------------------------------
(***************************************************************************)
(* Instances of AddressPlan for TLC: an area on one subnet whose addresses *)
(* cross a byte, and one on two subnets whose cells differ.                *)
(***************************************************************************)
EXTENDS AddressPlan

Cell(b, e, floors, rooms, out, in, second) ==
  [cellBegin |-> b, cellEnd |-> e, floorBegin |-> 1, floorEnd |-> floors,
   roomBegin |-> 1, roomEnd |-> rooms, outDoorCount |-> out, inDoorCount |-> in,
   secondOutDoorCount |-> second]

Build(ipid, b, e, cells) ==
  [IPID |-> ipid, buildBegin |-> b, buildEnd |-> e, cellList |-> cells]

Guard(ipid, n) == [IPID |-> ipid, indexBegin |-> 1, indexEnd |-> n]
NetItem(ipid, h, l) == [IPID |-> ipid, netStart |-> <<h, l>>]

OneSubnet ==
  [guard |-> <<Guard(1, 1), Guard(1, 2), Guard(1, 1)>>,
   netItem |-> <<NetItem(1, 2, 240), NetItem(0, 0, 0)>>,
   buildList |-> <<Build(1, 1, 2, <<Cell(1, 1, 2, 2, 1, 1, 1)>>),
                   Build(1, 3, 3, <<Cell(1, 2, 1, 1, 2, 1, 0)>>)>>]

TwoSubnets ==
  [guard |-> <<Guard(2, 2), Guard(2, 1), Guard(2, 1)>>,
   netItem |-> <<NetItem(1, 7, 0), NetItem(2, 255, 250)>>,
   buildList |-> <<Build(1, 1, 1, <<Cell(1, 1, 2, 1, 1, 2, 0), Cell(2, 2, 1, 2, 1, 1, 1)>>),
                   Build(2, 2, 2, <<Cell(1, 2, 1, 2, 0, 1, 1)>>),
                   Build(1, 3, 3, <<Cell(1, 1, 2, 1, 1, 1, 0)>>)>>]

MCAreas == {OneSubnet, TwoSubnets}

Code(type, sub, room, floor, cell, build) ==
  [type |-> type, sub |-> sub, room |-> room, floor |-> floor, cell |-> cell,
   build |-> build, area |-> 1]

\* Rooms and units that exist in some area and some that do not.
MCCodes ==
  {Code(t, s, r, f, c, b) : t \in {ROOM_TYPE, HOUSE_DOOR_TYPE}, s \in 1 .. 2,
                            r \in 1 .. 2, f \in 1 .. 2, c \in 1 .. 2, b \in 1 .. 4}
  \cup {Code(CELL_DOOR_TYPE, s, 1, 1, c, b) : s \in 1 .. 2, c \in 1 .. 2, b \in 1 .. 3}
  \cup {Code(t, s, 1, 1, 1, 1) : t \in CommonType, s \in 1 .. 2}
=============================================================================
