-------------------------- MODULE AddressPlan_proof --------------------------
(***************************************************************************)
(* The address plan, for every area and every code that the assumptions of *)
(* AddressPlan allow: the number of a machine is its rank among the        *)
(* machines of its subnet, no two machines of a subnet have one address,   *)
(* and a room number is turned into the address of its own unit.           *)
(*                                                                         *)
(* The argument follows initMachineInfo() from the inside out.  The places *)
(* of a cell are counted, then those up to a door or a unit; then cells    *)
(* are added up to entries of the list of cells, those to buildings, to    *)
(* entries of the list of buildings and to the subnet.  At each level the  *)
(* places before a machine are those of the parts before its own, and      *)
(* those of its own part up to it: the two summands of the code's loop.    *)
(***************************************************************************)
EXTENDS AddressPlan, FiniteSetTheorems, WellFoundedInduction, TLAPS

-----------------------------------------------------------------------------
(***************************************************************************)
(* calculationIP(), and the numbers inside one cell.                       *)
(***************************************************************************)
\* "The low byte of an address is never 0" (area.c:419), nor is it 255.
THEOREM LowByteIsHost ==
  ASSUME NEW start \in Byte \X Byte, NEW n \in Nat
  PROVE  IpBytes(start, n)[2] \in 1 .. 254
<1> DEFINE t == n + start[2]
           h8 == (t \div 255) % 256
           l8 == (IF h8 = 0 THEN t ELSE (t % 255) + h8) % 256
<1>1. t \in Nat
  BY DEF Byte
<1>2. h8 \in 0 .. 255
  BY <1>1
<1>3. l8 \in 0 .. 255
  <2> DEFINE v == IF h8 = 0 THEN t ELSE (t % 255) + h8
  <2> HIDE DEF h8
  <2>1. t % 255 \in Nat
    BY <1>1
  <2>2. v \in Nat
    BY <1>1, <1>2, <2>1
  <2> HIDE DEF v
  <2>3. v % 256 \in 0 .. 255
    BY <2>2
  <2> QED
    BY <2>3 DEF v
<1>4. IpBytes(start, n)[2] = IF l8 % 255 = 0 THEN 1 ELSE l8
  BY DEF IpBytes
<1> HIDE DEF t, h8, l8
<1>5. CASE l8 = 0 \/ l8 = 255
  <2>1. l8 % 255 = 0
    BY <1>5
  <2> QED
    BY <1>4, <2>1
<1>6. CASE l8 \in 1 .. 254
  <2>1. l8 % 255 = l8
    BY <1>6
  <2> QED
    BY <1>4, <1>6, <2>1
<1> QED
  BY <1>3, <1>5, <1>6

\* As long as the numbering stays below the 509th address after the first of its
\* byte, two numbers never give one address (area.c:418-422).
THEOREM AddressOfOne ==
  ASSUME NEW h \in Byte, NEW l \in Byte, NEW n \in Nat, NEW m \in Nat,
         n > 0, m > 0, n + l <= 508, m + l <= 508,
         IpBytes(<<h, l>>, n) = IpBytes(<<h, l>>, m)
  PROVE  n = m
<1> DEFINE High(t) == IF t < 255 THEN h ELSE (h + 1) % 256
           Low(t) == IF t < 255 THEN t ELSE t - 254
\* Below 255 the low byte is the number itself, from there on one more than the rest.
<1>1. ASSUME NEW k \in Nat, k > 0, k + l <= 508
      PROVE  IpBytes(<<h, l>>, k) = <<High(k + l), Low(k + l)>>
  <2> DEFINE t == k + l
  <2>0. t \in 1 .. 508
    BY <1>1 DEF Byte
  <2>1. CASE t < 255
    <3>1. t \div 255 = 0
      BY <2>0, <2>1
    <3> QED
      BY <2>0, <2>1, <3>1 DEF IpBytes, Byte
  <2>2. CASE t >= 255
    <3>1. t \div 255 = 1 /\ t % 255 = t - 255
      BY <2>0, <2>2
    <3>2. (t % 255) + 1 \in 1 .. 254
      BY <2>0, <2>2, <3>1
    <3> QED
      BY <2>0, <2>2, <3>1, <3>2 DEF IpBytes, Byte
  <2> QED
    BY <2>0, <2>1, <2>2
<1>2. High(n + l) = High(m + l) /\ Low(n + l) = Low(m + l)
  BY <1>1
<1>3. (h + 1) % 256 # h
  BY DEF Byte
<1>4. l \in Nat
  BY DEF Byte
<1> QED
  BY <1>2, <1>3, <1>4

\* Digits: a number is made of its quotient and its rest in one way only.
LEMMA Digits ==
  ASSUME NEW u \in Nat, NEW a \in Nat, NEW b \in Nat, NEW s \in 1 .. u, NEW t \in 1 .. u,
         a * u + s = b * u + t
  PROVE  a = b /\ s = t
<1>1. ASSUME NEW x \in Nat, NEW y \in Nat, NEW p \in 1 .. u, NEW q \in 1 .. u,
             x < y
      PROVE  x * u + p < y * u + q
  <2>1. PICK k \in Nat : y = x + 1 + k
    <3>1. y - x - 1 \in Nat /\ y = x + 1 + (y - x - 1)
      BY <1>1
    <3> QED
      BY <3>1
  <2>2. y * u = x * u + u + k * u
    BY <2>1
  <2>3. k * u \in Nat /\ x * u \in Nat
    BY <2>1
  <2> QED
    BY <2>2, <2>3
<1>2. a = b
  BY <1>1
<1> QED
  BY <1>2

\* The codes initMachineInfo() lets through in the cell l.
UnitOf(l) ==
  {c \in [type : {ROOM_TYPE, HOUSE_DOOR_TYPE}, sub : Nat, floor : Nat, room : Nat] :
     /\ HasRoom(l, c)
     /\ c.sub \in 1 .. IF c.type = ROOM_TYPE THEN l.inDoorCount ELSE l.secondOutDoorCount}

\* A unit's place in its room, from 1.
InRoom(l, c) == IF c.type = ROOM_TYPE THEN l.secondOutDoorCount + c.sub ELSE c.sub

LEMMA UnitNumber ==
  ASSUME NEW l \in CellRec, NEW c \in UnitOf(l)
  PROVE  LET rooms == Count(l.roomBegin, l.roomEnd)
             units == l.inDoorCount + l.secondOutDoorCount
         IN  /\ c.floor - l.floorBegin \in Nat
             /\ c.room - l.roomBegin + 1 \in 1 .. rooms
             /\ rooms \in Nat /\ units \in Nat /\ InRoom(l, c) \in 1 .. units
             /\ NumberInCell(l, c) = l.outDoorCount
                  + (((c.floor - l.floorBegin) * rooms + (c.room - l.roomBegin)) * units
                       + InRoom(l, c))
<1> DEFINE rooms == Count(l.roomBegin, l.roomEnd)
           units == l.inDoorCount + l.secondOutDoorCount
           f == c.floor - l.floorBegin
           r == c.room - l.roomBegin
<1>1. /\ l.floorBegin \in Nat /\ l.roomBegin \in Nat /\ l.roomEnd \in Nat
      /\ l.inDoorCount \in Nat /\ l.secondOutDoorCount \in Nat /\ l.outDoorCount \in Nat
      /\ c.floor \in Nat /\ c.room \in Nat /\ c.sub \in Nat
      /\ l.floorBegin <= c.floor /\ l.roomBegin <= c.room /\ c.room <= l.roomEnd
      /\ c.type = ROOM_TYPE \/ c.type = HOUSE_DOOR_TYPE
      /\ c.sub \in 1 .. IF c.type = ROOM_TYPE THEN l.inDoorCount ELSE l.secondOutDoorCount
  BY DEF CellRec, UnitOf, HasRoom
<1>2. f \in Nat /\ r \in Nat /\ r + 1 \in 1 .. rooms /\ rooms \in Nat /\ units \in Nat
  BY <1>1 DEF Count
<1>3. InRoom(l, c) \in 1 .. units
  BY <1>1 DEF InRoom
<1>4. NumberInCell(l, c) = l.outDoorCount + f * rooms * units + r * units + InRoom(l, c)
  <2>1. CASE c.type = ROOM_TYPE
    BY <1>1, <1>2, <2>1 DEF NumberInCell, InRoom, ROOM_TYPE, CELL_DOOR_TYPE, HOUSE_DOOR_TYPE
  <2>2. CASE c.type = HOUSE_DOOR_TYPE
    BY <1>1, <1>2, <2>2 DEF NumberInCell, InRoom, ROOM_TYPE, CELL_DOOR_TYPE, HOUSE_DOOR_TYPE
  <2> QED
    BY <1>1, <2>1, <2>2
<1>5. (f * rooms + r) * units = f * rooms * units + r * units
  BY <1>2
<1> QED
  BY <1>1, <1>2, <1>3, <1>4, <1>5

\* Inside a cell no two units share a number, whatever the numbers of its floors,
\* rooms and units (area.c:760-788).
THEOREM CellNumbersDistinct ==
  ASSUME NEW l \in CellRec, NEW c \in UnitOf(l), NEW e \in UnitOf(l),
         NumberInCell(l, c) = NumberInCell(l, e)
  PROVE  c = e
<1> DEFINE rooms == Count(l.roomBegin, l.roomEnd)
           units == l.inDoorCount + l.secondOutDoorCount
           f(x) == x.floor - l.floorBegin
           r(x) == x.room - l.roomBegin
<1>a. /\ f(c) \in Nat /\ f(e) \in Nat /\ rooms \in Nat /\ units \in Nat
      /\ r(c) + 1 \in 1 .. rooms /\ r(e) + 1 \in 1 .. rooms
      /\ InRoom(l, c) \in 1 .. units /\ InRoom(l, e) \in 1 .. units
      /\ NumberInCell(l, c)
           = l.outDoorCount + ((f(c) * rooms + r(c)) * units + InRoom(l, c))
      /\ NumberInCell(l, e)
           = l.outDoorCount + ((f(e) * rooms + r(e)) * units + InRoom(l, e))
  BY UnitNumber
<1>b. /\ c \in [type : {ROOM_TYPE, HOUSE_DOOR_TYPE}, sub : Nat, floor : Nat, room : Nat]
      /\ e \in [type : {ROOM_TYPE, HOUSE_DOOR_TYPE}, sub : Nat, floor : Nat, room : Nat]
      /\ l.floorBegin \in Nat /\ l.roomBegin \in Nat /\ l.outDoorCount \in Nat
      /\ l.secondOutDoorCount \in Nat /\ l.inDoorCount \in Nat
  BY DEF UnitOf, CellRec
<1>c. r(c) \in Nat /\ r(e) \in Nat
  BY <1>a, <1>b
<1> HIDE DEF rooms, units, f, r
\* The place in the room first, then room and floor.
<1>1. f(c) * rooms + r(c) = f(e) * rooms + r(e) /\ InRoom(l, c) = InRoom(l, e)
  <2>1. f(c) * rooms + r(c) \in Nat /\ f(e) * rooms + r(e) \in Nat
    BY <1>a, <1>c
  <2>2. (f(c) * rooms + r(c)) * units + InRoom(l, c)
          = (f(e) * rooms + r(e)) * units + InRoom(l, e)
    <3> DEFINE x == (f(c) * rooms + r(c)) * units + InRoom(l, c)
               y == (f(e) * rooms + r(e)) * units + InRoom(l, e)
    <3>1. x \in Nat /\ y \in Nat
      BY <1>a, <2>1
    <3>2. l.outDoorCount + x = l.outDoorCount + y
      BY <1>a
    <3> HIDE DEF x, y
    <3>3. x = y
      BY <1>b, <3>1, <3>2
    <3> QED
      BY <3>3 DEF x, y
  <2> QED
    BY <1>a, <2>1, <2>2, Digits
<1>2. f(c) = f(e) /\ r(c) + 1 = r(e) + 1
  <2>1. f(c) * rooms + (r(c) + 1) = f(e) * rooms + (r(e) + 1)
    <3>1. f(c) * rooms \in Nat /\ f(e) * rooms \in Nat
      BY <1>a
    <3> QED
      BY <1>1, <1>c, <3>1
  <2> QED
    BY <1>a, <2>1, Digits
<1>3. c.floor = e.floor /\ c.room = e.room
  BY <1>b, <1>c, <1>2 DEF f, r
\* Confirmation units come before the indoor units of their room.
<1>4. c.type = e.type /\ c.sub = e.sub
  <2>1. /\ c.type = HOUSE_DOOR_TYPE => c.sub <= l.secondOutDoorCount
        /\ e.type = HOUSE_DOOR_TYPE => e.sub <= l.secondOutDoorCount
        /\ c.sub >= 1 /\ e.sub >= 1
    BY <1>b DEF UnitOf, ROOM_TYPE, HOUSE_DOOR_TYPE
  <2> QED
    BY <1>1, <1>b, <2>1 DEF InRoom, ROOM_TYPE, HOUSE_DOOR_TYPE
<1> QED
  BY <1>b, <1>3, <1>4
-----------------------------------------------------------------------------
(***************************************************************************)
(* Induction over the natural numbers, least elements, and sums over finite *)
(* sets, as SumFunction is defined.                                        *)
(***************************************************************************)
\* Induction: a set with 0 and with every successor has every natural number.
LEMMA Naturally ==
  ASSUME NEW S, 0 \in S, \A n \in Nat : n \in S => n + 1 \in S
  PROVE  Nat \subseteq S
<1> DEFINE T == {1 .. n : n \in Nat \ S}
           R == StrictSubsetOrdering(Nat)
<1> SUFFICES ASSUME Nat \ S # {} PROVE FALSE
  OBVIOUS
<1>1. IsWellFoundedOn(R, FiniteSubsetsOf(Nat))
  BY FS_StrictSubsetOrderingWellFounded
<1>2. T \subseteq FiniteSubsetsOf(Nat) /\ T # {}
  <2>1. ASSUME NEW n \in Nat PROVE 1 .. n \in FiniteSubsetsOf(Nat)
    BY FS_Interval, 1 .. n \subseteq Nat, 1 \in Int, n \in Int DEF FiniteSubsetsOf
  <2> QED
    BY <2>1
<1> HIDE DEF R
<1>3. PICK x \in T : \A y \in T : <<y, x>> \notin R
  <2> HIDE DEF T
  <2> QED
    BY <1>1, <1>2, WFMin
<1>4. PICK n \in Nat \ S : x = 1 .. n
  OBVIOUS
<1>5. n # 0 /\ n - 1 \in Nat /\ n = (n - 1) + 1
  OBVIOUS
<1>6. n - 1 \notin S
  BY <1>5
<1>7. <<1 .. n - 1, 1 .. n>> \in R
  <2>1. n \in 1 .. n /\ n \notin 1 .. n - 1 /\ 1 .. n - 1 \subseteq 1 .. n /\ 1 .. n \subseteq Nat
    BY <1>5
  <2>2. (1 .. n - 1) # 1 .. n
    BY <2>1
  <2> QED
    BY <2>1, <2>2 DEF R, StrictSubsetOrdering
<1>8. 1 .. n - 1 \in T
  BY <1>5, <1>6
<1> QED
  BY <1>3, <1>4, <1>7, <1>8

\* A least element, and a greatest one of a bounded set.
LEMMA Least ==
  ASSUME NEW S \in SUBSET Nat, S # {}
  PROVE  Min(S) \in S /\ \A y \in S : Min(S) <= y
<1> DEFINE T == {n \in Nat : \A x \in S : n <= x}
<1>1. \E x \in S : \A y \in S : x <= y
  <2> SUFFICES ASSUME \A x \in S : \E y \in S : y < x PROVE FALSE
    OBVIOUS
  <2>1. 0 \in T
    OBVIOUS
  <2>2. \A n \in Nat : n \in T => n + 1 \in T
    <3> SUFFICES ASSUME NEW n \in T, NEW x \in S PROVE n + 1 <= x
      OBVIOUS
    <3>1. PICK y \in S : y < x
      OBVIOUS
    <3> QED
      BY <3>1
  <2>3. Nat \subseteq T
    <3> HIDE DEF T
    <3> QED
      BY <2>1, <2>2, Naturally
  <2>4. PICK x \in S : TRUE
    OBVIOUS
  <2>5. x + 1 \in T
    BY <2>3
  <2> QED
    BY <2>5
<1> QED
  BY <1>1 DEF Min

LEMMA Greatest ==
  ASSUME NEW S \in SUBSET Nat, S # {}, NEW b \in Nat, \A x \in S : x <= b
  PROVE  Max(S) \in S /\ \A y \in S : y <= Max(S)
<1> DEFINE T == {b - x : x \in S}
<1>1. T \in SUBSET Nat /\ T # {}
  <2>1. PICK x \in S : TRUE
    OBVIOUS
  <2>2. b - x \in T
    BY <2>1
  <2>3. \A y \in S : b - y \in Nat
    OBVIOUS
  <2> QED
    BY <2>2, <2>3
<1>2. Min(T) \in T /\ \A y \in T : Min(T) <= y
  <2> HIDE DEF T
  <2> QED
    BY <1>1, Least
<1>3. PICK x \in S : Min(T) = b - x
  BY <1>2
<1>4. ASSUME NEW y \in S PROVE y <= x
  <2>1. b - y \in T
    OBVIOUS
  <2> HIDE DEF T
  <2>2. b - x <= b - y
    BY <1>2, <1>3, <2>1
  <2>3. x \in Nat /\ y \in Nat
    OBVIOUS
  <2> QED
    BY <2>2, <2>3
<1> QED
  BY <1>4 DEF Max

\* Sums over finite sets.
One(s) == CHOOSE x \in s : TRUE

\* g adds f up over the sets of D, element after element.
Adds(g, f, D) ==
  g = [s \in D |-> IF s = {} THEN 0 ELSE f[One(s)] + g[s \ {One(s)}]]

LEMMA OneIn == \A s : s # {} => One(s) \in s
BY DEF One

Small(S, n) == {s \in SUBSET S : Cardinality(s) <= n}

\* Without one of its elements a set is smaller.
LEMMA SmallLess ==
  ASSUME NEW S, IsFiniteSet(S), NEW n \in Nat, NEW s \in Small(S, n + 1), s # {}
  PROVE  s \ {One(s)} \in Small(S, n)
<1>1. One(s) \in s /\ IsFiniteSet(s) /\ Cardinality(s) \in Nat
  BY OneIn, FS_Subset, FS_CardinalityType DEF Small
<1>2. Cardinality(s \ {One(s)}) = Cardinality(s) - 1
  BY <1>1, FS_RemoveElement
<1> QED
  BY <1>1, <1>2 DEF Small

\* There is such a function, for every finite set.
LEMMA AddsExists ==
  ASSUME NEW S, IsFiniteSet(S), NEW f
  PROVE  \E g : Adds(g, f, SUBSET S)
<1> DEFINE T == {n \in Nat : \E g : Adds(g, f, Small(S, n))}
<1>1. 0 \in T
  <2>1. \A s \in Small(S, 0) : s = {}
    <3> SUFFICES ASSUME NEW s \in Small(S, 0) PROVE s = {}
      OBVIOUS
    <3>1. IsFiniteSet(s) /\ Cardinality(s) \in Nat /\ Cardinality(s) <= 0
      BY FS_Subset, FS_CardinalityType DEF Small
    <3>2. Cardinality(s) = 0
      BY <3>1
    <3> QED
      BY <3>1, <3>2, FS_EmptySet
  <2>2. Adds([s \in Small(S, 0) |-> 0], f, Small(S, 0))
    BY <2>1 DEF Adds
  <2> QED
    BY <2>2
<1>2. ASSUME NEW n \in Nat, n \in T PROVE n + 1 \in T
  <2>1. PICK g : Adds(g, f, Small(S, n))
    BY <1>2
  <2> DEFINE h == [s \in Small(S, n + 1) |->
                     IF s = {} THEN 0 ELSE f[One(s)] + g[s \ {One(s)}]]
  <2>2. Small(S, n) \subseteq Small(S, n + 1)
    <3> SUFFICES ASSUME NEW s \in Small(S, n) PROVE Cardinality(s) <= n + 1
      BY DEF Small
    <3>1. Cardinality(s) \in Nat /\ Cardinality(s) <= n
      BY FS_Subset, FS_CardinalityType DEF Small
    <3> QED
      BY <3>1
  <2>3. \A s \in Small(S, n) : h[s] = g[s]
    BY <2>1, <2>2 DEF Adds
  <2>4. \A s \in Small(S, n + 1) : s # {} => g[s \ {One(s)}] = h[s \ {One(s)}]
    <3> HIDE DEF h
    <3> QED
      BY <2>3, SmallLess
  <2>5. h = [s \in Small(S, n + 1) |->
               IF s = {} THEN 0 ELSE f[One(s)] + h[s \ {One(s)}]]
    <3> DEFINE k == [s \in Small(S, n + 1) |->
                       IF s = {} THEN 0 ELSE f[One(s)] + h[s \ {One(s)}]]
    <3>1. \A s \in Small(S, n + 1) : h[s] = IF s = {} THEN 0 ELSE f[One(s)] + g[s \ {One(s)}]
      OBVIOUS
    <3>2. DOMAIN h = Small(S, n + 1) /\ h = [s \in DOMAIN h |-> h[s]]
      OBVIOUS
    <3> HIDE DEF h
    <3>3. \A s \in Small(S, n + 1) : h[s] = k[s]
      BY <2>4, <3>1
    <3> QED
      BY <3>2, <3>3
  <2> HIDE DEF h
  <2>6. Adds(h, f, Small(S, n + 1))
    BY <2>5 DEF Adds
  <2> QED
    BY <2>6
<1>3. Cardinality(S) \in T
  <2> HIDE DEF T
  <2>1. Nat \subseteq T
    BY <1>1, <1>2, Naturally
  <2> QED
    BY <2>1, FS_CardinalityType
<1>4. Small(S, Cardinality(S)) = SUBSET S
  BY FS_Subset DEF Small
<1> QED
  BY <1>3, <1>4

\* The sum over a set, less and less of it.
LEMMA SumRecursion ==
  ASSUME NEW S, IsFiniteSet(S), NEW f
  PROVE  \E g : Adds(g, f, SUBSET S) /\ SumFunctionOnSet(f, S) = g[S]
<1> DEFINE g == CHOOSE g : Adds(g, f, SUBSET S)
<1>1. Adds(g, f, SUBSET S)
  BY AddsExists
<1>2. SumFunctionOnSet(f, S) = g[S]
  BY DEF SumFunctionOnSet, FoldFunctionOnSet, MapThenFoldSet, Adds, One
<1> QED
  BY <1>1, <1>2

\* Two such functions agree on the sets both are defined on.
LEMMA AddsUnique ==
  ASSUME NEW S, IsFiniteSet(S), NEW f, NEW g, Adds(g, f, SUBSET S),
         NEW T \in SUBSET S, NEW h, Adds(h, f, SUBSET T)
  PROVE  g[T] = h[T]
<1> DEFINE U == {n \in Nat : \A s \in SUBSET T : Cardinality(s) <= n => g[s] = h[s]}
<1>0. IsFiniteSet(T) /\ \A s \in SUBSET T : IsFiniteSet(s) /\ Cardinality(s) \in Nat
  BY FS_Subset, FS_CardinalityType
<1>1. 0 \in U
  <2> SUFFICES ASSUME NEW s \in SUBSET T, Cardinality(s) <= 0 PROVE g[s] = h[s]
    OBVIOUS
  <2>1. s = {}
    <3>1. Cardinality(s) = 0
      BY <1>0
    <3> QED
      BY <1>0, <3>1, FS_EmptySet
  <2> QED
    BY <2>1 DEF Adds
<1>2. ASSUME NEW n \in Nat, n \in U PROVE n + 1 \in U
  <2> SUFFICES ASSUME NEW s \in SUBSET T, Cardinality(s) <= n + 1 PROVE g[s] = h[s]
    OBVIOUS
  <2>0. /\ g[s] = IF s = {} THEN 0 ELSE f[One(s)] + g[s \ {One(s)}]
        /\ h[s] = IF s = {} THEN 0 ELSE f[One(s)] + h[s \ {One(s)}]
    BY DEF Adds
  <2> SUFFICES ASSUME s # {} PROVE g[s] = h[s]
    BY <2>0
  <2>1. s \ {One(s)} \in SUBSET T /\ Cardinality(s \ {One(s)}) <= n
    <3>1. s \in Small(T, n + 1)
      BY DEF Small
    <3>2. s \ {One(s)} \in Small(T, n)
      BY <1>0, <3>1, SmallLess
    <3> QED
      BY <3>2 DEF Small
  <2>2. g[s \ {One(s)}] = h[s \ {One(s)}]
    BY <1>2, <2>1
  <2> QED
    BY <2>0, <2>2
<1>3. Cardinality(T) \in U
  <2> HIDE DEF U
  <2>1. Nat \subseteq U
    BY <1>1, <1>2, Naturally
  <2> QED
    BY <1>0, <2>1
<1> QED
  BY <1>0, <1>3

\* A sum is one term and the sum of the others.
LEMMA SumStep ==
  ASSUME NEW S, IsFiniteSet(S), NEW f
  PROVE  SumFunctionOnSet(f, S) =
           IF S = {} THEN 0 ELSE f[One(S)] + SumFunctionOnSet(f, S \ {One(S)})
<1>1. PICK g : Adds(g, f, SUBSET S) /\ SumFunctionOnSet(f, S) = g[S]
  BY SumRecursion
<1>2. IsFiniteSet(S \ {One(S)}) /\ S \ {One(S)} \in SUBSET S
  BY FS_Subset
<1>3. PICK h : /\ Adds(h, f, SUBSET (S \ {One(S)}))
               /\ SumFunctionOnSet(f, S \ {One(S)}) = h[S \ {One(S)}]
  BY <1>2, SumRecursion
<1>4. g[S \ {One(S)}] = h[S \ {One(S)}]
  BY <1>1, <1>2, <1>3, AddsUnique
<1>5. g[S] = IF S = {} THEN 0 ELSE f[One(S)] + g[S \ {One(S)}]
  BY <1>1 DEF Adds
<1> QED
  BY <1>1, <1>3, <1>4, <1>5

\* A sum of naturals, and one term of it.
SumsWell(f, s) ==
  /\ SumFunctionOnSet(f, s) \in Nat
  /\ \A x \in s : SumFunctionOnSet(f, s) = f[x] + SumFunctionOnSet(f, s \ {x})

\* Whichever term is taken: the order of the terms does not matter.
LEMMA Sums ==
  ASSUME NEW S, IsFiniteSet(S), NEW f, \A x \in S : f[x] \in Nat
  PROVE  SumsWell(f, S)
<1> DEFINE T == {n \in Nat : \A s \in SUBSET S : Cardinality(s) <= n => SumsWell(f, s)}
<1>0. \A s \in SUBSET S : IsFiniteSet(s) /\ Cardinality(s) \in Nat
  BY FS_Subset, FS_CardinalityType
<1>1. 0 \in T
  <2> SUFFICES ASSUME NEW s \in SUBSET S, Cardinality(s) <= 0 PROVE SumsWell(f, s)
    OBVIOUS
  <2>1. s = {}
    <3>1. Cardinality(s) = 0
      BY <1>0
    <3> QED
      BY <1>0, <3>1, FS_EmptySet
  <2>2. SumFunctionOnSet(f, s) = 0
    BY <1>0, <2>1, SumStep
  <2> QED
    BY <2>1, <2>2 DEF SumsWell
<1>2. ASSUME NEW n \in Nat, n \in T PROVE n + 1 \in T
  <2> SUFFICES ASSUME NEW s \in SUBSET S, Cardinality(s) <= n + 1, s # {} PROVE SumsWell(f, s)
    <3>1. Cardinality({}) <= 0
      BY FS_EmptySet
    <3>2. SumsWell(f, {})
      BY <1>1, <3>1
    <3> QED
      BY <3>2
  <2> DEFINE c == One(s)
             Sum(t) == SumFunctionOnSet(f, t)
  <2>1. c \in s
    BY OneIn
  <2>2. ASSUME NEW x \in s
        PROVE  s \ {x} \in SUBSET S /\ Cardinality(s \ {x}) <= n /\ SumsWell(f, s \ {x})
    <3>1. Cardinality(s \ {x}) <= n
      BY <1>0, FS_RemoveElement
    <3> QED
      BY <1>2, <3>1
  <2>3. Sum(s) = f[c] + Sum(s \ {c})
    BY <1>0, <2>1, SumStep
  <2>4. Sum(s) \in Nat
    BY <2>1, <2>2, <2>3 DEF SumsWell
  <2>5. ASSUME NEW x \in s, x # c PROVE Sum(s) = f[x] + Sum(s \ {x})
    <3>1. Sum(s \ {c}) = f[x] + Sum((s \ {c}) \ {x})
      BY <2>1, <2>2, <2>5 DEF SumsWell
    <3>2. Sum(s \ {x}) = f[c] + Sum((s \ {x}) \ {c})
      BY <2>1, <2>2, <2>5 DEF SumsWell
    <3>3. (s \ {c}) \ {x} = (s \ {x}) \ {c}
      OBVIOUS
    <3>4. Sum((s \ {c}) \ {x}) \in Int
      <4>1. (s \ {c}) \ {x} \in SUBSET S /\ Cardinality((s \ {c}) \ {x}) <= n
        <5>1. IsFiniteSet(s \ {c}) /\ Cardinality(s \ {c}) <= n /\ Cardinality(s \ {c}) \in Nat
          BY <1>0, <2>1, <2>2
        <5>2. Cardinality((s \ {c}) \ {x}) <= Cardinality(s \ {c})
          <6>1. x \in s \ {c}
            BY <2>5
          <6>2. Cardinality((s \ {c}) \ {x}) = Cardinality(s \ {c}) - 1
            BY <5>1, <6>1, FS_RemoveElement
          <6> QED
            BY <5>1, <6>2
        <5>3. Cardinality((s \ {c}) \ {x}) \in Nat
          BY <1>0
        <5> QED
          BY <5>1, <5>2, <5>3
      <4> QED
        BY <1>2, <4>1 DEF SumsWell
    <3>5. f[x] \in Nat /\ f[c] \in Nat
      BY <2>1
    <3>6. PICK p : p = f[x]
      OBVIOUS
    <3>7. PICK q : q = f[c]
      OBVIOUS
    <3>8. PICK z : z = Sum((s \ {c}) \ {x})
      OBVIOUS
    <3>9. Sum(s) = q + Sum(s \ {c}) /\ Sum(s \ {c}) = p + z /\ Sum(s \ {x}) = q + z
      BY <2>3, <3>1, <3>2, <3>3, <3>6, <3>7, <3>8
    <3>10. p \in Nat /\ q \in Nat /\ z \in Int
      BY <3>4, <3>5, <3>6, <3>7, <3>8
    <3>11. q + (p + z) = p + (q + z)
      BY <3>10
    <3> QED
      BY <3>6, <3>9, <3>11
  <2> QED
    BY <2>3, <2>4, <2>5 DEF SumsWell
<1>3. Cardinality(S) \in T
  <2> HIDE DEF T
  <2>1. Nat \subseteq T
    BY <1>1, <1>2, Naturally
  <2> QED
    BY <2>1, FS_CardinalityType
<1> QED
  BY <1>3, FS_Subset

\* The sum of no terms, and of one more.
LEMMA SumNone == \A f : SumFunctionOnSet(f, {}) = 0
BY SumStep, FS_EmptySet

LEMMA SumOneMore ==
  ASSUME NEW n \in Nat, NEW f, \A i \in 1 .. n + 1 : f[i] \in Nat
  PROVE  SumFunctionOnSet(f, 1 .. n + 1) = SumFunctionOnSet(f, 1 .. n) + f[n + 1]
<1>1. SumsWell(f, 1 .. n + 1) /\ SumsWell(f, 1 .. n)
  <2>1. IsFiniteSet(1 .. n + 1) /\ IsFiniteSet(1 .. n)
    BY FS_Interval, 1 \in Int, n \in Int, n + 1 \in Int
  <2>2. \A i \in 1 .. n : f[i] \in Nat
    OBVIOUS
  <2> QED
    BY <2>1, <2>2, Sums
<1>2. (1 .. n + 1) \ {n + 1} = 1 .. n /\ n + 1 \in 1 .. n + 1
  OBVIOUS
<1>3. SumFunctionOnSet(f, 1 .. n + 1) = f[n + 1] + SumFunctionOnSet(f, 1 .. n)
  BY <1>1, <1>2 DEF SumsWell
<1>4. SumFunctionOnSet(f, 1 .. n) \in Nat /\ f[n + 1] \in Nat
  BY <1>1, <1>2 DEF SumsWell
<1> QED
  BY <1>3, <1>4

\* The sets with an index in D, taken together.
All(S, D) == UNION {S[x] : x \in D}

\* Disjoint sets: as many elements as the sets together.
LEMMA UnionSum ==
  ASSUME NEW n \in Nat, NEW S, NEW f,
         \A i \in 1 .. n : IsFiniteSet(S[i]) /\ Cardinality(S[i]) = f[i],
         \A i, j \in 1 .. n : i # j => S[i] \cap S[j] = {}
  PROVE  /\ IsFiniteSet(All(S, 1 .. n))
         /\ Cardinality(All(S, 1 .. n)) = SumFunctionOnSet(f, 1 .. n)
<1> DEFINE U(m) == UNION {S[i] : i \in 1 .. m}
           T == {m \in Nat : m <= n =>
                   IsFiniteSet(U(m)) /\ Cardinality(U(m)) = SumFunctionOnSet(f, 1 .. m)}
<1>0. \A i \in 1 .. n : f[i] \in Nat
  BY FS_CardinalityType
<1>1. 0 \in T
  <2>1. U(0) = {} /\ 1 .. 0 = {}
    OBVIOUS
  <2> QED
    BY <2>1, FS_EmptySet, SumNone
<1>2. ASSUME NEW m \in Nat, m \in T PROVE m + 1 \in T
  <2> SUFFICES ASSUME m + 1 <= n
               PROVE  /\ IsFiniteSet(U(m + 1))
                      /\ Cardinality(U(m + 1)) = SumFunctionOnSet(f, 1 .. m + 1)
    OBVIOUS
  <2>1. IsFiniteSet(U(m)) /\ Cardinality(U(m)) = SumFunctionOnSet(f, 1 .. m)
    BY <1>2
  <2>2. IsFiniteSet(S[m + 1]) /\ Cardinality(S[m + 1]) = f[m + 1] /\ f[m + 1] \in Nat
    BY <1>0
  <2>3. U(m + 1) = U(m) \cup S[m + 1]
    <3>1. 1 .. m + 1 = (1 .. m) \cup {m + 1}
      OBVIOUS
    <3> QED
      BY <3>1
  <2>4. U(m) \cap S[m + 1] = {}
    <3> SUFFICES ASSUME NEW i \in 1 .. m PROVE S[i] \cap S[m + 1] = {}
      OBVIOUS
    <3> QED
      OBVIOUS
  <2> HIDE DEF U
  <2>5. /\ IsFiniteSet(U(m) \cup S[m + 1])
        /\ Cardinality(U(m) \cup S[m + 1])
             = Cardinality(U(m)) + Cardinality(S[m + 1]) - Cardinality(U(m) \cap S[m + 1])
    BY <2>1, <2>2, FS_Union
  <2>6. Cardinality(U(m) \cap S[m + 1]) = 0
    BY <2>4, FS_EmptySet
  <2>7. SumFunctionOnSet(f, 1 .. m + 1) = SumFunctionOnSet(f, 1 .. m) + f[m + 1]
    BY <1>0, SumOneMore
  <2>8. Cardinality(U(m)) \in Nat
    BY <2>1, FS_CardinalityType
  <2>9. Cardinality(U(m) \cup S[m + 1]) = Cardinality(U(m)) + f[m + 1]
    BY <2>2, <2>5, <2>6, <2>8
  <2> QED
    BY <2>1, <2>3, <2>5, <2>7, <2>9
<1>3. n \in T
  <2> HIDE DEF T
  <2> QED
    BY <1>1, <1>2, Naturally
<1> QED
  BY <1>3 DEF All

\* One time more: multiplication as the provers need it.
LEMMA TimesMore ==
  ASSUME NEW m \in Nat, NEW k \in Nat PROVE (m + 1) * k = m * k + k
OBVIOUS

\* Disjoint sets of one size.
LEMMA UnionTimes ==
  ASSUME NEW lo \in Nat, NEW hi \in Int, lo <= hi + 1, NEW k \in Nat, NEW S,
         \A x \in lo .. hi : IsFiniteSet(S[x]) /\ Cardinality(S[x]) = k,
         \A x, y \in lo .. hi : x # y => S[x] \cap S[y] = {}
  PROVE  /\ IsFiniteSet(All(S, lo .. hi))
         /\ Cardinality(All(S, lo .. hi)) = (hi - lo + 1) * k
<1> DEFINE U(m) == UNION {S[x] : x \in lo .. lo + m - 1}
           T == {m \in Nat : m <= hi - lo + 1 =>
                   IsFiniteSet(U(m)) /\ Cardinality(U(m)) = m * k}
<1>1. 0 \in T
  <2>1. U(0) = {}
    <3>1. lo .. lo + 0 - 1 = {}
      OBVIOUS
    <3> QED
      BY <3>1
  <2> HIDE DEF U
  <2>2. 0 * k = 0
    OBVIOUS
  <2> QED
    BY <2>1, <2>2, FS_EmptySet
<1>2. ASSUME NEW m \in Nat, m \in T PROVE m + 1 \in T
  <2> SUFFICES ASSUME m + 1 <= hi - lo + 1
               PROVE  /\ IsFiniteSet(U(m + 1))
                      /\ Cardinality(U(m + 1)) = (m + 1) * k
    OBVIOUS
  <2>1. IsFiniteSet(U(m)) /\ Cardinality(U(m)) = m * k
    BY <1>2
  <2>2. IsFiniteSet(S[lo + m]) /\ Cardinality(S[lo + m]) = k
    OBVIOUS
  <2>3. U(m + 1) = U(m) \cup S[lo + m]
    <3>1. lo .. lo + (m + 1) - 1 = (lo .. lo + m - 1) \cup {lo + m}
      OBVIOUS
    <3> QED
      BY <3>1
  <2>4. U(m) \cap S[lo + m] = {}
    <3> SUFFICES ASSUME NEW i \in lo .. lo + m - 1 PROVE S[i] \cap S[lo + m] = {}
      OBVIOUS
    <3>1. i \in lo .. hi /\ lo + m \in lo .. hi /\ i # lo + m
      OBVIOUS
    <3> QED
      BY <3>1
  <2> HIDE DEF U
  <2>5. /\ IsFiniteSet(U(m) \cup S[lo + m])
        /\ Cardinality(U(m) \cup S[lo + m])
             = Cardinality(U(m)) + Cardinality(S[lo + m]) - Cardinality(U(m) \cap S[lo + m])
    BY <2>1, <2>2, FS_Union
  <2>6. Cardinality(U(m) \cap S[lo + m]) = 0
    BY <2>4, FS_EmptySet
  <2>7. (m + 1) * k = m * k + k /\ m * k \in Nat
    BY TimesMore
  <2>8. Cardinality(U(m) \cup S[lo + m]) = m * k + k
    BY <2>1, <2>2, <2>5, <2>6, <2>7
  <2> QED
    BY <2>3, <2>5, <2>7, <2>8
<1>3. hi - lo + 1 \in T
  <2>1. hi - lo + 1 \in Nat
    OBVIOUS
  <2> HIDE DEF T
  <2> QED
    BY <1>1, <1>2, <2>1, Naturally
<1>4. IsFiniteSet(U(hi - lo + 1)) /\ Cardinality(U(hi - lo + 1)) = (hi - lo + 1) * k
  BY <1>3
<1>5. All(S, lo .. hi) = U(hi - lo + 1)
  <2>1. lo .. hi = lo .. lo + (hi - lo + 1) - 1
    OBVIOUS
  <2> QED
    BY <2>1 DEF All
<1> QED
  BY <1>4, <1>5

\* Intervals one behind the other.
LEMMA Ascending ==
  ASSUME NEW n \in Nat, NEW b, NEW e,
         \A i \in 1 .. n : b[i] \in Nat /\ e[i] \in Nat /\ b[i] <= e[i],
         \A i \in 1 .. n : i > 1 => e[i - 1] < b[i]
  PROVE  \A i, j \in 1 .. n : i < j => e[i] < b[j]
<1> DEFINE T == {m \in Nat : m <= n => \A i \in 1 .. m - 1 : e[i] < b[m]}
<1>1. 0 \in T
  OBVIOUS
<1>2. ASSUME NEW m \in Nat, m \in T PROVE m + 1 \in T
  <2> SUFFICES ASSUME m + 1 <= n, NEW i \in 1 .. m PROVE e[i] < b[m + 1]
    OBVIOUS
  <2>1. e[m] < b[m + 1]
    <3>1. m + 1 \in 1 .. n /\ m + 1 > 1 /\ (m + 1) - 1 = m
      OBVIOUS
    <3> QED
      BY <3>1
  <2>2. CASE i = m
    BY <2>1, <2>2
  <2>3. CASE i # m
    <3>1. e[i] < b[m] /\ b[m] <= e[m]
      BY <1>2, <2>3
    <3>2. {i, m, m + 1} \subseteq 1 .. n
      BY <2>3
    <3>3. e[i] \in Nat /\ b[m] \in Nat /\ e[m] \in Nat /\ b[m + 1] \in Nat
      BY <3>2
    <3> QED
      BY <2>1, <3>1, <3>3
  <2> QED
    BY <2>2, <2>3
<1>3. Nat \subseteq T
  <2> HIDE DEF T
  <2> QED
    BY <1>1, <1>2, Naturally
<1> QED
  BY <1>3
-----------------------------------------------------------------------------
(***************************************************************************)
(* The order of places.                                                    *)
(***************************************************************************)
\* The order of two places is that of their first difference.
LEMMA FirstDifference ==
  \A p, q : Before(p, q) <=>
    \E i \in DOMAIN p \cap DOMAIN q : p[i] < q[i] /\ \A j \in 1 .. i - 1 : p[j] = q[j]
BY DEF Before

\* The indices a place of eight numbers has.
LEMMA Prefixes ==
  /\ 1 .. 0 = {} /\ 1 .. 1 = {1} /\ 1 .. 2 = {1, 2} /\ 1 .. 3 = {1, 2, 3}
  /\ 1 .. 4 = {1, 2, 3, 4} /\ 1 .. 5 = {1, 2, 3, 4, 5} /\ 1 .. 6 = {1, 2, 3, 4, 5, 6}
  /\ 1 .. 7 = {1, 2, 3, 4, 5, 6, 7} /\ 1 .. 8 = {1, 2, 3, 4, 5, 6, 7, 8}
OBVIOUS

\* The places of a door station, of a unit and of a common machine.
DoorPlace(x, y, s) == <<0, x, y, 0, s>>
UnitPlace(x, y, f, r, k, u) == <<0, x, y, 1, f, r, k, u>>
CommonPlace(g, s) == <<1, g, s>>

\* All of them are natural numbers.
Nats(S) == S \subseteq Nat

\* Places are the same when their numbers are.
LEMMA PlacesDiffer ==
  /\ \A x, y, s, xx, yy, ss :
       DoorPlace(x, y, s) = DoorPlace(xx, yy, ss) <=> x = xx /\ y = yy /\ s = ss
  /\ \A x, y, f, r, k, u, xx, yy, ff, rr, kk, uu :
       UnitPlace(x, y, f, r, k, u) = UnitPlace(xx, yy, ff, rr, kk, uu)
         <=> x = xx /\ y = yy /\ f = ff /\ r = rr /\ k = kk /\ u = uu
  /\ \A g, s, gg, ss : CommonPlace(g, s) = CommonPlace(gg, ss) <=> g = gg /\ s = ss
  /\ \A x, y, s, xx, yy, f, r, k, u : DoorPlace(x, y, s) # UnitPlace(xx, yy, f, r, k, u)
  /\ \A x, y, s, g, ss : DoorPlace(x, y, s) # CommonPlace(g, ss)
  /\ \A x, y, f, r, k, u, g, s : UnitPlace(x, y, f, r, k, u) # CommonPlace(g, s)
BY DEF DoorPlace, UnitPlace, CommonPlace

\* Two doors: buildings, cells, units.
LEMMA DoorDoor ==
  ASSUME NEW x, NEW y, NEW s, NEW xx, NEW yy, NEW ss, Nats({x, y, s, xx, yy, ss})
  PROVE  Before(DoorPlace(x, y, s), DoorPlace(xx, yy, ss))
           <=> x < xx \/ (x = xx /\ (y < yy \/ (y = yy /\ s < ss)))
<1> DEFINE p == DoorPlace(x, y, s)
           q == DoorPlace(xx, yy, ss)
           E(i) == p[i] = q[i]
<1>1. DOMAIN p \cap DOMAIN q = 1 .. 5
  BY DEF DoorPlace, UnitPlace, CommonPlace
<1>2. /\ p[1] = 0 /\ p[2] = x /\ p[3] = y /\ p[4] = 0 /\ p[5] = s /\ q[1] = 0 /\ q[2] = xx
      /\ q[3] = yy /\ q[4] = 0 /\ q[5] = ss
  BY DEF DoorPlace, UnitPlace, CommonPlace
<1>0. /\ x \in Nat /\ y \in Nat /\ s \in Nat /\ xx \in Nat /\ yy \in Nat /\ ss \in Nat
  BY DEF Nats
<1> HIDE DEF p, q
<1>3. Before(p, q) <=> \E i \in 1 .. 5 : p[i] < q[i] /\ \A j \in 1 .. i - 1 : E(j)
  BY <1>1, FirstDifference
<1>4. Before(p, q)
        <=> \/ p[1] < q[1]
            \/ p[2] < q[2] /\ E(1)
            \/ p[3] < q[3] /\ E(1) /\ E(2)
            \/ p[4] < q[4] /\ E(1) /\ E(2) /\ E(3)
            \/ p[5] < q[5] /\ E(1) /\ E(2) /\ E(3) /\ E(4)
  BY <1>3, Prefixes
<1> QED
  BY <1>0, <1>2, <1>4 DEF p, q

\* The doors of a cell come before its rooms.
LEMMA DoorUnit ==
  ASSUME NEW x, NEW y, NEW s, NEW xx, NEW yy, NEW f, NEW r, NEW k, NEW u,
         Nats({x, y, s, xx, yy, f, r, k, u})
  PROVE  Before(DoorPlace(x, y, s), UnitPlace(xx, yy, f, r, k, u))
           <=> x < xx \/ (x = xx /\ y <= yy)
<1> DEFINE p == DoorPlace(x, y, s)
           q == UnitPlace(xx, yy, f, r, k, u)
           E(i) == p[i] = q[i]
<1>1. DOMAIN p \cap DOMAIN q = 1 .. 5
  BY DEF DoorPlace, UnitPlace, CommonPlace
<1>2. /\ p[1] = 0 /\ p[2] = x /\ p[3] = y /\ p[4] = 0 /\ p[5] = s /\ q[1] = 0 /\ q[2] = xx
      /\ q[3] = yy /\ q[4] = 1 /\ q[5] = f
  BY DEF DoorPlace, UnitPlace, CommonPlace
<1>0. /\ x \in Nat /\ y \in Nat /\ s \in Nat /\ xx \in Nat /\ yy \in Nat /\ f \in Nat
      /\ r \in Nat /\ k \in Nat /\ u \in Nat
  BY DEF Nats
<1> HIDE DEF p, q
<1>3. Before(p, q) <=> \E i \in 1 .. 5 : p[i] < q[i] /\ \A j \in 1 .. i - 1 : E(j)
  BY <1>1, FirstDifference
<1>4. Before(p, q)
        <=> \/ p[1] < q[1]
            \/ p[2] < q[2] /\ E(1)
            \/ p[3] < q[3] /\ E(1) /\ E(2)
            \/ p[4] < q[4] /\ E(1) /\ E(2) /\ E(3)
            \/ p[5] < q[5] /\ E(1) /\ E(2) /\ E(3) /\ E(4)
  BY <1>3, Prefixes
<1> QED
  BY <1>0, <1>2, <1>4 DEF p, q

\* And its rooms after them.
LEMMA UnitDoor ==
  ASSUME NEW x, NEW y, NEW s, NEW xx, NEW yy, NEW f, NEW r, NEW k, NEW u,
         Nats({x, y, s, xx, yy, f, r, k, u})
  PROVE  Before(UnitPlace(x, y, f, r, k, u), DoorPlace(xx, yy, s))
           <=> x < xx \/ (x = xx /\ y < yy)
<1> DEFINE p == UnitPlace(x, y, f, r, k, u)
           q == DoorPlace(xx, yy, s)
           E(i) == p[i] = q[i]
<1>1. DOMAIN p \cap DOMAIN q = 1 .. 5
  BY DEF DoorPlace, UnitPlace, CommonPlace
<1>2. /\ p[1] = 0 /\ p[2] = x /\ p[3] = y /\ p[4] = 1 /\ p[5] = f /\ q[1] = 0 /\ q[2] = xx
      /\ q[3] = yy /\ q[4] = 0 /\ q[5] = s
  BY DEF DoorPlace, UnitPlace, CommonPlace
<1>0. /\ x \in Nat /\ y \in Nat /\ s \in Nat /\ xx \in Nat /\ yy \in Nat /\ f \in Nat
      /\ r \in Nat /\ k \in Nat /\ u \in Nat
  BY DEF Nats
<1> HIDE DEF p, q
<1>3. Before(p, q) <=> \E i \in 1 .. 5 : p[i] < q[i] /\ \A j \in 1 .. i - 1 : E(j)
  BY <1>1, FirstDifference
<1>4. Before(p, q)
        <=> \/ p[1] < q[1]
            \/ p[2] < q[2] /\ E(1)
            \/ p[3] < q[3] /\ E(1) /\ E(2)
            \/ p[4] < q[4] /\ E(1) /\ E(2) /\ E(3)
            \/ p[5] < q[5] /\ E(1) /\ E(2) /\ E(3) /\ E(4)
  BY <1>3, Prefixes
<1> QED
  BY <1>0, <1>2, <1>4 DEF p, q

\* Two units: buildings, cells, floors, rooms, kinds, units.
LEMMA UnitUnit ==
  ASSUME NEW x, NEW y, NEW f, NEW r, NEW k, NEW u, NEW xx, NEW yy, NEW ff, NEW rr, NEW kk,
         NEW uu, Nats({x, y, f, r, k, u, xx, yy, ff, rr, kk, uu})
  PROVE  Before(UnitPlace(x, y, f, r, k, u), UnitPlace(xx, yy, ff, rr, kk, uu))
           <=> x < xx \/ (x = xx /\ (y < yy \/ (y = yy /\ (f < ff \/ (f = ff
                 /\ (r < rr \/ (r = rr /\ (k < kk \/ (k = kk /\ u < uu)))))))))
<1> DEFINE p == UnitPlace(x, y, f, r, k, u)
           q == UnitPlace(xx, yy, ff, rr, kk, uu)
           E(i) == p[i] = q[i]
<1>1. DOMAIN p \cap DOMAIN q = 1 .. 8
  BY DEF DoorPlace, UnitPlace, CommonPlace
<1>2. /\ p[1] = 0 /\ p[2] = x /\ p[3] = y /\ p[4] = 1 /\ p[5] = f /\ p[6] = r /\ p[7] = k
      /\ p[8] = u /\ q[1] = 0 /\ q[2] = xx /\ q[3] = yy /\ q[4] = 1 /\ q[5] = ff /\ q[6] = rr
      /\ q[7] = kk /\ q[8] = uu
  BY DEF DoorPlace, UnitPlace, CommonPlace
<1>0. /\ x \in Nat /\ y \in Nat /\ f \in Nat /\ r \in Nat /\ k \in Nat /\ u \in Nat
      /\ xx \in Nat /\ yy \in Nat /\ ff \in Nat /\ rr \in Nat /\ kk \in Nat /\ uu \in Nat
  BY DEF Nats
<1> HIDE DEF p, q
<1>3. Before(p, q) <=> \E i \in 1 .. 8 : p[i] < q[i] /\ \A j \in 1 .. i - 1 : E(j)
  BY <1>1, FirstDifference
<1>4. Before(p, q)
        <=> \/ p[1] < q[1]
            \/ p[2] < q[2] /\ E(1)
            \/ p[3] < q[3] /\ E(1) /\ E(2)
            \/ p[4] < q[4] /\ E(1) /\ E(2) /\ E(3)
            \/ p[5] < q[5] /\ E(1) /\ E(2) /\ E(3) /\ E(4)
            \/ p[6] < q[6] /\ E(1) /\ E(2) /\ E(3) /\ E(4) /\ E(5)
            \/ p[7] < q[7] /\ E(1) /\ E(2) /\ E(3) /\ E(4) /\ E(5) /\ E(6)
            \/ p[8] < q[8] /\ E(1) /\ E(2) /\ E(3) /\ E(4) /\ E(5) /\ E(6) /\ E(7)
  BY <1>3, Prefixes
<1> QED
  BY <1>0, <1>2, <1>4 DEF p, q

\* Two common machines.
LEMMA CommonCommon ==
  ASSUME NEW g, NEW s, NEW gg, NEW ss, Nats({g, s, gg, ss})
  PROVE  Before(CommonPlace(g, s), CommonPlace(gg, ss))
           <=> g < gg \/ (g = gg /\ s < ss)
<1> DEFINE p == CommonPlace(g, s)
           q == CommonPlace(gg, ss)
           E(i) == p[i] = q[i]
<1>1. DOMAIN p \cap DOMAIN q = 1 .. 3
  BY DEF DoorPlace, UnitPlace, CommonPlace
<1>2. /\ p[1] = 1 /\ p[2] = g /\ p[3] = s /\ q[1] = 1 /\ q[2] = gg /\ q[3] = ss
  BY DEF DoorPlace, UnitPlace, CommonPlace
<1>0. /\ g \in Nat /\ s \in Nat /\ gg \in Nat /\ ss \in Nat
  BY DEF Nats
<1> HIDE DEF p, q
<1>3. Before(p, q) <=> \E i \in 1 .. 3 : p[i] < q[i] /\ \A j \in 1 .. i - 1 : E(j)
  BY <1>1, FirstDifference
<1>4. Before(p, q)
        <=> \/ p[1] < q[1]
            \/ p[2] < q[2] /\ E(1)
            \/ p[3] < q[3] /\ E(1) /\ E(2)
  BY <1>3, Prefixes
<1> QED
  BY <1>0, <1>2, <1>4 DEF p, q

\* Common machines come last.
LEMMA CommonLast ==
  ASSUME NEW q \in Seq(Nat), 1 \in DOMAIN q, NEW g \in Nat, NEW s \in Nat, q[1] = 0
  PROVE  Before(q, CommonPlace(g, s)) /\ ~Before(CommonPlace(g, s), q)
<1> DEFINE p == CommonPlace(g, s)
<1>1. 1 \in DOMAIN p /\ p[1] = 1 /\ DOMAIN p = 1 .. 3
  BY DEF CommonPlace
<1> HIDE DEF p
<1>2. Before(q, p)
  BY <1>1, Prefixes, FirstDifference
<1>3. ~Before(p, q)
  <2> SUFFICES ASSUME NEW i \in DOMAIN p \cap DOMAIN q, p[i] < q[i],
                      \A j \in 1 .. i - 1 : p[j] = q[j]
               PROVE  FALSE
    BY FirstDifference
  <2>1. i \in 1 .. Len(q)
    OBVIOUS
  <2>2. i = 1 \/ 1 \in 1 .. i - 1
    BY <2>1
  <2> QED
    BY <1>1, <2>2
<1> QED
  BY <1>2, <1>3 DEF p
-----------------------------------------------------------------------------
(***************************************************************************)
(* How many places a cell has, and how many there are up to one of them.   *)
(***************************************************************************)
\* Two sets without a common element have the elements of both.
LEMMA Together ==
  ASSUME NEW S, NEW T, IsFiniteSet(S), IsFiniteSet(T), S \cap T = {}
  PROVE  IsFiniteSet(S \cup T) /\ Cardinality(S \cup T) = Cardinality(S) + Cardinality(T)
<1>1. /\ IsFiniteSet(S \cup T)
      /\ Cardinality(S \cup T) = Cardinality(S) + Cardinality(T) - Cardinality(S \cap T)
  BY FS_Union
<1>2. Cardinality(S \cap T) = 0 /\ Cardinality(S) \in Nat /\ Cardinality(T) \in Nat
  BY FS_EmptySet, FS_CardinalityType
<1> QED
  BY <1>1, <1>2

\* As many images as elements.
LEMMA Images ==
  ASSUME NEW S, IsFiniteSet(S), NEW f, DOMAIN f = S, \A x, y \in S : f[x] = f[y] => x = y
  PROVE  /\ IsFiniteSet({f[x] : x \in S})
         /\ Cardinality({f[x] : x \in S}) = Cardinality(S)
<1> DEFINE T == {f[x] : x \in S}
           g == [x \in S |-> f[x]]
<1>1. g \in Bijection(S, T)
  BY DEF Bijection, Injection, Surjection, IsInjective
<1>2. ExistsBijection(S, T)
  BY <1>1 DEF ExistsBijection
<1> QED
  BY <1>2, FS_Bijection

\* The first units of a room.
Kind(k, n) == {k} \X (1 .. n)

\* A kind of units, and the units of a room.
LEMMA KindCount ==
  ASSUME NEW k, NEW n \in Nat
  PROVE  IsFiniteSet(Kind(k, n)) /\ Cardinality(Kind(k, n)) = n
<1>1. IsFiniteSet({k}) /\ Cardinality({k}) = 1
  BY FS_Singleton
<1>2. IsFiniteSet(1 .. n) /\ Cardinality(1 .. n) = n
  BY FS_Interval, 1 \in Int, n \in Int
<1>3. IsFiniteSet(Kind(k, n)) /\ Cardinality(Kind(k, n)) = 1 * n
  BY <1>1, <1>2, FS_Product DEF Kind
<1> QED
  BY <1>3

LEMMA UnitsCount ==
  ASSUME NEW l \in CellRec
  PROVE  /\ IsFiniteSet(Units(l))
         /\ Cardinality(Units(l)) = l.inDoorCount + l.secondOutDoorCount
<1>1. Units(l) = Kind(0, l.secondOutDoorCount) \cup Kind(1, l.inDoorCount)
  BY DEF Units, Kind
<1>2. l.secondOutDoorCount \in Nat /\ l.inDoorCount \in Nat
  BY DEF CellRec
<1>3. Kind(0, l.secondOutDoorCount) \cap Kind(1, l.inDoorCount) = {}
  BY DEF Kind
<1>4. /\ IsFiniteSet(Kind(0, l.secondOutDoorCount)) /\ IsFiniteSet(Kind(1, l.inDoorCount))
      /\ Cardinality(Kind(0, l.secondOutDoorCount)) = l.secondOutDoorCount
      /\ Cardinality(Kind(1, l.inDoorCount)) = l.inDoorCount
  BY <1>2, KindCount
<1>5. /\ IsFiniteSet(Units(l))
      /\ Cardinality(Units(l)) = l.secondOutDoorCount + l.inDoorCount
  BY <1>1, <1>3, <1>4, Together
<1> QED
  BY <1>2, <1>5

UnitAt(x, y, f, r, v) == UnitPlace(x, y, f, r, v[1], v[2])
RoomPlaces(V, x, y, f, r) == {UnitAt(x, y, f, r, v) : v \in V}

\* A room has a place for each of its units.
LEMMA RoomCount ==
  ASSUME NEW l \in CellRec, NEW V \in SUBSET Units(l), NEW x, NEW y, NEW f, NEW r
  PROVE  /\ IsFiniteSet(RoomPlaces(V, x, y, f, r))
         /\ Cardinality(RoomPlaces(V, x, y, f, r)) = Cardinality(V)
<1> DEFINE g == [v \in V |-> UnitAt(x, y, f, r, v)]
<1>1. IsFiniteSet(V)
  BY UnitsCount, FS_Subset
<1>2. \A v \in V : v = <<v[1], v[2]>>
  BY DEF Units
<1>3. ASSUME NEW v \in V, NEW w \in V, g[v] = g[w] PROVE v = w
  <2>1. UnitAt(x, y, f, r, v) = UnitAt(x, y, f, r, w)
    BY <1>3
  <2>2. v[1] = w[1] /\ v[2] = w[2]
    BY <2>1, PlacesDiffer DEF UnitAt
  <2> QED
    BY <1>2, <2>2
<1>4. {g[v] : v \in V} = RoomPlaces(V, x, y, f, r)
  BY DEF RoomPlaces
<1>5. DOMAIN g = V
  OBVIOUS
<1> HIDE DEF g
<1> QED
  BY <1>1, <1>3, <1>4, <1>5, Images

\* The rooms lo to hi of a floor, and the floors lo to hi of a cell.
RowPlaces(l, x, y, f, lo, hi) == UNION {RoomPlaces(Units(l), x, y, f, r) : r \in lo .. hi}
FloorPlaces(l, x, y, lo, hi) ==
  UNION {RowPlaces(l, x, y, f, l.roomBegin, l.roomEnd) : f \in lo .. hi}

\* A place of a row of rooms, of a floor or more.
LEMMA InRow ==
  ASSUME NEW l, NEW x, NEW y, NEW f, NEW lo, NEW hi, NEW p
  PROVE  p \in RowPlaces(l, x, y, f, lo, hi)
           <=> \E r \in lo .. hi, v \in Units(l) : p = UnitAt(x, y, f, r, v)
BY DEF RowPlaces, RoomPlaces

LEMMA InFloor ==
  ASSUME NEW l, NEW x, NEW y, NEW lo, NEW hi, NEW p
  PROVE  p \in FloorPlaces(l, x, y, lo, hi)
           <=> \E f \in lo .. hi, r \in l.roomBegin .. l.roomEnd, v \in Units(l) :
                 p = UnitAt(x, y, f, r, v)
BY InRow DEF FloorPlaces

\* Units of different rooms have different places, and none is a door.
LEMMA UnitIs ==
  ASSUME NEW x, NEW y, NEW f, NEW r, NEW v, NEW q, NEW w, NEW s, NEW e
  PROVE  /\ UnitAt(x, y, f, r, v) = UnitAt(x, y, e, q, w) => e = f /\ q = r
         /\ UnitAt(x, y, f, r, v) # DoorPlace(x, y, s)
BY PlacesDiffer DEF UnitAt

\* The rooms lo to hi of a floor have as many places as rooms times units.
LEMMA RowCount ==
  ASSUME NEW l \in CellRec, NEW x, NEW y, NEW f, NEW lo \in Nat, NEW hi \in Int, lo <= hi + 1
  PROVE  /\ IsFiniteSet(RowPlaces(l, x, y, f, lo, hi))
         /\ Cardinality(RowPlaces(l, x, y, f, lo, hi))
              = (hi - lo + 1) * (l.inDoorCount + l.secondOutDoorCount)
<1> DEFINE S == [r \in lo .. hi |-> RoomPlaces(Units(l), x, y, f, r)]
           k == l.inDoorCount + l.secondOutDoorCount
<1>1. k \in Nat
  BY DEF CellRec
<1>2. \A r \in lo .. hi : IsFiniteSet(S[r]) /\ Cardinality(S[r]) = k
  BY RoomCount, UnitsCount
<1>3. ASSUME NEW r \in lo .. hi, NEW q \in lo .. hi, r # q PROVE S[r] \cap S[q] = {}
  <2> SUFFICES ASSUME NEW v \in Units(l), NEW w \in Units(l),
                      UnitAt(x, y, f, r, v) = UnitAt(x, y, f, q, w)
               PROVE  FALSE
    BY DEF RoomPlaces
  <2> QED
    BY <1>3, UnitIs
<1>4. All(S, lo .. hi) = RowPlaces(l, x, y, f, lo, hi)
  BY DEF RowPlaces, All
<1> HIDE DEF S, k
<1>5. /\ IsFiniteSet(All(S, lo .. hi))
      /\ Cardinality(All(S, lo .. hi)) = (hi - lo + 1) * k
  BY <1>1, <1>2, <1>3, UnionTimes
<1> QED
  BY <1>4, <1>5 DEF k

\* The floors lo to hi of a cell: floors times rooms times units.
LEMMA FloorCount ==
  ASSUME NEW l \in CellRec, l.roomBegin <= l.roomEnd, NEW x, NEW y,
         NEW lo \in Nat, NEW hi \in Int, lo <= hi + 1
  PROVE  /\ IsFiniteSet(FloorPlaces(l, x, y, lo, hi))
         /\ Cardinality(FloorPlaces(l, x, y, lo, hi))
              = (hi - lo + 1) * (Count(l.roomBegin, l.roomEnd)
                                   * (l.inDoorCount + l.secondOutDoorCount))
<1> DEFINE S == [f \in lo .. hi |-> RowPlaces(l, x, y, f, l.roomBegin, l.roomEnd)]
           k == Count(l.roomBegin, l.roomEnd) * (l.inDoorCount + l.secondOutDoorCount)
<1>0. /\ l.roomBegin \in Nat /\ l.roomEnd \in Nat
      /\ l.inDoorCount \in Nat /\ l.secondOutDoorCount \in Nat
  BY DEF CellRec
<1>1. k \in Nat
  <2>1. Count(l.roomBegin, l.roomEnd) \in Nat
    BY <1>0 DEF Count
  <2> QED
    BY <1>0, <2>1
<1>2. \A f \in lo .. hi : IsFiniteSet(S[f]) /\ Cardinality(S[f]) = k
  BY <1>0, RowCount DEF Count
<1>3. ASSUME NEW f \in lo .. hi, NEW q \in lo .. hi, f # q PROVE S[f] \cap S[q] = {}
  <2> SUFFICES ASSUME NEW p \in S[f], p \in S[q] PROVE FALSE
    OBVIOUS
  <2>1. PICK r \in l.roomBegin .. l.roomEnd, v \in Units(l) : p = UnitAt(x, y, f, r, v)
    BY InRow
  <2>2. PICK t \in l.roomBegin .. l.roomEnd, w \in Units(l) : p = UnitAt(x, y, q, t, w)
    BY InRow
  <2>3. UnitAt(x, y, f, r, v) = UnitAt(x, y, q, t, w)
    BY <2>1, <2>2
  <2>4. f = q
    BY <2>3, PlacesDiffer DEF UnitAt
  <2> QED
    BY <1>3, <2>4
<1>4. All(S, lo .. hi) = FloorPlaces(l, x, y, lo, hi)
  BY DEF FloorPlaces, All
<1> HIDE DEF S, k
<1>5. /\ IsFiniteSet(All(S, lo .. hi))
      /\ Cardinality(All(S, lo .. hi)) = (hi - lo + 1) * k
  BY <1>1, <1>2, <1>3, UnionTimes
<1> QED
  BY <1>4, <1>5 DEF k

\* The doors 1 to n of a cell.
DoorPlaces(n, x, y) == {DoorPlace(x, y, s) : s \in 1 .. n}

\* As many as there are doors.
LEMMA DoorCount ==
  ASSUME NEW n \in Nat, NEW x, NEW y
  PROVE  IsFiniteSet(DoorPlaces(n, x, y)) /\ Cardinality(DoorPlaces(n, x, y)) = n
<1> DEFINE g == [s \in 1 .. n |-> DoorPlace(x, y, s)]
<1>1. IsFiniteSet(1 .. n) /\ Cardinality(1 .. n) = n
  BY FS_Interval, 1 \in Int, n \in Int
<1>2. \A s, t \in 1 .. n : g[s] = g[t] => s = t
  BY PlacesDiffer
<1>3. {g[s] : s \in 1 .. n} = DoorPlaces(n, x, y) /\ DOMAIN g = 1 .. n
  BY DEF DoorPlaces
<1> HIDE DEF g
<1> QED
  BY <1>1, <1>2, <1>3, Images

\* A cell consists of its doors and its floors.
LEMMA CellParts ==
  ASSUME NEW l, NEW x, NEW y
  PROVE  CellPlaces(l, x, y) = DoorPlaces(l.outDoorCount, x, y)
                                 \cup FloorPlaces(l, x, y, l.floorBegin, l.floorEnd)
<1>1. {<<0, x, y, 1, f, r, u[1], u[2]>> :
            f \in l.floorBegin .. l.floorEnd, r \in l.roomBegin .. l.roomEnd, u \in Units(l)}
        = FloorPlaces(l, x, y, l.floorBegin, l.floorEnd)
  BY InFloor DEF UnitAt, UnitPlace
<1> QED
  BY <1>1 DEF CellPlaces, DoorPlaces, DoorPlace

\* The doors of a cell are none of the places of its floors.
LEMMA DoorNoUnit ==
  ASSUME NEW l, NEW n, NEW x, NEW y, NEW lo, NEW hi
  PROVE  DoorPlaces(n, x, y) \cap FloorPlaces(l, x, y, lo, hi) = {}
BY InFloor, UnitIs DEF DoorPlaces

\* The fields of an entry of a list of cells are numbers.
LEMMA CellRecFields ==
  ASSUME NEW l \in CellRec
  PROVE  /\ l.cellBegin \in Nat /\ l.cellEnd \in Nat /\ l.floorBegin \in Nat /\ l.floorEnd \in Nat
         /\ l.roomBegin \in Nat /\ l.roomEnd \in Nat /\ l.outDoorCount \in Nat
         /\ l.inDoorCount \in Nat /\ l.secondOutDoorCount \in Nat
BY DEF CellRec

\* Products in the order calculationCellMachineNumber() multiplies.
LEMMA Associate ==
  ASSUME NEW a \in Nat, NEW b \in Nat, NEW c \in Nat PROVE a * (b * c) = a * b * c
OBVIOUS

Machines(l) == calculationCellMachineNumber(l)

\* calculationCellMachineNumber() counts the places of a cell.
LEMMA CellCount ==
  ASSUME NEW l \in CellRec, l.floorBegin <= l.floorEnd, l.roomBegin <= l.roomEnd, NEW x, NEW y
  PROVE  /\ IsFiniteSet(CellPlaces(l, x, y))
         /\ Cardinality(CellPlaces(l, x, y)) = Machines(l)
<1> DEFINE D == DoorPlaces(l.outDoorCount, x, y)
           F == FloorPlaces(l, x, y, l.floorBegin, l.floorEnd)
           k == Count(l.floorBegin, l.floorEnd) * Count(l.roomBegin, l.roomEnd)
                  * (l.inDoorCount + l.secondOutDoorCount)
<1>0. /\ l.floorBegin \in Nat /\ l.floorEnd \in Nat /\ l.outDoorCount \in Nat
      /\ l.inDoorCount + l.secondOutDoorCount \in Nat
      /\ Count(l.floorBegin, l.floorEnd) \in Nat /\ Count(l.roomBegin, l.roomEnd) \in Nat
      /\ l.floorBegin <= l.floorEnd + 1 /\ l.floorEnd \in Int
  BY CellRecFields DEF Count
<1>1. IsFiniteSet(D) /\ Cardinality(D) = l.outDoorCount
  BY <1>0, DoorCount
<1>2. IsFiniteSet(F) /\ Cardinality(F) = k
  <2>1. /\ IsFiniteSet(F)
        /\ Cardinality(F) = (l.floorEnd - l.floorBegin + 1) * (Count(l.roomBegin, l.roomEnd)
                                   * (l.inDoorCount + l.secondOutDoorCount))
    BY <1>0, FloorCount
  <2>2. Cardinality(F) = Count(l.floorBegin, l.floorEnd) * (Count(l.roomBegin, l.roomEnd)
                                   * (l.inDoorCount + l.secondOutDoorCount))
    BY <2>1 DEF Count
  <2> HIDE DEF F
  <2> QED
    BY <1>0, <2>1, <2>2, Associate
<1>3. D \cap F = {}
  BY DoorNoUnit
<1>4. k \in Nat
  BY <1>2, FS_CardinalityType
<1> HIDE DEF D, F, k
<1>5. IsFiniteSet(D \cup F) /\ Cardinality(D \cup F) = l.outDoorCount + k
  BY <1>1, <1>2, <1>3, Together
<1>6. l.outDoorCount + k = k + l.outDoorCount
  BY <1>0, <1>4
<1>7. Machines(l) = k + l.outDoorCount
  BY DEF k, Machines, calculationCellMachineNumber
<1>8. CellPlaces(l, x, y) = D \cup F
  BY CellParts DEF D, F
<1> QED
  BY <1>5, <1>6, <1>7, <1>8

\* A unit is a pair of numbers.
LEMMA UnitNats ==
  ASSUME NEW l, NEW v \in Units(l)
  PROVE  v[1] \in Nat /\ v[2] \in Nat /\ v = <<v[1], v[2]>>
BY DEF Units

\* The places up to one, itself included.
UpTo(P, q) == {p \in P : p = q \/ Before(p, q)}

\* Up to the door s of a cell there are the doors 1 to s.
LEMMA UpToDoor ==
  ASSUME NEW l \in CellRec, NEW x \in Nat, NEW y \in Nat, NEW s \in 1 .. l.outDoorCount
  PROVE  UpTo(CellPlaces(l, x, y), DoorPlace(x, y, s)) = DoorPlaces(s, x, y)
<1> DEFINE q == DoorPlace(x, y, s)
<1>0. /\ l.outDoorCount \in Nat /\ l.floorBegin \in Nat /\ l.roomBegin \in Nat /\ s \in Nat
      /\ l.floorEnd \in Nat /\ l.roomEnd \in Nat
  BY CellRecFields
<1>1. ASSUME NEW p \in DoorPlaces(l.outDoorCount, x, y)
      PROVE  p = q \/ Before(p, q) <=> p \in DoorPlaces(s, x, y)
  <2>1. PICK t \in 1 .. l.outDoorCount : p = DoorPlace(x, y, t)
    BY DEF DoorPlaces
  <2>2. t \in Nat
    BY <1>0
  <2>3. Before(p, q) <=> t < s
    <3>1. Nats({x, y, t, x, y, s})
      BY <1>0, <2>2 DEF Nats
    <3>2. Before(DoorPlace(x, y, t), DoorPlace(x, y, s))
            <=> x < x \/ (x = x /\ (y < y \/ (y = y /\ t < s)))
      BY <3>1, DoorDoor
    <3> QED
      BY <2>1, <3>2
  <2>4. p = q <=> t = s
    BY <2>1, PlacesDiffer
  <2>5. p \in DoorPlaces(s, x, y) <=> t \in 1 .. s
    <3>1. p \in DoorPlaces(s, x, y) => t \in 1 .. s
      <4> SUFFICES ASSUME NEW w \in 1 .. s, DoorPlace(x, y, t) = DoorPlace(x, y, w)
                   PROVE  t \in 1 .. s
        BY <2>1 DEF DoorPlaces
      <4>1. t = w
        BY PlacesDiffer
      <4> QED
        BY <4>1
    <3> QED
      BY <2>1, <3>1 DEF DoorPlaces
  <2> QED
    BY <1>0, <2>2, <2>3, <2>4, <2>5
<1>2. ASSUME NEW p \in FloorPlaces(l, x, y, l.floorBegin, l.floorEnd)
      PROVE  ~(p = q \/ Before(p, q))
  <2>1. PICK f \in l.floorBegin .. l.floorEnd, r \in l.roomBegin .. l.roomEnd, v \in Units(l) :
          p = UnitAt(x, y, f, r, v)
    BY InFloor
  <2>2. f \in Nat /\ r \in Nat /\ v[1] \in Nat /\ v[2] \in Nat
    <3>1. v[1] \in Nat /\ v[2] \in Nat
      BY UnitNats
    <3> QED
      BY <1>0, <3>1
  <2>3. ~Before(p, q)
    <3>1. PICK k \in Nat, u \in Nat : k = v[1] /\ u = v[2]
      BY <2>2
    <3>2. Before(UnitPlace(x, y, f, r, k, u), DoorPlace(x, y, s)) <=> x < x \/ (x = x /\ y < y)
      <4>1. Nats({x, y, s, x, y, f, r, k, u})
        BY <1>0, <2>2 DEF Nats
      <4> QED
        BY <4>1, UnitDoor
    <3> QED
      BY <2>1, <3>1, <3>2 DEF UnitAt, q
  <2>4. p # q
    BY <2>1, UnitIs
  <2> QED
    BY <2>3, <2>4
<1>3. DoorPlaces(s, x, y) \subseteq DoorPlaces(l.outDoorCount, x, y)
  BY <1>0 DEF DoorPlaces
<1> HIDE DEF q
<1>4. UpTo(CellPlaces(l, x, y), q) = DoorPlaces(s, x, y)
  BY <1>1, <1>2, <1>3, CellParts DEF UpTo
<1> QED
  BY <1>4 DEF q

\* The units of a room up to one.
UnitsTo(l, k, u) == IF k = 0 THEN Kind(0, u) ELSE Kind(0, l.secondOutDoorCount) \cup Kind(1, u)

\* There are as many as the number of the unit in its room says.
LEMMA UnitsToCount ==
  ASSUME NEW l \in CellRec, NEW k \in {0, 1}, NEW u \in Nat, <<k, u>> \in Units(l)
  PROVE  /\ UnitsTo(l, k, u) \in SUBSET Units(l)
         /\ Cardinality(UnitsTo(l, k, u)) = IF k = 0 THEN u ELSE l.secondOutDoorCount + u
         /\ \A v \in Units(l) : /\ v[1] \in Nat /\ v[2] \in Nat /\ v = <<v[1], v[2]>>
                                /\ v \in UnitsTo(l, k, u)
                                     <=> v[1] < k \/ (v[1] = k /\ v[2] <= u)
<1>0. l.secondOutDoorCount \in Nat /\ l.inDoorCount \in Nat
  BY CellRecFields
<1>1. CASE k = 0
  <2>1. u <= l.secondOutDoorCount
    BY <1>1 DEF Units
  <2>2. UnitsTo(l, k, u) \in SUBSET Units(l)
    BY <1>0, <1>1, <2>1 DEF UnitsTo, Units, Kind
  <2>3. Cardinality(UnitsTo(l, k, u)) = u
    BY <1>1, KindCount DEF UnitsTo
  <2>4. \A v \in Units(l) : /\ v[1] \in Nat /\ v[2] \in Nat /\ v = <<v[1], v[2]>>
                            /\ v \in UnitsTo(l, k, u) <=> v[1] < k \/ (v[1] = k /\ v[2] <= u)
    BY <1>0, <1>1 DEF UnitsTo, Units, Kind
  <2> QED
    BY <1>1, <2>2, <2>3, <2>4
<1>2. CASE k = 1
  <2>1. u <= l.inDoorCount
    BY <1>2 DEF Units
  <2>2. UnitsTo(l, k, u) \in SUBSET Units(l)
    BY <1>0, <1>2, <2>1 DEF UnitsTo, Units, Kind
  <2>3. Cardinality(UnitsTo(l, k, u)) = l.secondOutDoorCount + u
    <3>1. Kind(0, l.secondOutDoorCount) \cap Kind(1, u) = {}
      BY DEF Kind
    <3>2. /\ IsFiniteSet(Kind(0, l.secondOutDoorCount)) /\ IsFiniteSet(Kind(1, u))
          /\ Cardinality(Kind(0, l.secondOutDoorCount)) = l.secondOutDoorCount
          /\ Cardinality(Kind(1, u)) = u
      BY <1>0, KindCount
    <3>3. Cardinality(Kind(0, l.secondOutDoorCount) \cup Kind(1, u)) = l.secondOutDoorCount + u
      BY <3>1, <3>2, Together
    <3> QED
      BY <1>2, <3>3 DEF UnitsTo
  <2>4. \A v \in Units(l) : /\ v[1] \in Nat /\ v[2] \in Nat /\ v = <<v[1], v[2]>>
                            /\ v \in UnitsTo(l, k, u) <=> v[1] < k \/ (v[1] = k /\ v[2] <= u)
    BY <1>0, <1>2 DEF UnitsTo, Units, Kind
  <2> QED
    BY <1>2, <2>2, <2>3, <2>4
<1> QED
  BY <1>1, <1>2

\* Two units of one cell.
LEMMA UnitOrder ==
  ASSUME NEW x \in Nat, NEW y \in Nat, NEW f, NEW r, NEW v, NEW ff, NEW rr, NEW kk, NEW uu,
         f \in Nat, r \in Nat, v[1] \in Nat, v[2] \in Nat, ff \in Nat, rr \in Nat,
         kk \in Nat, uu \in Nat, v = <<v[1], v[2]>>
  PROVE  UnitAt(x, y, f, r, v) = UnitPlace(x, y, ff, rr, kk, uu)
             \/ Before(UnitAt(x, y, f, r, v), UnitPlace(x, y, ff, rr, kk, uu))
           <=> f < ff \/ (f = ff /\ (r < rr \/ (r = rr
                   /\ (v[1] < kk \/ (v[1] = kk /\ v[2] <= uu)))))
<1>1. PICK k, u : k = v[1] /\ u = v[2]
  OBVIOUS
<1>2. UnitAt(x, y, f, r, v) = UnitPlace(x, y, f, r, k, u)
  BY <1>1 DEF UnitAt
<1>3. Nats({x, y, f, r, k, u, x, y, ff, rr, kk, uu})
  BY <1>1 DEF Nats
<1>4. Before(UnitPlace(x, y, f, r, k, u), UnitPlace(x, y, ff, rr, kk, uu))
        <=> x < x \/ (x = x /\ (y < y \/ (y = y /\ (f < ff \/ (f = ff
                 /\ (r < rr \/ (r = rr /\ (k < kk \/ (k = kk /\ u < uu)))))))))
  BY <1>3, UnitUnit
<1>5. UnitPlace(x, y, f, r, k, u) = UnitPlace(x, y, ff, rr, kk, uu)
        <=> f = ff /\ r = rr /\ k = kk /\ u = uu
  BY PlacesDiffer
<1>6. k \in Nat /\ u \in Nat
  BY <1>1
<1> HIDE <1>1
<1>7. UnitPlace(x, y, f, r, k, u) = UnitPlace(x, y, ff, rr, kk, uu)
          \/ Before(UnitPlace(x, y, f, r, k, u), UnitPlace(x, y, ff, rr, kk, uu))
        <=> f < ff \/ (f = ff /\ (r < rr \/ (r = rr /\ (k < kk \/ (k = kk /\ u <= uu)))))
  BY <1>4, <1>5, <1>6
<1> QED
  BY <1>1, <1>2, <1>7

\* Up to a unit: the doors, the floors below, the rooms before and the units of its own
\* room.
LEMMA UpToUnit ==
  ASSUME NEW l \in CellRec, NEW x \in Nat, NEW y \in Nat,
         NEW f \in l.floorBegin .. l.floorEnd, NEW r \in l.roomBegin .. l.roomEnd,
         NEW k \in {0, 1}, NEW u \in Nat, <<k, u>> \in Units(l)
  PROVE  UpTo(CellPlaces(l, x, y), UnitPlace(x, y, f, r, k, u))
           = ((DoorPlaces(l.outDoorCount, x, y)
                 \cup FloorPlaces(l, x, y, l.floorBegin, f - 1))
                 \cup RowPlaces(l, x, y, f, l.roomBegin, r - 1))
                 \cup RoomPlaces(UnitsTo(l, k, u), x, y, f, r)
<1> DEFINE q == UnitPlace(x, y, f, r, k, u)
           D == DoorPlaces(l.outDoorCount, x, y)
           F == FloorPlaces(l, x, y, l.floorBegin, l.floorEnd)
           F1 == FloorPlaces(l, x, y, l.floorBegin, f - 1)
           R1 == RowPlaces(l, x, y, f, l.roomBegin, r - 1)
           U1 == RoomPlaces(UnitsTo(l, k, u), x, y, f, r)
<1>0. /\ l.floorBegin \in Nat /\ l.roomBegin \in Nat /\ l.floorEnd \in Nat
      /\ l.roomEnd \in Nat /\ l.outDoorCount \in Nat
  BY CellRecFields
<1>a. f \in Nat /\ r \in Nat /\ k \in Nat
  BY <1>0
<1>1. ASSUME NEW p \in D PROVE p = q \/ Before(p, q)
  <2>1. PICK t \in 1 .. l.outDoorCount : p = DoorPlace(x, y, t)
    BY DEF DoorPlaces
  <2>2. Nats({x, y, t, x, y, f, r, k, u})
    BY <1>0, <1>a DEF Nats
  <2>3. Before(DoorPlace(x, y, t), UnitPlace(x, y, f, r, k, u))
          <=> x < x \/ (x = x /\ y <= y)
    BY <2>2, DoorUnit
  <2> QED
    BY <2>1, <2>3
<1>2. ASSUME NEW p \in F PROVE p = q \/ Before(p, q) <=> p \in F1 \cup R1 \cup U1
  <2>1. PICK g \in l.floorBegin .. l.floorEnd, h \in l.roomBegin .. l.roomEnd,
             v \in Units(l) : p = UnitAt(x, y, g, h, v)
    BY InFloor
  <2>2. g \in Nat /\ h \in Nat
    BY <1>0
  <2>3. /\ v[1] \in Nat /\ v[2] \in Nat /\ v = <<v[1], v[2]>>
        /\ v \in UnitsTo(l, k, u) <=> v[1] < k \/ (v[1] = k /\ v[2] <= u)
    BY UnitsToCount
  <2>4. p = q \/ Before(p, q)
          <=> g < f \/ (g = f /\ (h < r \/ (h = r /\ v \in UnitsTo(l, k, u))))
    <3>1. UnitAt(x, y, g, h, v) = UnitPlace(x, y, f, r, k, u)
             \/ Before(UnitAt(x, y, g, h, v), UnitPlace(x, y, f, r, k, u))
           <=> g < f \/ (g = f /\ (h < r \/ (h = r
                   /\ (v[1] < k \/ (v[1] = k /\ v[2] <= u)))))
      BY <1>a, <2>2, <2>3, UnitOrder
    <3> QED
      BY <2>1, <2>3, <3>1
  <2>5. \A e, t, w : p = UnitAt(x, y, e, t, w) <=> e = g /\ t = h /\ w[1] = v[1] /\ w[2] = v[2]
    <3> SUFFICES ASSUME NEW e, NEW t, NEW w
                 PROVE  UnitAt(x, y, g, h, v) = UnitAt(x, y, e, t, w)
                          <=> e = g /\ t = h /\ w[1] = v[1] /\ w[2] = v[2]
      BY <2>1
    <3> QED
      BY PlacesDiffer DEF UnitAt
  <2>6. \A w \in Units(l) : w[1] = v[1] /\ w[2] = v[2] <=> w = v
    BY <2>3, UnitNats
  <2>7. p \in F1 <=> g < f
    <3>1. p \in F1 <=> \E e \in l.floorBegin .. f - 1, t \in l.roomBegin .. l.roomEnd,
                          w \in Units(l) : p = UnitAt(x, y, e, t, w)
      BY InFloor
    <3>2. p \in F1 <=> g \in l.floorBegin .. f - 1
      BY <2>5, <3>1
    <3> QED
      BY <1>0, <1>a, <2>2, <3>2
  <2>8. p \in R1 <=> g = f /\ h < r
    <3>1. p \in R1 <=> \E t \in l.roomBegin .. r - 1, w \in Units(l) : p = UnitAt(x, y, f, t, w)
      BY InRow
    <3>2. p \in R1 <=> g = f /\ h \in l.roomBegin .. r - 1
      BY <2>5, <3>1
    <3> QED
      BY <1>0, <1>a, <2>2, <3>2
  <2>9. p \in U1 <=> g = f /\ h = r /\ v \in UnitsTo(l, k, u)
    <3>1. p \in U1 <=> \E w \in UnitsTo(l, k, u) : p = UnitAt(x, y, f, r, w)
      BY DEF RoomPlaces
    <3>2. UnitsTo(l, k, u) \subseteq Units(l)
      BY UnitsToCount
    <3> QED
      BY <2>5, <2>6, <3>1, <3>2
  <2> HIDE DEF F1, R1, U1, q
  <2> QED
    BY <1>a, <2>2, <2>4, <2>7, <2>8, <2>9
<1>3. F1 \subseteq F /\ R1 \subseteq F /\ U1 \subseteq F
  <2>1. F1 \subseteq F
    <3>1. l.floorBegin .. f - 1 \subseteq l.floorBegin .. l.floorEnd
      BY <1>0, <1>a
    <3> QED
      BY <3>1, InFloor
  <2>2. R1 \subseteq F
    <3>1. l.roomBegin .. r - 1 \subseteq l.roomBegin .. l.roomEnd
      BY <1>0, <1>a
    <3> QED
      BY <3>1, InFloor, InRow
  <2>3. U1 \subseteq F
    <3>1. UnitsTo(l, k, u) \subseteq Units(l)
      BY UnitsToCount
    <3> QED
      BY <3>1, InFloor DEF RoomPlaces
  <2> QED
    BY <2>1, <2>2, <2>3
<1>4. CellPlaces(l, x, y) = D \cup F
  BY CellParts
<1> HIDE DEF q, D, F, F1, R1, U1
<1>5. UpTo(CellPlaces(l, x, y), q) = ((D \cup F1) \cup R1) \cup U1
  BY <1>1, <1>2, <1>3, <1>4 DEF UpTo
<1> QED
  BY <1>5 DEF q, D, F1, R1, U1

\* Up to a unit there are the doors, the floors below, the rooms before and the
\* units of its room up to it: the summands of initMachineInfo().
LEMMA UnitToCount ==
  ASSUME NEW l \in CellRec, l.roomBegin <= l.roomEnd, NEW x \in Nat, NEW y \in Nat,
         NEW f \in l.floorBegin .. l.floorEnd, NEW r \in l.roomBegin .. l.roomEnd,
         NEW k \in {0, 1}, NEW u \in Nat, <<k, u>> \in Units(l)
  PROVE  LET S == UpTo(CellPlaces(l, x, y), UnitPlace(x, y, f, r, k, u))
             rooms == Count(l.roomBegin, l.roomEnd)
             units == l.inDoorCount + l.secondOutDoorCount
         IN  /\ IsFiniteSet(S)
             /\ Cardinality(S) = l.outDoorCount + (f - l.floorBegin) * rooms * units
                                   + (r - l.roomBegin) * units
                                   + (IF k = 0 THEN u ELSE l.secondOutDoorCount + u)
<1> DEFINE D == DoorPlaces(l.outDoorCount, x, y)
           F1 == FloorPlaces(l, x, y, l.floorBegin, f - 1)
           R1 == RowPlaces(l, x, y, f, l.roomBegin, r - 1)
           V == UnitsTo(l, k, u)
           U1 == RoomPlaces(V, x, y, f, r)
           rooms == Count(l.roomBegin, l.roomEnd)
           units == l.inDoorCount + l.secondOutDoorCount
           v == IF k = 0 THEN u ELSE l.secondOutDoorCount + u
<1>0. /\ l.floorBegin \in Nat /\ l.roomBegin \in Nat /\ l.outDoorCount \in Nat
      /\ units \in Nat /\ rooms \in Nat /\ f \in Nat /\ r \in Nat
      /\ f - l.floorBegin \in Nat /\ r - l.roomBegin \in Nat
      /\ f - 1 \in Int /\ r - 1 \in Int
      /\ l.floorBegin <= (f - 1) + 1 /\ l.roomBegin <= (r - 1) + 1
      /\ (f - 1) - l.floorBegin + 1 = f - l.floorBegin
      /\ (r - 1) - l.roomBegin + 1 = r - l.roomBegin
  BY CellRecFields DEF Count
<1>1. IsFiniteSet(D) /\ Cardinality(D) = l.outDoorCount
  BY <1>0, DoorCount
<1>2. IsFiniteSet(F1) /\ Cardinality(F1) = (f - l.floorBegin) * rooms * units
  <2>1. IsFiniteSet(F1) /\ Cardinality(F1) = ((f - 1) - l.floorBegin + 1) * (rooms * units)
    BY <1>0, FloorCount
  <2> HIDE DEF F1, rooms, units
  <2> QED
    BY <1>0, <2>1, Associate
<1>3. IsFiniteSet(R1) /\ Cardinality(R1) = (r - l.roomBegin) * units
  <2>1. IsFiniteSet(R1) /\ Cardinality(R1) = ((r - 1) - l.roomBegin + 1) * units
    BY <1>0, RowCount
  <2> HIDE DEF R1, units
  <2> QED
    BY <1>0, <2>1
<1>4. IsFiniteSet(U1) /\ Cardinality(U1) = v
  <2>1. V \in SUBSET Units(l) /\ Cardinality(V) = v
    BY UnitsToCount
  <2> HIDE DEF V, v
  <2> QED
    BY <2>1, RoomCount
<1>5. D \cap F1 = {} /\ D \cap R1 = {} /\ D \cap U1 = {}
  <2> SUFFICES ASSUME NEW s, NEW g, NEW h, NEW w, DoorPlace(x, y, s) = UnitAt(x, y, g, h, w)
               PROVE  FALSE
    BY InFloor, InRow DEF DoorPlaces, RoomPlaces
  <2> QED
    BY PlacesDiffer DEF UnitAt
<1>6. F1 \cap R1 = {} /\ F1 \cap U1 = {}
  <2> SUFFICES ASSUME NEW g \in l.floorBegin .. f - 1, NEW h, NEW w, NEW t, NEW z,
                      UnitAt(x, y, g, h, w) = UnitAt(x, y, f, t, z)
               PROVE  FALSE
    BY InFloor, InRow DEF RoomPlaces
  <2>1. g = f
    BY PlacesDiffer DEF UnitAt
  <2> QED
    BY <1>0, <2>1
<1>7. R1 \cap U1 = {}
  <2> SUFFICES ASSUME NEW h \in l.roomBegin .. r - 1, NEW w, NEW z,
                      UnitAt(x, y, f, h, w) = UnitAt(x, y, f, r, z)
               PROVE  FALSE
    BY InRow DEF RoomPlaces
  <2>1. h = r
    BY PlacesDiffer DEF UnitAt
  <2> QED
    BY <1>0, <2>1
<1>8. UpTo(CellPlaces(l, x, y), UnitPlace(x, y, f, r, k, u)) = ((D \cup F1) \cup R1) \cup U1
  BY UpToUnit
<1> HIDE DEF D, F1, R1, U1, V, v, rooms, units
<1>9. IsFiniteSet(D \cup F1) /\ Cardinality(D \cup F1) = Cardinality(D) + Cardinality(F1)
  BY <1>1, <1>2, <1>5, Together
<1>10. /\ IsFiniteSet((D \cup F1) \cup R1)
       /\ Cardinality((D \cup F1) \cup R1) = Cardinality(D \cup F1) + Cardinality(R1)
  <2>1. (D \cup F1) \cap R1 = {}
    BY <1>5, <1>6
  <2> QED
    BY <1>3, <1>9, <2>1, Together
<1>11. /\ IsFiniteSet(((D \cup F1) \cup R1) \cup U1)
       /\ Cardinality(((D \cup F1) \cup R1) \cup U1)
            = Cardinality((D \cup F1) \cup R1) + Cardinality(U1)
  <2>1. ((D \cup F1) \cup R1) \cap U1 = {}
    BY <1>5, <1>6, <1>7
  <2> QED
    BY <1>4, <1>10, <2>1, Together
<1>12. Cardinality(((D \cup F1) \cup R1) \cup U1)
         = l.outDoorCount + (f - l.floorBegin) * rooms * units + (r - l.roomBegin) * units + v
  BY <1>1, <1>2, <1>3, <1>4, <1>9, <1>10, <1>11
<1> QED
  BY <1>8, <1>11, <1>12 DEF v, rooms, units

CodeRec == [type : Type, sub : Nat, room : Nat, floor : Nat, cell : Nat, build : Nat,
            area : {1}]

\* A machine of the cell l.
OfCell(l, c) ==
  /\ c.type \in {ROOM_TYPE, CELL_DOOR_TYPE, HOUSE_DOOR_TYPE}
  /\ c.type # CELL_DOOR_TYPE => HasRoom(l, c)
  /\ c.sub \in 1 .. CASE c.type = ROOM_TYPE -> l.inDoorCount
                      [] c.type = CELL_DOOR_TYPE -> l.outDoorCount
                      [] c.type = HOUSE_DOOR_TYPE -> l.secondOutDoorCount

\* The fields of a code are numbers, and its area is 1.
LEMMA CodeFields ==
  ASSUME NEW c \in CodeRec
  PROVE  /\ c.sub \in Nat /\ c.room \in Nat /\ c.floor \in Nat /\ c.cell \in Nat
         /\ c.build \in Nat /\ c.area = 1 /\ c.type \in Type
BY DEF CodeRec

\* The types of a machine are told apart.
LEMMA TypesDiffer ==
  /\ ROOM_TYPE = 1 /\ CELL_DOOR_TYPE = 2 /\ HOUSE_DOOR_TYPE = 3
  /\ ROOM_TYPE \notin CommonType /\ CELL_DOOR_TYPE \notin CommonType
  /\ HOUSE_DOOR_TYPE \notin CommonType
BY DEF ROOM_TYPE, CELL_DOOR_TYPE, HOUSE_DOOR_TYPE, CommonType, MONITOR_TYPE, GUARD_TYPE,
       AREA_DOOR_TYPE, MANAGER_TYPE

\* Where the machine of a code stands, type by type.
LEMMA PlaceIs ==
  ASSUME NEW c
  PROVE  /\ c.type = ROOM_TYPE
              => Place(c) = UnitPlace(c.build, c.cell, c.floor, c.room, 1, c.sub)
         /\ c.type = HOUSE_DOOR_TYPE
              => Place(c) = UnitPlace(c.build, c.cell, c.floor, c.room, 0, c.sub)
         /\ c.type = CELL_DOOR_TYPE => Place(c) = DoorPlace(c.build, c.cell, c.sub)
         /\ c.type \in CommonType => Place(c) = CommonPlace(GuardOf(c.type), c.sub)
<1>1. ASSUME c.type = ROOM_TYPE
      PROVE  Place(c) = UnitPlace(c.build, c.cell, c.floor, c.room, 1, c.sub)
  <2>1. /\ c.type \notin CommonType /\ c.type # CELL_DOOR_TYPE /\ c.type # HOUSE_DOOR_TYPE
    BY <1>1, TypesDiffer
  <2> QED
    BY <2>1 DEF Place, UnitPlace
<1>2. ASSUME c.type = HOUSE_DOOR_TYPE
      PROVE  Place(c) = UnitPlace(c.build, c.cell, c.floor, c.room, 0, c.sub)
  <2>1. /\ c.type \notin CommonType /\ c.type # CELL_DOOR_TYPE
    BY <1>2, TypesDiffer
  <2> QED
    BY <1>2, <2>1 DEF Place, UnitPlace
<1>3. ASSUME c.type = CELL_DOOR_TYPE PROVE Place(c) = DoorPlace(c.build, c.cell, c.sub)
  <2>1. c.type \notin CommonType
    BY <1>3, TypesDiffer
  <2> QED
    BY <1>3, <2>1 DEF Place, DoorPlace
<1>4. ASSUME c.type \in CommonType PROVE Place(c) = CommonPlace(GuardOf(c.type), c.sub)
  <2>1. c.type # CELL_DOOR_TYPE
    BY <1>4, TypesDiffer
  <2> QED
    BY <1>4, <2>1 DEF Place, CommonPlace
<1> QED
  BY <1>1, <1>2, <1>3, <1>4

\* NumberInCell() is the rank of a machine in its cell.
LEMMA CellRank ==
  ASSUME NEW l \in CellRec, l.floorBegin <= l.floorEnd, l.roomBegin <= l.roomEnd,
         NEW c \in CodeRec, OfCell(l, c)
  PROVE  /\ IsFiniteSet(UpTo(CellPlaces(l, c.build, c.cell), Place(c)))
         /\ Cardinality(UpTo(CellPlaces(l, c.build, c.cell), Place(c))) = NumberInCell(l, c)
         /\ Place(c) \in CellPlaces(l, c.build, c.cell)
<1> DEFINE P == CellPlaces(l, c.build, c.cell)
<1>0. l.outDoorCount \in Nat /\ l.inDoorCount \in Nat /\ l.secondOutDoorCount \in Nat
  BY CellRecFields
<1>1. CASE c.type = CELL_DOOR_TYPE
  <2>1. c.sub \in 1 .. l.outDoorCount
    BY <1>1, TypesDiffer DEF OfCell
  <2>2. Place(c) = DoorPlace(c.build, c.cell, c.sub)
    BY <1>1, PlaceIs
  <2>3. UpTo(P, Place(c)) = DoorPlaces(c.sub, c.build, c.cell)
    BY <2>1, <2>2, CodeFields, UpToDoor
  <2>4. NumberInCell(l, c) = c.sub
    BY <1>1, TypesDiffer DEF NumberInCell
  <2>5. Place(c) \in P
    BY <2>1, <2>2, CellParts DEF DoorPlaces
  <2>6. IsFiniteSet(DoorPlaces(c.sub, c.build, c.cell))
          /\ Cardinality(DoorPlaces(c.sub, c.build, c.cell)) = c.sub
    BY CodeFields, DoorCount
  <2> QED
    BY <2>3, <2>4, <2>5, <2>6
<1>2. CASE c.type \in {ROOM_TYPE, HOUSE_DOOR_TYPE}
  <2> DEFINE k == IF c.type = HOUSE_DOOR_TYPE THEN 0 ELSE 1
             x == c.build
             y == c.cell
             f == c.floor
             r == c.room
             u == c.sub
  <2>1. /\ f \in l.floorBegin .. l.floorEnd /\ r \in l.roomBegin .. l.roomEnd
        /\ u \in 1 .. IF k = 0 THEN l.secondOutDoorCount ELSE l.inDoorCount
    <3>1. HasRoom(l, c)
      BY <1>2, TypesDiffer DEF OfCell
    <3>2. u \in 1 .. IF k = 0 THEN l.secondOutDoorCount ELSE l.inDoorCount
      BY <1>2, TypesDiffer DEF OfCell
    <3>3. f \in Nat /\ r \in Nat
      BY CodeFields
    <3>4. l.floorBegin \in Nat /\ l.floorEnd \in Nat /\ l.roomBegin \in Nat /\ l.roomEnd \in Nat
      BY CellRecFields
    <3> QED
      BY <3>1, <3>2, <3>3, <3>4 DEF HasRoom
  <2>2. k \in {0, 1} /\ <<k, u>> \in Units(l)
    BY <2>1 DEF Units
  <2>3. Place(c) = UnitPlace(x, y, f, r, k, u)
    BY <1>2, TypesDiffer, PlaceIs
  <2>4. x \in Nat /\ y \in Nat /\ u \in Nat
    BY CodeFields
  <2>5. Place(c) \in P
    <3>1. UnitPlace(x, y, f, r, k, u) = UnitAt(x, y, f, r, <<k, u>>)
      BY DEF UnitAt
    <3>2. UnitAt(x, y, f, r, <<k, u>>) \in FloorPlaces(l, x, y, l.floorBegin, l.floorEnd)
      BY <2>1, <2>2, InFloor
    <3> QED
      BY <2>3, <3>1, <3>2, CellParts
  <2>6. NumberInCell(l, c)
          = l.outDoorCount
              + (f - l.floorBegin) * Count(l.roomBegin, l.roomEnd)
                  * (l.inDoorCount + l.secondOutDoorCount)
              + (r - l.roomBegin) * (l.inDoorCount + l.secondOutDoorCount)
              + (IF k = 0 THEN u ELSE l.secondOutDoorCount + u)
    <3> DEFINE b == l.outDoorCount
              + (f - l.floorBegin) * Count(l.roomBegin, l.roomEnd)
                  * (l.inDoorCount + l.secondOutDoorCount)
              + (r - l.roomBegin) * (l.inDoorCount + l.secondOutDoorCount)
    <3>1. NumberInCell(l, c) = IF k = 0 THEN b + u ELSE b + l.secondOutDoorCount + u
      BY <1>2, TypesDiffer DEF NumberInCell
    <3>2. b \in Int
      <4>1. /\ f - l.floorBegin \in Int /\ Count(l.roomBegin, l.roomEnd) \in Int
            /\ l.inDoorCount + l.secondOutDoorCount \in Int /\ r - l.roomBegin \in Int
        BY CellRecFields, CodeFields DEF Count
      <4> QED
        BY <1>0, <4>1
    <3> HIDE DEF b
    <3>3. b + l.secondOutDoorCount + u = b + (l.secondOutDoorCount + u)
      BY <1>0, <2>4, <3>2
    <3>4. NumberInCell(l, c) = b + (IF k = 0 THEN u ELSE l.secondOutDoorCount + u)
      BY <3>1, <3>3
    <3> QED
      BY <3>4 DEF b
  <2> HIDE DEF k, x, y, f, r, u
  <2>7. /\ IsFiniteSet(UpTo(CellPlaces(l, x, y), UnitPlace(x, y, f, r, k, u)))
        /\ Cardinality(UpTo(CellPlaces(l, x, y), UnitPlace(x, y, f, r, k, u)))
          = l.outDoorCount
              + (f - l.floorBegin) * Count(l.roomBegin, l.roomEnd)
                  * (l.inDoorCount + l.secondOutDoorCount)
              + (r - l.roomBegin) * (l.inDoorCount + l.secondOutDoorCount)
              + (IF k = 0 THEN u ELSE l.secondOutDoorCount + u)
    BY <2>1, <2>2, <2>4, UnitToCount
  <2> QED
    BY <2>3, <2>5, <2>6, <2>7 DEF x, y
<1>3. c.type \in {ROOM_TYPE, CELL_DOOR_TYPE, HOUSE_DOOR_TYPE}
  BY DEF OfCell
<1> QED
  BY <1>1, <1>2, <1>3
-----------------------------------------------------------------------------
(***************************************************************************)
(* A building, an entry of the list of buildings and the whole subnet.     *)
(***************************************************************************)
\* A place in the cell y of the building x.
In(p, x, y) ==
  /\ x \in Nat /\ y \in Nat
  /\ \/ \E s \in Nat : p = DoorPlace(x, y, s)
     \/ \E f, r, k, u \in Nat : p = UnitPlace(x, y, f, r, k, u)

\* The places of the cell y are places of a cell y.
LEMMA InCells ==
  ASSUME NEW l \in CellRec, NEW x, NEW y, x \in Nat, y \in Nat,
         NEW p \in CellPlaces(l, x, y)
  PROVE  In(p, x, y)
<1>0. /\ l.outDoorCount \in Nat /\ l.floorBegin \in Nat /\ l.floorEnd \in Nat
      /\ l.roomBegin \in Nat /\ l.roomEnd \in Nat
  BY CellRecFields
<1>1. CASE p \in DoorPlaces(l.outDoorCount, x, y)
  BY <1>0, <1>1 DEF DoorPlaces, In
<1>2. CASE p \in FloorPlaces(l, x, y, l.floorBegin, l.floorEnd)
  <2>1. PICK f \in l.floorBegin .. l.floorEnd, r \in l.roomBegin .. l.roomEnd,
             v \in Units(l) : p = UnitAt(x, y, f, r, v)
    BY <1>2, InFloor
  <2>2. v[1] \in Nat /\ v[2] \in Nat
    BY UnitNats
  <2>3. f \in Nat /\ r \in Nat
    BY <1>0
  <2> QED
    BY <2>1, <2>2, <2>3 DEF In, UnitAt
<1> QED
  BY <1>1, <1>2, CellParts

\* The order of two places of different cells is that of the cells.
LEMMA CellOrder ==
  ASSUME NEW x, NEW y, NEW xx, NEW yy, NEW p, NEW q, In(p, x, y), In(q, xx, yy)
  PROVE  /\ p = q => x = xx /\ y = yy
         /\ x < xx \/ (x = xx /\ y < yy) => Before(p, q)
         /\ xx < x \/ (x = xx /\ yy < y) => p # q /\ ~Before(p, q)
<1>0. x \in Nat /\ y \in Nat /\ xx \in Nat /\ yy \in Nat
  BY DEF In
<1>1. ASSUME NEW s \in Nat, NEW t \in Nat, p = DoorPlace(x, y, s), q = DoorPlace(xx, yy, t)
      PROVE  /\ p = q => x = xx /\ y = yy
             /\ Before(p, q) <=> x < xx \/ (x = xx /\ (y < yy \/ (y = yy /\ s < t)))
  <2>1. Nats({x, y, s, xx, yy, t})
    BY <1>0 DEF Nats
  <2>2. Before(DoorPlace(x, y, s), DoorPlace(xx, yy, t))
          <=> x < xx \/ (x = xx /\ (y < yy \/ (y = yy /\ s < t)))
    BY <2>1, DoorDoor
  <2> QED
    BY <1>1, <2>2, PlacesDiffer
<1>2. ASSUME NEW s \in Nat, NEW f \in Nat, NEW r \in Nat, NEW k \in Nat, NEW u \in Nat,
             p = DoorPlace(x, y, s), q = UnitPlace(xx, yy, f, r, k, u)
      PROVE  p # q /\ (Before(p, q) <=> x < xx \/ (x = xx /\ y <= yy))
  <2>1. Nats({x, y, s, xx, yy, f, r, k, u})
    BY <1>0 DEF Nats
  <2>2. Before(DoorPlace(x, y, s), UnitPlace(xx, yy, f, r, k, u))
          <=> x < xx \/ (x = xx /\ y <= yy)
    BY <2>1, DoorUnit
  <2> QED
    BY <1>2, <2>2, PlacesDiffer
<1>3. ASSUME NEW s \in Nat, NEW f \in Nat, NEW r \in Nat, NEW k \in Nat, NEW u \in Nat,
             p = UnitPlace(x, y, f, r, k, u), q = DoorPlace(xx, yy, s)
      PROVE  p # q /\ (Before(p, q) <=> x < xx \/ (x = xx /\ y < yy))
  <2>1. Nats({x, y, s, xx, yy, f, r, k, u})
    BY <1>0 DEF Nats
  <2>2. Before(UnitPlace(x, y, f, r, k, u), DoorPlace(xx, yy, s))
          <=> x < xx \/ (x = xx /\ y < yy)
    BY <2>1, UnitDoor
  <2> QED
    BY <1>3, <2>2, PlacesDiffer
<1>5. CASE \E s, t \in Nat : p = DoorPlace(x, y, s) /\ q = DoorPlace(xx, yy, t)
  <2>1. PICK s \in Nat, t \in Nat : p = DoorPlace(x, y, s) /\ q = DoorPlace(xx, yy, t)
    BY <1>5
  <2>2. /\ p = q => x = xx /\ y = yy
        /\ Before(p, q) <=> x < xx \/ (x = xx /\ (y < yy \/ (y = yy /\ s < t)))
    BY <1>1, <2>1
  <2> QED
    BY <1>0, <2>2
<1>6. CASE \E s, f, r, k, u \in Nat : p = DoorPlace(x, y, s) /\ q = UnitPlace(xx, yy, f, r, k, u)
  <2>1. p # q /\ (Before(p, q) <=> x < xx \/ (x = xx /\ y <= yy))
    BY <1>2, <1>6
  <2> QED
    BY <1>0, <2>1
<1>7. CASE \E s, f, r, k, u \in Nat : p = UnitPlace(x, y, f, r, k, u) /\ q = DoorPlace(xx, yy, s)
  <2>1. p # q /\ (Before(p, q) <=> x < xx \/ (x = xx /\ y < yy))
    BY <1>3, <1>7
  <2> QED
    BY <1>0, <2>1
<1>8. CASE \E f, r, k, u, ff, rr, kk, uu \in Nat :
             p = UnitPlace(x, y, f, r, k, u) /\ q = UnitPlace(xx, yy, ff, rr, kk, uu)
  <2>1. PICK f \in Nat, r \in Nat, k \in Nat, u \in Nat,
             ff \in Nat, rr \in Nat, kk \in Nat, uu \in Nat :
             p = UnitPlace(x, y, f, r, k, u) /\ q = UnitPlace(xx, yy, ff, rr, kk, uu)
    BY <1>8
  <2>2. Nats({x, y, f, r, k, u, xx, yy, ff, rr, kk, uu})
    BY <1>0 DEF Nats
  <2>3. Before(UnitPlace(x, y, f, r, k, u), UnitPlace(xx, yy, ff, rr, kk, uu))
          <=> x < xx \/ (x = xx /\ (y < yy \/ (y = yy /\ (f < ff \/ (f = ff
                /\ (r < rr \/ (r = rr /\ (k < kk \/ (k = kk /\ u < uu)))))))))
    BY <2>2, UnitUnit
  <2>4. UnitPlace(x, y, f, r, k, u) = UnitPlace(xx, yy, ff, rr, kk, uu)
          <=> x = xx /\ y = yy /\ f = ff /\ r = rr /\ k = kk /\ u = uu
    BY PlacesDiffer
  <2> QED
    BY <1>0, <2>1, <2>3, <2>4
<1> QED
  BY <1>5, <1>6, <1>7, <1>8 DEF In

\* What the assumption says of a building.
BuildOK(b) ==
  /\ b.IPID \in Nat /\ b.buildBegin \in Nat /\ b.buildEnd \in Nat
  /\ 1 <= b.buildBegin /\ b.buildBegin <= b.buildEnd
  /\ b.cellList \in Seq(CellRec)
  /\ \A j \in DOMAIN b.cellList : /\ b.cellList[j].floorBegin <= b.cellList[j].floorEnd
                                  /\ b.cellList[j].roomBegin <= b.cellList[j].roomEnd
  /\ CellsInOrder(b.cellList)

CellOK(l) ==
  /\ l \in CellRec /\ l.floorBegin <= l.floorEnd /\ l.roomBegin <= l.roomEnd
  /\ 1 <= l.cellBegin /\ l.cellBegin <= l.cellEnd

\* The entries of a list of cells lie one after the other.
LEMMA CellsOK ==
  ASSUME NEW b, BuildOK(b)
  PROVE  /\ Len(b.cellList) \in Nat /\ Len(b.cellList) > 0
         /\ DOMAIN b.cellList = 1 .. Len(b.cellList)
         /\ \A j \in 1 .. Len(b.cellList) : CellOK(b.cellList[j])
         /\ \A i, j \in 1 .. Len(b.cellList) :
              i < j => b.cellList[i].cellEnd < b.cellList[j].cellBegin
<1> DEFINE n == Len(b.cellList)
           lo == [i \in 1 .. n |-> b.cellList[i].cellBegin]
           hi == [i \in 1 .. n |-> b.cellList[i].cellEnd]
<1>1. n \in Nat /\ DOMAIN b.cellList = 1 .. n /\ \A j \in 1 .. n : b.cellList[j] \in CellRec
  BY DEF BuildOK
<1>2. n > 0
  BY <1>1 DEF BuildOK, CellsInOrder
<1>3. ASSUME NEW j \in 1 .. n PROVE CellOK(b.cellList[j])
  BY <1>1 DEF BuildOK, CellsInOrder, CellOK
<1>4. \A j \in 1 .. n : lo[j] \in Nat /\ hi[j] \in Nat /\ lo[j] <= hi[j]
  BY <1>1, <1>3, CellRecFields DEF CellOK
<1>5. \A j \in 1 .. n : j > 1 => hi[j - 1] < lo[j]
  <2> SUFFICES ASSUME NEW j \in 1 .. n, j > 1 PROVE hi[j - 1] < lo[j]
    OBVIOUS
  <2>1. j - 1 \in 1 .. n
    BY <1>1
  <2>2. b.cellList[j - 1].cellEnd < b.cellList[j].cellBegin
    BY <1>1 DEF BuildOK, CellsInOrder
  <2> QED
    BY <2>1, <2>2
<1> HIDE DEF lo, hi
<1>6. \A i, j \in 1 .. n : i < j => hi[i] < lo[j]
  BY <1>1, <1>4, <1>5, Ascending
<1> QED
  BY <1>1, <1>2, <1>3, <1>6 DEF lo, hi

\* The number of machines of a cell is a number.
LEMMA MachinesNat ==
  ASSUME NEW l, CellOK(l) PROVE Machines(l) \in Nat /\ CellsMachines(l) \in Nat
<1>1. Machines(l) \in Nat
  BY CellCount, FS_CardinalityType DEF CellOK
<1>2. Count(l.cellBegin, l.cellEnd) \in Nat
  BY CellRecFields DEF CellOK, Count
<1> QED
  BY <1>1, <1>2 DEF CellsMachines, Machines

\* The cells lo to hi of an entry.
ManyCells(l, x, lo, hi) == UNION {CellPlaces(l, x, y) : y \in lo .. hi}

\* The cells lo to hi of an entry: as many places as cells times machines.
LEMMA ManyCellsCount ==
  ASSUME NEW l, CellOK(l), NEW x \in Nat, NEW lo \in Nat, NEW hi \in Int, lo <= hi + 1
  PROVE  /\ IsFiniteSet(ManyCells(l, x, lo, hi))
         /\ Cardinality(ManyCells(l, x, lo, hi)) = (hi - lo + 1) * Machines(l)
<1> DEFINE S == [y \in lo .. hi |-> CellPlaces(l, x, y)]
<1>1. Machines(l) \in Nat
  BY MachinesNat
<1>2. \A y \in lo .. hi : IsFiniteSet(S[y]) /\ Cardinality(S[y]) = Machines(l)
  BY CellCount DEF CellOK
<1>3. ASSUME NEW y \in lo .. hi, NEW z \in lo .. hi, y # z PROVE S[y] \cap S[z] = {}
  <2> SUFFICES ASSUME NEW p \in CellPlaces(l, x, y), p \in CellPlaces(l, x, z) PROVE FALSE
    OBVIOUS
  <2>2. y \in Nat /\ z \in Nat
    OBVIOUS
  <2>1. In(p, x, y) /\ In(p, x, z)
    BY <2>2, InCells DEF CellOK
  <2> QED
    BY <1>3, <2>1, <2>2, CellOrder
<1>4. All(S, lo .. hi) = ManyCells(l, x, lo, hi)
  BY DEF All, ManyCells
<1> HIDE DEF S
<1>5. /\ IsFiniteSet(All(S, lo .. hi))
      /\ Cardinality(All(S, lo .. hi)) = (hi - lo + 1) * Machines(l)
  BY <1>1, <1>2, <1>3, UnionTimes
<1> QED
  BY <1>4, <1>5

\* CellsMachines counts the places of an entry.
LEMMA CellsCount ==
  ASSUME NEW l, CellOK(l), NEW x \in Nat
  PROVE  /\ IsFiniteSet(CellsPlaces(l, x))
         /\ Cardinality(CellsPlaces(l, x)) = CellsMachines(l)
<1>1. l.cellBegin \in Nat /\ l.cellEnd \in Int /\ l.cellBegin <= l.cellEnd + 1
  BY CellRecFields DEF CellOK
<1>2. CellsPlaces(l, x) = ManyCells(l, x, l.cellBegin, l.cellEnd)
  BY DEF CellsPlaces, ManyCells
<1>3. CellsMachines(l) = (l.cellEnd - l.cellBegin + 1) * Machines(l)
  BY DEF CellsMachines, Machines, Count
<1> QED
  BY <1>1, <1>2, <1>3, ManyCellsCount

\* A place of an entry lies in one of its cells.
LEMMA InEntry ==
  ASSUME NEW l, CellOK(l), NEW x, x \in Nat, NEW p \in CellsPlaces(l, x)
  PROVE  \E y \in Nat : y \in l.cellBegin .. l.cellEnd /\ In(p, x, y)
<1>1. PICK y \in l.cellBegin .. l.cellEnd : p \in CellPlaces(l, x, y)
  BY DEF CellsPlaces
<1>2. y \in Nat
  BY CellRecFields DEF CellOK
<1>3. In(p, x, y)
  BY <1>1, <1>2, InCells DEF CellOK
<1> QED
  BY <1>2, <1>3

\* calculationBuildMachineNumber() is the number of places of a building, and a part of
\* its sum is that of the first entries.
FirstEntries(b, x, n) == UNION {CellsPlaces(b.cellList[j], x) : j \in 1 .. n}

\* The first n entries of a list of cells have as many places as the sum says.
LEMMA FirstEntriesCount ==
  ASSUME NEW b, BuildOK(b), NEW x \in Nat, NEW n \in 0 .. Len(b.cellList), NEW f,
         \A j \in 1 .. n : f[j] = CellsMachines(b.cellList[j])
  PROVE  /\ IsFiniteSet(FirstEntries(b, x, n))
         /\ Cardinality(FirstEntries(b, x, n)) = SumFunctionOnSet(f, 1 .. n)
<1> DEFINE S == [j \in 1 .. n |-> CellsPlaces(b.cellList[j], x)]
<1>0. n \in Nat /\ \A j \in 1 .. n : j \in 1 .. Len(b.cellList) /\ CellOK(b.cellList[j])
  BY CellsOK
<1>1. \A j \in 1 .. n : IsFiniteSet(S[j]) /\ Cardinality(S[j]) = f[j]
  BY <1>0, CellsCount
<1>2. ASSUME NEW i \in 1 .. n, NEW j \in 1 .. n, i # j PROVE S[i] \cap S[j] = {}
  <2> SUFFICES ASSUME NEW p \in CellsPlaces(b.cellList[i], x), p \in CellsPlaces(b.cellList[j], x)
               PROVE  FALSE
    OBVIOUS
  <2>1. PICK y \in Nat : y \in b.cellList[i].cellBegin .. b.cellList[i].cellEnd /\ In(p, x, y)
    BY <1>0, InEntry
  <2>2. PICK z \in Nat : z \in b.cellList[j].cellBegin .. b.cellList[j].cellEnd /\ In(p, x, z)
    BY <1>0, InEntry
  <2>3. y = z
    <3>1. In(p, x, y) /\ In(p, x, z)
      BY <2>1, <2>2
    <3> QED
      BY <3>1, CellOrder
  <2>4. /\ b.cellList[i].cellBegin \in Nat /\ b.cellList[i].cellEnd \in Nat
        /\ b.cellList[j].cellBegin \in Nat /\ b.cellList[j].cellEnd \in Nat
    BY <1>0, CellRecFields DEF CellOK
  <2>5. i < j \/ j < i
    BY <1>2
  <2>6. \/ b.cellList[i].cellEnd < b.cellList[j].cellBegin
        \/ b.cellList[j].cellEnd < b.cellList[i].cellBegin
    BY <1>0, <2>5, CellsOK
  <2> QED
    BY <2>1, <2>2, <2>3, <2>4, <2>6
<1>3. All(S, 1 .. n) = FirstEntries(b, x, n)
  BY DEF All, FirstEntries
<1> HIDE DEF S
<1>4. /\ IsFiniteSet(All(S, 1 .. n))
      /\ Cardinality(All(S, 1 .. n)) = SumFunctionOnSet(f, 1 .. n)
  BY <1>0, <1>1, <1>2, UnionSum
<1> QED
  BY <1>3, <1>4

\* calculationBuildMachineNumber() counts the places of a building.
LEMMA BuildCount ==
  ASSUME NEW b, BuildOK(b), NEW x \in Nat
  PROVE  /\ IsFiniteSet(BuildPlaces(b, x))
         /\ Cardinality(BuildPlaces(b, x)) = calculationBuildMachineNumber(b)
<1> DEFINE n == Len(b.cellList)
           f == [j \in DOMAIN b.cellList |-> CellsMachines(b.cellList[j])]
<1>1. n \in 0 .. n /\ DOMAIN b.cellList = 1 .. n /\ DOMAIN f = 1 .. n
  BY CellsOK
<1>2. calculationBuildMachineNumber(b) = SumFunctionOnSet(f, 1 .. n)
  BY <1>1 DEF calculationBuildMachineNumber, SumFunction
<1>3. \A j \in 1 .. n : f[j] = CellsMachines(b.cellList[j])
  BY <1>1
<1>4. BuildPlaces(b, x) = FirstEntries(b, x, n)
  BY <1>1 DEF BuildPlaces, FirstEntries
<1> HIDE DEF f
<1> QED
  BY <1>1, <1>2, <1>3, <1>4, FirstEntriesCount

\* The machine of the code is one of the j-th entry of the building's list.
OfEntry(b, j, c) ==
  /\ j \in 1 .. Len(b.cellList)
  /\ InCell(b.cellList[j], c) /\ OfCell(b.cellList[j], c)

\* A machine of a cell stands in its cell.
LEMMA PlaceInCell ==
  ASSUME NEW l, CellOK(l), NEW c \in CodeRec, OfCell(l, c)
  PROVE  In(Place(c), c.build, c.cell)
<1>1. Place(c) \in CellPlaces(l, c.build, c.cell) /\ l \in CellRec
  BY CellRank DEF CellOK
<1> QED
  BY <1>1, CodeFields, InCells

\* Up to a machine there are the cells of its entry before its own, and those of
\* its own cell up to it.
LEMMA CellsRank ==
  ASSUME NEW l, CellOK(l), NEW c \in CodeRec, OfCell(l, c), InCell(l, c)
  PROVE  /\ IsFiniteSet(UpTo(CellsPlaces(l, c.build), Place(c)))
         /\ Cardinality(UpTo(CellsPlaces(l, c.build), Place(c)))
              = (c.cell - l.cellBegin) * Machines(l) + NumberInCell(l, c)
         /\ Place(c) \in CellsPlaces(l, c.build)
<1> DEFINE q == Place(c)
           x == c.build
           yy == c.cell
           L == ManyCells(l, x, l.cellBegin, yy - 1)
           M == UpTo(CellPlaces(l, x, yy), q)
<1>0. /\ x \in Nat /\ yy \in Nat /\ l.cellBegin \in Nat /\ l.cellEnd \in Nat
      /\ yy \in l.cellBegin .. l.cellEnd /\ yy - 1 \in Int /\ l.cellBegin <= (yy - 1) + 1
      /\ (yy - 1) - l.cellBegin + 1 = yy - l.cellBegin
  BY CodeFields, CellRecFields DEF CellOK, InCell
<1>1. In(q, x, yy)
  BY PlaceInCell
<1>2. IsFiniteSet(L) /\ Cardinality(L) = (yy - l.cellBegin) * Machines(l)
  <2>1. IsFiniteSet(L) /\ Cardinality(L) = ((yy - 1) - l.cellBegin + 1) * Machines(l)
    BY <1>0, ManyCellsCount
  <2> QED
    BY <1>0, <2>1
<1>3. IsFiniteSet(M) /\ Cardinality(M) = NumberInCell(l, c) /\ q \in CellPlaces(l, x, yy)
  BY CellRank DEF CellOK
<1> HIDE DEF q, x, yy
<1>4. ASSUME NEW y \in l.cellBegin .. l.cellEnd, NEW p \in CellPlaces(l, x, y)
      PROVE  /\ y \in Nat
             /\ y < yy => Before(p, q)
             /\ yy < y => ~(p = q \/ Before(p, q))
  <2>1. In(p, x, y) /\ y \in Nat
    BY <1>0, InCells DEF CellOK
  <2> QED
    BY <1>0, <1>1, <2>1, CellOrder
<1>5. L \cap M = {}
  <2> SUFFICES ASSUME NEW y \in l.cellBegin .. yy - 1, NEW p \in CellPlaces(l, x, y),
                      p \in CellPlaces(l, x, yy)
               PROVE  FALSE
    BY DEF ManyCells, UpTo
  <2>1. In(p, x, y) /\ In(p, x, yy) /\ y \in Nat
    BY <1>0, InCells DEF CellOK
  <2>2. y = yy
    BY <1>0, <2>1, CellOrder
  <2> QED
    BY <1>0, <2>2
<1>6. UpTo(CellsPlaces(l, x), q) = L \cup M
  <2>1. ASSUME NEW p, p \in UpTo(CellsPlaces(l, x), q) PROVE p \in L \cup M
    <3>1. PICK y \in l.cellBegin .. l.cellEnd : p \in CellPlaces(l, x, y)
      BY <2>1 DEF UpTo, CellsPlaces
    <3>2. p = q \/ Before(p, q)
      BY <2>1 DEF UpTo
    <3>3. y \in Nat /\ y <= yy
      BY <1>0, <1>4, <3>1, <3>2
    <3>4. CASE y = yy
      BY <3>1, <3>2, <3>4 DEF UpTo
    <3>5. CASE y < yy
      <4>1. y \in l.cellBegin .. yy - 1
        BY <1>0, <3>3, <3>5
      <4> QED
        BY <3>1, <4>1 DEF ManyCells
    <3> QED
      BY <1>0, <3>3, <3>4, <3>5
  <2>2. ASSUME NEW p \in L PROVE p \in UpTo(CellsPlaces(l, x), q)
    <3>1. PICK y \in l.cellBegin .. yy - 1 : p \in CellPlaces(l, x, y)
      BY DEF ManyCells
    <3>2. y \in l.cellBegin .. l.cellEnd /\ y < yy
      BY <1>0
    <3> QED
      BY <1>4, <3>1, <3>2 DEF UpTo, CellsPlaces
  <2>3. ASSUME NEW p \in M PROVE p \in UpTo(CellsPlaces(l, x), q)
    BY <1>0 DEF UpTo, CellsPlaces
  <2> QED
    BY <2>1, <2>2, <2>3
<1>7. q \in CellsPlaces(l, x)
  BY <1>0, <1>3 DEF CellsPlaces
<1> HIDE DEF L, M
<1>8. IsFiniteSet(L \cup M) /\ Cardinality(L \cup M) = Cardinality(L) + Cardinality(M)
  BY <1>2, <1>3, <1>5, Together
<1> QED
  BY <1>2, <1>3, <1>6, <1>7, <1>8 DEF q, x, yy

\* The number of a machine of an entry in its building.
LEMMA NumberInBuildIs ==
  ASSUME NEW b, BuildOK(b), NEW c \in CodeRec, NEW j, OfEntry(b, j, c)
  PROVE  \E f : /\ \A i \in 1 .. j - 1 : f[i] = CellsMachines(b.cellList[i])
                /\ NumberInBuild(b, c)
                     = SumFunctionOnSet(f, 1 .. j - 1)
                         + (c.cell - b.cellList[j].cellBegin) * Machines(b.cellList[j])
                         + NumberInCell(b.cellList[j], c)
<1> DEFINE own == {i \in DOMAIN b.cellList : InCell(b.cellList[i], c)}
           f == [i \in 1 .. j - 1 |->
                  IF c.cell > b.cellList[i].cellEnd THEN CellsMachines(b.cellList[i]) ELSE 0]
<1>0. /\ j \in 1 .. Len(b.cellList) /\ InCell(b.cellList[j], c) /\ j \in Nat
      /\ DOMAIN b.cellList = 1 .. Len(b.cellList) /\ Len(b.cellList) \in Nat
  BY CellsOK DEF OfEntry
<1>1. \A i \in 1 .. Len(b.cellList) : /\ b.cellList[i].cellBegin \in Nat
                                      /\ b.cellList[i].cellEnd \in Nat
  BY CellsOK, CellRecFields DEF CellOK
<1>2. ASSUME NEW i \in 1 .. Len(b.cellList)
      PROVE  /\ i < j => c.cell > b.cellList[i].cellEnd
             /\ i # j => ~InCell(b.cellList[i], c)
  <2>1. c.cell \in Nat
    BY CodeFields
  <2>2. CASE i < j
    BY <1>0, <1>1, <2>1, <2>2, CellsOK DEF InCell
  <2>3. CASE j < i
    BY <1>0, <1>1, <2>1, <2>3, CellsOK DEF InCell
  <2> QED
    BY <1>0, <2>2, <2>3
<1>3. own = {j}
  BY <1>0, <1>2
<1>4. Min(own) = j
  <2>1. {j} \in SUBSET Nat /\ {j} # {}
    BY <1>0
  <2>2. Min({j}) \in {j}
    BY <2>1, Least
  <2> QED
    BY <1>3, <2>2
<1>5. NumberInBuild(b, c)
        = SumFunction(f) + (c.cell - b.cellList[j].cellBegin)
                             * calculationCellMachineNumber(b.cellList[j])
            + NumberInCell(b.cellList[j], c)
  <2>1. own # {}
    BY <1>3
  <2> QED
    BY <1>4, <2>1 DEF NumberInBuild
<1>6. SumFunction(f) = SumFunctionOnSet(f, 1 .. j - 1)
  BY DEF SumFunction
<1>7. \A i \in 1 .. j - 1 : f[i] = CellsMachines(b.cellList[i])
  BY <1>0, <1>2
<1> HIDE DEF f
<1> QED
  BY <1>5, <1>6, <1>7 DEF Machines

\* And it is its rank.
LEMMA BuildRank ==
  ASSUME NEW b, BuildOK(b), NEW c \in CodeRec, NEW j, OfEntry(b, j, c)
  PROVE  /\ IsFiniteSet(UpTo(BuildPlaces(b, c.build), Place(c)))
         /\ Cardinality(UpTo(BuildPlaces(b, c.build), Place(c))) = NumberInBuild(b, c)
         /\ Place(c) \in BuildPlaces(b, c.build) /\ In(Place(c), c.build, c.cell)
<1> DEFINE q == Place(c)
           x == c.build
           n == Len(b.cellList)
           l == b.cellList[j]
           L == FirstEntries(b, x, j - 1)
           M == UpTo(CellsPlaces(l, x), q)
<1>0. /\ x \in Nat /\ c.cell \in Nat /\ n \in Nat /\ j \in 1 .. n /\ j - 1 \in 0 .. n
      /\ DOMAIN b.cellList = 1 .. n /\ CellOK(l) /\ InCell(l, c) /\ OfCell(l, c)
  BY CodeFields, CellsOK DEF OfEntry
<1>1. In(q, x, c.cell)
  BY <1>0, PlaceInCell
<1>2. /\ IsFiniteSet(M) /\ q \in CellsPlaces(l, x)
      /\ Cardinality(M) = (c.cell - l.cellBegin) * Machines(l) + NumberInCell(l, c)
  BY <1>0, CellsRank
<1>3. PICK f : /\ \A i \in 1 .. j - 1 : f[i] = CellsMachines(b.cellList[i])
               /\ NumberInBuild(b, c)
                    = SumFunctionOnSet(f, 1 .. j - 1)
                        + (c.cell - l.cellBegin) * Machines(l) + NumberInCell(l, c)
  BY NumberInBuildIs
<1>4. IsFiniteSet(L) /\ Cardinality(L) = SumFunctionOnSet(f, 1 .. j - 1)
  BY <1>0, <1>3, FirstEntriesCount
<1> HIDE DEF q, x, n
<1>5. ASSUME NEW i \in 1 .. n, NEW p \in CellsPlaces(b.cellList[i], x)
      PROVE  /\ i < j => p # q /\ Before(p, q)
             /\ j < i => ~(p = q \/ Before(p, q))
  <2>1. CellOK(b.cellList[i])
    BY CellsOK DEF n
  <2>2. PICK y \in Nat : y \in b.cellList[i].cellBegin .. b.cellList[i].cellEnd /\ In(p, x, y)
    BY <1>0, <2>1, InEntry
  <2>3. /\ b.cellList[i].cellBegin \in Nat /\ b.cellList[i].cellEnd \in Nat
        /\ l.cellBegin \in Nat /\ l.cellEnd \in Nat
    BY <1>0, <2>1, CellRecFields DEF CellOK
  <2>4. /\ i < j => b.cellList[i].cellEnd < l.cellBegin
        /\ j < i => l.cellEnd < b.cellList[i].cellBegin
    BY <1>0, CellsOK DEF n
  <2>5. l.cellBegin <= c.cell /\ c.cell <= l.cellEnd
    BY <1>0 DEF InCell
  <2> HIDE DEF l
  <2>6. (i < j => y < c.cell) /\ (j < i => c.cell < y)
    BY <1>0, <2>2, <2>3, <2>4, <2>5
  <2>7. /\ p = q => y = c.cell
        /\ y < c.cell => Before(p, q)
        /\ c.cell < y => p # q /\ ~Before(p, q)
    <3>1. In(p, x, y)
      BY <2>2
    <3> QED
      BY <1>0, <1>1, <3>1, CellOrder
  <2>8. i < j => y # c.cell
    BY <1>0, <2>6
  <2> QED
    BY <2>6, <2>7, <2>8
<1>6. L \cap M = {}
  <2> SUFFICES ASSUME NEW i \in 1 .. j - 1, NEW p \in CellsPlaces(b.cellList[i], x),
                      p \in CellsPlaces(l, x)
               PROVE  FALSE
    BY DEF FirstEntries, UpTo
  <2>1. i \in 1 .. n /\ i < j
    BY <1>0
  <2>2. PICK y \in Nat : y \in b.cellList[i].cellBegin .. b.cellList[i].cellEnd /\ In(p, x, y)
    BY <1>0, <2>1, CellsOK, InEntry DEF n
  <2>3. PICK z \in Nat : z \in l.cellBegin .. l.cellEnd /\ In(p, x, z)
    BY <1>0, InEntry
  <2>4. y = z
    <3>1. In(p, x, y) /\ In(p, x, z)
      BY <2>2, <2>3
    <3> QED
      BY <1>0, <3>1, CellOrder
  <2>5. b.cellList[i].cellEnd < l.cellBegin
    BY <1>0, <2>1, CellsOK DEF n
  <2>6. b.cellList[i].cellEnd \in Nat /\ l.cellBegin \in Nat
    BY <1>0, <2>1, CellsOK, CellRecFields DEF CellOK, n
  <2> QED
    BY <2>2, <2>3, <2>4, <2>5, <2>6
<1>7. UpTo(BuildPlaces(b, x), q) = L \cup M
  <2>1. ASSUME NEW p, p \in UpTo(BuildPlaces(b, x), q) PROVE p \in L \cup M
    <3>1. PICK i \in 1 .. n : p \in CellsPlaces(b.cellList[i], x)
      BY <1>0, <2>1 DEF UpTo, BuildPlaces
    <3>2. p = q \/ Before(p, q)
      BY <2>1 DEF UpTo
    <3>3. ~(j < i)
      BY <1>5, <3>1, <3>2
    <3>4. CASE i = j
      BY <3>1, <3>2, <3>4 DEF UpTo
    <3>5. CASE i < j
      <4>1. i \in 1 .. j - 1
        BY <1>0, <3>5
      <4> QED
        BY <3>1, <4>1 DEF FirstEntries
    <3> QED
      BY <1>0, <3>3, <3>4, <3>5
  <2>2. ASSUME NEW p \in L PROVE p \in UpTo(BuildPlaces(b, x), q)
    <3>1. PICK i \in 1 .. j - 1 : p \in CellsPlaces(b.cellList[i], x)
      BY DEF FirstEntries
    <3>2. i \in 1 .. n /\ i < j
      BY <1>0
    <3> QED
      BY <1>0, <1>5, <3>1, <3>2 DEF UpTo, BuildPlaces
  <2>3. ASSUME NEW p \in M PROVE p \in UpTo(BuildPlaces(b, x), q)
    BY <1>0 DEF UpTo, BuildPlaces
  <2> QED
    BY <2>1, <2>2, <2>3
<1>8. q \in BuildPlaces(b, x)
  BY <1>0, <1>2 DEF BuildPlaces
<1>9. Cardinality(M) \in Nat /\ Cardinality(L) \in Nat
  BY <1>2, <1>4, FS_CardinalityType
<1>10. /\ Machines(l) \in Nat /\ c.cell - l.cellBegin \in Int
       /\ NumberInCell(l, c) \in Int
  <2>1. Machines(l) \in Nat
    BY <1>0, MachinesNat
  <2>2. c.cell - l.cellBegin \in Int
    BY <1>0, CellRecFields DEF CellOK
  <2>3. NumberInCell(l, c) \in Nat
    BY <1>0, CellRank, FS_CardinalityType DEF CellOK
  <2> QED
    BY <2>1, <2>2, <2>3
<1> HIDE DEF L, M, l
<1>11. IsFiniteSet(L \cup M) /\ Cardinality(L \cup M) = Cardinality(L) + Cardinality(M)
  BY <1>2, <1>4, <1>6, Together
<1>12. Cardinality(L \cup M) = NumberInBuild(b, c)
  <2> DEFINE t == (c.cell - l.cellBegin) * Machines(l)
  <2>1. t \in Int
    BY <1>10
  <2> HIDE DEF t
  <2>2. /\ Cardinality(M) = t + NumberInCell(l, c)
        /\ NumberInBuild(b, c) = Cardinality(L) + t + NumberInCell(l, c)
    BY <1>2, <1>3, <1>4 DEF t
  <2> QED
    BY <1>9, <1>10, <1>11, <2>1, <2>2
<1> QED
  BY <1>1, <1>7, <1>8, <1>11, <1>12 DEF q, x

\* What the assumption says of an area.
AreaOK(a) == AreaTypeOK(a) /\ BuildingsInOrder(a) /\ SubnetsGiven(a)

\* The entries of the list of buildings lie one after the other.
LEMMA BuildsOK ==
  ASSUME NEW a, AreaOK(a)
  PROVE  /\ Len(a.buildList) \in Nat /\ Len(a.buildList) > 0
         /\ DOMAIN a.buildList = 1 .. Len(a.buildList)
         /\ \A i \in 1 .. Len(a.buildList) : BuildOK(a.buildList[i])
         /\ \A i, j \in 1 .. Len(a.buildList) :
              i < j => a.buildList[i].buildEnd < a.buildList[j].buildBegin
<1> DEFINE n == Len(a.buildList)
           lo == [i \in 1 .. n |-> a.buildList[i].buildBegin]
           hi == [i \in 1 .. n |-> a.buildList[i].buildEnd]
<1>1. /\ n \in Nat /\ DOMAIN a.buildList = 1 .. n
      /\ \A i \in 1 .. n : a.buildList[i] \in [IPID : Nat, buildBegin : Nat, buildEnd : Nat,
                                               cellList : Seq(CellRec)]
  <2> DEFINE T == [IPID : Nat, buildBegin : Nat, buildEnd : Nat, cellList : Seq(CellRec)]
  <2>1. a.buildList \in Seq(T)
    BY DEF AreaOK, AreaTypeOK
  <2> HIDE DEF T
  <2>2. n \in Nat /\ DOMAIN a.buildList = 1 .. n /\ \A i \in 1 .. n : a.buildList[i] \in T
    BY <2>1
  <2> QED
    BY <2>2 DEF T
<1>2. n > 0
  BY <1>1 DEF AreaOK, BuildingsInOrder
<1>3. ASSUME NEW i \in 1 .. n PROVE BuildOK(a.buildList[i])
  <2>1. /\ a.buildList[i].IPID \in Nat /\ a.buildList[i].buildBegin \in Nat
        /\ a.buildList[i].buildEnd \in Nat /\ a.buildList[i].cellList \in Seq(CellRec)
    BY <1>1
  <2>2. /\ 1 <= a.buildList[i].buildBegin /\ a.buildList[i].buildBegin <= a.buildList[i].buildEnd
        /\ CellsInOrder(a.buildList[i].cellList)
    BY <1>1 DEF AreaOK, BuildingsInOrder
  <2>3. \A j \in DOMAIN a.buildList[i].cellList :
          /\ a.buildList[i].cellList[j].floorBegin <= a.buildList[i].cellList[j].floorEnd
          /\ a.buildList[i].cellList[j].roomBegin <= a.buildList[i].cellList[j].roomEnd
    BY <1>1 DEF AreaOK, AreaTypeOK
  <2> QED
    BY <2>1, <2>2, <2>3 DEF BuildOK
<1>4. \A i \in 1 .. n : lo[i] \in Nat /\ hi[i] \in Nat /\ lo[i] <= hi[i]
  BY <1>3 DEF BuildOK
<1>5. \A i \in 1 .. n : i > 1 => hi[i - 1] < lo[i]
  <2> SUFFICES ASSUME NEW i \in 1 .. n, i > 1 PROVE hi[i - 1] < lo[i]
    OBVIOUS
  <2>1. i - 1 \in 1 .. n
    BY <1>1
  <2>2. a.buildList[i - 1].buildEnd < a.buildList[i].buildBegin
    BY <1>1 DEF AreaOK, BuildingsInOrder
  <2> QED
    BY <2>1, <2>2
<1> HIDE DEF lo, hi
<1>6. \A i, j \in 1 .. n : i < j => hi[i] < lo[j]
  BY <1>1, <1>4, <1>5, Ascending
<1> QED
  BY <1>1, <1>2, <1>3, <1>6 DEF lo, hi

\* The places of the building x are places of a building x.
LEMMA InHouse ==
  ASSUME NEW b, BuildOK(b), NEW x, x \in Nat, NEW p \in BuildPlaces(b, x)
  PROVE  \E y \in Nat : In(p, x, y)
<1>1. PICK j \in 1 .. Len(b.cellList) : p \in CellsPlaces(b.cellList[j], x)
  BY CellsOK DEF BuildPlaces
<1>2. CellOK(b.cellList[j])
  BY CellsOK
<1> QED
  BY <1>1, <1>2, InEntry

\* The buildings lo to hi of an entry.
ManyBuilds(b, lo, hi) == UNION {BuildPlaces(b, x) : x \in lo .. hi}

\* The buildings lo to hi of an entry: as many places as buildings times machines.
LEMMA ManyBuildsCount ==
  ASSUME NEW b, BuildOK(b), NEW lo \in Nat, NEW hi \in Int, lo <= hi + 1
  PROVE  /\ IsFiniteSet(ManyBuilds(b, lo, hi))
         /\ Cardinality(ManyBuilds(b, lo, hi))
              = (hi - lo + 1) * calculationBuildMachineNumber(b)
<1> DEFINE S == [x \in lo .. hi |-> BuildPlaces(b, x)]
           k == calculationBuildMachineNumber(b)
<1>1. \A x \in lo .. hi : x \in Nat
  OBVIOUS
<1>2. \A x \in lo .. hi : IsFiniteSet(S[x]) /\ Cardinality(S[x]) = k
  BY <1>1, BuildCount
<1>3. k \in Nat
  <2>1. IsFiniteSet(BuildPlaces(b, 0)) /\ Cardinality(BuildPlaces(b, 0)) = k
    BY BuildCount
  <2> QED
    BY <2>1, FS_CardinalityType
<1>4. ASSUME NEW x \in lo .. hi, NEW z \in lo .. hi, x # z PROVE S[x] \cap S[z] = {}
  <2> SUFFICES ASSUME NEW p \in BuildPlaces(b, x), p \in BuildPlaces(b, z) PROVE FALSE
    OBVIOUS
  <2>1. PICK y \in Nat : In(p, x, y)
    BY <1>1, InHouse
  <2>2. PICK w \in Nat : In(p, z, w)
    BY <1>1, InHouse
  <2> QED
    BY <1>4, <2>1, <2>2, CellOrder
<1>5. All(S, lo .. hi) = ManyBuilds(b, lo, hi)
  BY DEF All, ManyBuilds
<1> HIDE DEF S, k
<1>6. /\ IsFiniteSet(All(S, lo .. hi))
      /\ Cardinality(All(S, lo .. hi)) = (hi - lo + 1) * k
  BY <1>2, <1>3, <1>4, UnionTimes
<1> QED
  BY <1>5, <1>6 DEF k

\* BuildsMachines counts the places of an entry of the list of buildings.
LEMMA BuildsCount ==
  ASSUME NEW b, BuildOK(b)
  PROVE  /\ IsFiniteSet(BuildsPlaces(b))
         /\ Cardinality(BuildsPlaces(b)) = BuildsMachines(b)
<1>1. b.buildBegin \in Nat /\ b.buildEnd \in Int /\ b.buildBegin <= b.buildEnd + 1
  BY DEF BuildOK
<1>2. BuildsPlaces(b) = ManyBuilds(b, b.buildBegin, b.buildEnd)
  BY DEF BuildsPlaces, ManyBuilds
<1>3. BuildsMachines(b) = (b.buildEnd - b.buildBegin + 1) * calculationBuildMachineNumber(b)
  BY DEF BuildsMachines, Count
<1> QED
  BY <1>1, <1>2, <1>3, ManyBuildsCount

\* A place of an entry of the list of buildings is one of its buildings.
LEMMA InBuilds ==
  ASSUME NEW b, BuildOK(b), NEW p \in BuildsPlaces(b)
  PROVE  \E x, y \in Nat : b.buildBegin <= x /\ x <= b.buildEnd /\ In(p, x, y)
<1>1. PICK x \in b.buildBegin .. b.buildEnd : p \in BuildPlaces(b, x)
  BY DEF BuildsPlaces
<1>2. x \in Nat /\ b.buildBegin <= x /\ x <= b.buildEnd
  BY DEF BuildOK
<1> QED
  BY <1>1, <1>2, InHouse

\* The rank in an entry of the list of buildings.
LEMMA BuildsRank ==
  ASSUME NEW b, BuildOK(b), NEW c \in CodeRec, NEW j, OfEntry(b, j, c), InBuild(b, c)
  PROVE  /\ IsFiniteSet(UpTo(BuildsPlaces(b), Place(c)))
         /\ Cardinality(UpTo(BuildsPlaces(b), Place(c)))
              = (c.build - b.buildBegin) * calculationBuildMachineNumber(b)
                  + NumberInBuild(b, c)
         /\ Place(c) \in BuildsPlaces(b)
<1> DEFINE q == Place(c)
           xx == c.build
           L == ManyBuilds(b, b.buildBegin, xx - 1)
           M == UpTo(BuildPlaces(b, xx), q)
<1>0. /\ xx \in Nat /\ b.buildBegin \in Nat /\ b.buildEnd \in Nat
      /\ xx \in b.buildBegin .. b.buildEnd /\ xx - 1 \in Int /\ b.buildBegin <= (xx - 1) + 1
      /\ (xx - 1) - b.buildBegin + 1 = xx - b.buildBegin
  BY CodeFields DEF BuildOK, InBuild
<1>1. /\ IsFiniteSet(M) /\ Cardinality(M) = NumberInBuild(b, c)
      /\ q \in BuildPlaces(b, xx) /\ In(q, xx, c.cell)
  BY BuildRank
<1>2. /\ IsFiniteSet(L)
      /\ Cardinality(L) = (xx - b.buildBegin) * calculationBuildMachineNumber(b)
  <2>1. /\ IsFiniteSet(L)
        /\ Cardinality(L) = ((xx - 1) - b.buildBegin + 1) * calculationBuildMachineNumber(b)
    BY <1>0, ManyBuildsCount
  <2> QED
    BY <1>0, <2>1
<1> HIDE DEF q, xx
<1>4. ASSUME NEW x \in b.buildBegin .. b.buildEnd, NEW p \in BuildPlaces(b, x)
      PROVE  /\ x \in Nat
             /\ x < xx => Before(p, q)
             /\ xx < x => ~(p = q \/ Before(p, q))
             /\ p \in BuildPlaces(b, xx) => x = xx
  <2>1. x \in Nat
    BY <1>0
  <2>2. PICK y \in Nat : In(p, x, y)
    BY <2>1, InHouse
  <2>3. x < xx => Before(p, q)
    BY <1>1, <2>2, CellOrder
  <2>4. xx < x => ~(p = q \/ Before(p, q))
    BY <1>1, <2>2, CellOrder
  <2>5. ASSUME p \in BuildPlaces(b, xx) PROVE x = xx
    <3>1. PICK z \in Nat : In(p, xx, z)
      BY <1>0, <2>5, InHouse
    <3> QED
      BY <2>2, <3>1, CellOrder
  <2> QED
    BY <2>1, <2>3, <2>4, <2>5
<1>5. L \cap M = {}
  <2> SUFFICES ASSUME NEW x \in b.buildBegin .. xx - 1, NEW p \in BuildPlaces(b, x),
                      p \in BuildPlaces(b, xx)
               PROVE  FALSE
    BY DEF ManyBuilds, UpTo
  <2>1. x \in b.buildBegin .. b.buildEnd
    BY <1>0
  <2>2. x = xx
    BY <1>4, <2>1
  <2> QED
    BY <1>0, <2>2
<1>6. UpTo(BuildsPlaces(b), q) = L \cup M
  <2>1. ASSUME NEW p, p \in UpTo(BuildsPlaces(b), q) PROVE p \in L \cup M
    <3>1. PICK x \in b.buildBegin .. b.buildEnd : p \in BuildPlaces(b, x)
      BY <2>1 DEF UpTo, BuildsPlaces
    <3>2. p = q \/ Before(p, q)
      BY <2>1 DEF UpTo
    <3>3. x \in Nat /\ x <= xx
      BY <1>0, <1>4, <3>1, <3>2
    <3>4. CASE x = xx
      BY <3>1, <3>2, <3>4 DEF UpTo
    <3>5. CASE x < xx
      <4>1. x \in b.buildBegin .. xx - 1
        BY <1>0, <3>3, <3>5
      <4> QED
        BY <3>1, <4>1 DEF ManyBuilds
    <3> QED
      BY <1>0, <3>3, <3>4, <3>5
  <2>2. ASSUME NEW p \in L PROVE p \in UpTo(BuildsPlaces(b), q)
    <3>1. PICK x \in b.buildBegin .. xx - 1 : p \in BuildPlaces(b, x)
      BY DEF ManyBuilds
    <3>2. x \in b.buildBegin .. b.buildEnd /\ x < xx
      BY <1>0
    <3> QED
      BY <1>4, <3>1, <3>2 DEF UpTo, BuildsPlaces
  <2>3. ASSUME NEW p \in M PROVE p \in UpTo(BuildsPlaces(b), q)
    BY <1>0 DEF UpTo, BuildsPlaces
  <2> QED
    BY <2>1, <2>2, <2>3
<1>7. q \in BuildsPlaces(b)
  BY <1>0, <1>1 DEF BuildsPlaces
<1> HIDE DEF L, M
<1>8. IsFiniteSet(L \cup M) /\ Cardinality(L \cup M) = Cardinality(L) + Cardinality(M)
  BY <1>1, <1>2, <1>5, Together
<1> QED
  BY <1>1, <1>2, <1>6, <1>7, <1>8 DEF q, xx

\* The entries the searches find for a legal code.
LEMMA LegalEntry ==
  ASSUME NEW a, AreaOK(a), NEW c \in CodeRec, Legal(a, c), c.type \notin CommonType
  PROVE  \E i \in 1 .. Len(a.buildList) : \E j :
           /\ BuildOf(a, c) = a.buildList[i]
           /\ InBuild(a.buildList[i], c) /\ OfEntry(a.buildList[i], j, c)
<1> DEFINE n == Len(a.buildList)
           S == {i \in DOMAIN a.buildList :
                   LET b == a.buildList[i] IN
                   c.build <= b.buildEnd /\ (c.area <= b.buildEnd \/ c.build < b.buildBegin)}
           b == BuildOf(a, c)
           m == Len(b.cellList)
           T == {j \in DOMAIN b.cellList : c.cell <= b.cellList[j].cellEnd}
           l == CellOf(b, c)
<1>1. PICK i : i \in 1 .. n /\ b = a.buildList[i]
  <2>1. n \in Nat /\ n > 0 /\ DOMAIN a.buildList = 1 .. n
    BY BuildsOK
  <2>2. CASE S = {}
    BY <2>1, <2>2 DEF BuildOf, FirstOrLast
  <2>3. CASE S # {}
    <3>1. S \in SUBSET Nat
      BY <2>1
    <3>2. Min(S) \in S
      <4> HIDE DEF S
      <4> QED
        BY <2>3, <3>1, Least
    <3> QED
      BY <2>1, <2>3, <3>2 DEF BuildOf, FirstOrLast
  <2> QED
    BY <2>2, <2>3
<1>2. BuildOK(b)
  BY <1>1, BuildsOK
<1>3. PICK j : j \in 1 .. m /\ l = b.cellList[j]
  <2>1. m \in Nat /\ m > 0 /\ DOMAIN b.cellList = 1 .. m
    BY <1>2, CellsOK
  <2> HIDE DEF b
  <2>2. CASE T = {}
    BY <2>1, <2>2 DEF CellOf, FirstOrLast
  <2>3. CASE T # {}
    <3>1. T \in SUBSET Nat
      BY <2>1
    <3>2. Min(T) \in T
      <4> HIDE DEF T
      <4> QED
        BY <2>3, <3>1, Least
    <3> QED
      BY <2>1, <2>3, <3>2 DEF CellOf, FirstOrLast
  <2> QED
    BY <2>2, <2>3
<1>4. /\ c.type \in {ROOM_TYPE, CELL_DOOR_TYPE, HOUSE_DOOR_TYPE}
      /\ InBuild(b, c) /\ InCell(l, c)
      /\ c.type # CELL_DOOR_TYPE => HasRoom(l, c)
      /\ c.sub \in 1 .. CASE c.type = ROOM_TYPE -> l.inDoorCount
                          [] c.type = CELL_DOOR_TYPE -> l.outDoorCount
                          [] c.type = HOUSE_DOOR_TYPE -> l.secondOutDoorCount
  BY DEF Legal, CommonType
<1>5. OfCell(l, c)
  BY <1>4 DEF OfCell
<1> HIDE DEF l, b
<1>6. OfEntry(b, j, c)
  BY <1>3, <1>4, <1>5 DEF OfEntry
<1>7. i \in 1 .. Len(a.buildList) /\ BuildOf(a, c) = a.buildList[i] /\ b = a.buildList[i]
  BY <1>1 DEF b
<1> QED
  BY <1>4, <1>6, <1>7

\* Common machines come after all others.
LEMMA MachineFirst ==
  ASSUME NEW q, NEW x, NEW y, In(q, x, y), NEW g \in Nat, NEW s \in Nat
  PROVE  /\ q # CommonPlace(g, s)
         /\ Before(q, CommonPlace(g, s)) /\ ~Before(CommonPlace(g, s), q)
<1>1. q \in Seq(Nat) /\ 1 \in DOMAIN q /\ q[1] = 0
  <2>1. CASE \E t \in Nat : q = DoorPlace(x, y, t)
    BY <2>1 DEF In, DoorPlace
  <2>2. CASE \E f, r, k, u \in Nat : q = UnitPlace(x, y, f, r, k, u)
    BY <2>2 DEF In, UnitPlace
  <2> QED
    BY <2>1, <2>2 DEF In
<1>2. CommonPlace(g, s)[1] = 1
  BY DEF CommonPlace
<1> QED
  BY <1>1, <1>2, CommonLast

\* The common machines of a kind are numbered from 1.
LEMMA GuardFields ==
  ASSUME NEW a, AreaOK(a), NEW g \in {1, 2, 3}
  PROVE  /\ a.guard[g].IPID \in Nat /\ a.guard[g].indexBegin = 1 /\ a.guard[g].indexEnd \in Nat
         /\ a.guard[g].IPID = a.guard[1].IPID
         /\ GuardPlaces(a, g) = {CommonPlace(g, s) : s \in 1 .. a.guard[g].indexEnd}
BY DEF AreaOK, AreaTypeOK, SubnetsGiven, MANAGE, AREAGATE, GUARD, GuardPlaces, CommonPlace

\* A place of the subnet is one of its buildings or of its common machines.
LEMMA InPlaces ==
  ASSUME NEW a, AreaOK(a), NEW ipid, NEW p
  PROVE  p \in Places(a, ipid)
           <=> \/ \E i \in 1 .. Len(a.buildList) :
                    a.buildList[i].IPID = ipid /\ p \in BuildsPlaces(a.buildList[i])
               \/ \E g \in {1, 2, 3} : a.guard[g].IPID = ipid /\ p \in GuardPlaces(a, g)
<1>1. DOMAIN a.buildList = 1 .. Len(a.buildList)
  BY BuildsOK
<1>2. {MANAGE, AREAGATE, GUARD} = {1, 2, 3}
  BY DEF MANAGE, AREAGATE, GUARD
<1> QED
  BY <1>1, <1>2 DEF Places

\* The place of an entry in the order of the buildings.
LEMMA EntryOrder ==
  ASSUME NEW b, BuildOK(b), NEW c \in CodeRec, NEW q, In(q, c.build, c.cell),
         NEW p \in BuildsPlaces(b)
  PROVE  /\ b.buildEnd < c.build => Before(p, q)
         /\ c.build < b.buildBegin => ~(p = q \/ Before(p, q))
<1>1. PICK x \in Nat, y \in Nat : b.buildBegin <= x /\ x <= b.buildEnd /\ In(p, x, y)
  BY InBuilds
<1>2. b.buildBegin \in Nat /\ b.buildEnd \in Nat /\ c.build \in Nat
  BY CodeFields DEF BuildOK
<1>3. /\ p = q => x = c.build
      /\ x < c.build => Before(p, q)
      /\ c.build < x => p # q /\ ~Before(p, q)
  BY <1>1, CellOrder
<1> QED
  BY <1>1, <1>2, <1>3

\* Entries have no place in common.
LEMMA EntriesApart ==
  ASSUME NEW a, AreaOK(a), NEW i \in 1 .. Len(a.buildList), NEW j \in 1 .. Len(a.buildList),
         i # j
  PROVE  BuildsPlaces(a.buildList[i]) \cap BuildsPlaces(a.buildList[j]) = {}
<1> SUFFICES ASSUME NEW p \in BuildsPlaces(a.buildList[i]),
                    p \in BuildsPlaces(a.buildList[j])
             PROVE  FALSE
  OBVIOUS
<1>1. BuildOK(a.buildList[i]) /\ BuildOK(a.buildList[j])
  BY BuildsOK
<1>2. PICK x \in Nat, y \in Nat :
        a.buildList[i].buildBegin <= x /\ x <= a.buildList[i].buildEnd /\ In(p, x, y)
  BY <1>1, InBuilds
<1>3. PICK z \in Nat, w \in Nat :
        a.buildList[j].buildBegin <= z /\ z <= a.buildList[j].buildEnd /\ In(p, z, w)
  BY <1>1, InBuilds
<1>4. x = z
  <2>1. In(p, x, y) /\ In(p, z, w)
    BY <1>2, <1>3
  <2> QED
    BY <2>1, CellOrder
<1>5. /\ a.buildList[i].buildBegin \in Nat /\ a.buildList[i].buildEnd \in Nat
      /\ a.buildList[j].buildBegin \in Nat /\ a.buildList[j].buildEnd \in Nat
  BY <1>1 DEF BuildOK
<1>6. i < j \/ j < i
  OBVIOUS
<1>7. \/ a.buildList[i].buildEnd < a.buildList[j].buildBegin
      \/ a.buildList[j].buildEnd < a.buildList[i].buildBegin
  BY <1>6, BuildsOK
<1> QED
  BY <1>2, <1>3, <1>4, <1>5, <1>7

\* NumberInSubnet() is the rank of a machine in its subnet.
LEMMA SubnetRank ==
  ASSUME NEW a, AreaOK(a), NEW c \in CodeRec, Legal(a, c), c.type \notin CommonType, NEW ipid,
         ipid = BuildOf(a, c).IPID
  PROVE  /\ IsFiniteSet(UpTo(Places(a, ipid), Place(c)))
         /\ Cardinality(UpTo(Places(a, ipid), Place(c))) = NumberInSubnet(a, c, ipid)
         /\ Place(c) \in Places(a, ipid) /\ In(Place(c), c.build, c.cell)
<1> DEFINE n == Len(a.buildList)
           q == Place(c)
           B(e) == a.buildList[e]
           S == [e \in 1 .. n |->
                   IF B(e).IPID = ipid THEN UpTo(BuildsPlaces(B(e)), q) ELSE {}]
           f == [e \in DOMAIN a.buildList |->
                   IF B(e).IPID # ipid THEN 0
                   ELSE IF c.build > B(e).buildEnd THEN BuildsMachines(B(e))
                   ELSE IF InBuild(B(e), c) /\ c.area <= B(e).buildEnd
                   THEN (c.build - B(e).buildBegin) * calculationBuildMachineNumber(B(e))
                          + NumberInBuild(B(e), c)
                   ELSE 0]
<1>a. PICK i \in 1 .. n : \E j : /\ BuildOf(a, c) = B(i) /\ InBuild(B(i), c)
                                  /\ OfEntry(B(i), j, c)
  BY LegalEntry
<1>1. PICK j : BuildOf(a, c) = B(i) /\ InBuild(B(i), c) /\ OfEntry(B(i), j, c)
  BY <1>a
<1>2. n \in Nat /\ DOMAIN a.buildList = 1 .. n /\ \A e \in 1 .. n : BuildOK(B(e))
  BY BuildsOK
<1>3. /\ IsFiniteSet(UpTo(BuildsPlaces(B(i)), q))
      /\ Cardinality(UpTo(BuildsPlaces(B(i)), q))
           = (c.build - B(i).buildBegin) * calculationBuildMachineNumber(B(i))
               + NumberInBuild(B(i), c)
      /\ q \in BuildsPlaces(B(i)) /\ In(q, c.build, c.cell)
  <2>1. BuildOK(B(i)) /\ OfEntry(B(i), j, c) /\ InBuild(B(i), c)
    BY <1>1, <1>2
  <2> HIDE DEF B, q
  <2>2. /\ IsFiniteSet(UpTo(BuildsPlaces(B(i)), q))
        /\ Cardinality(UpTo(BuildsPlaces(B(i)), q))
             = (c.build - B(i).buildBegin) * calculationBuildMachineNumber(B(i))
                 + NumberInBuild(B(i), c)
        /\ q \in BuildsPlaces(B(i))
    BY <2>1, BuildsRank DEF q
  <2>3. In(q, c.build, c.cell)
    BY <2>1, BuildRank DEF q
  <2> QED
    BY <2>2, <2>3
<1>4. ASSUME NEW e \in 1 .. n, e # i
      PROVE  B(e).buildEnd < c.build \/ c.build < B(e).buildBegin
  <2>1. /\ B(i).buildBegin \in Nat /\ B(i).buildEnd \in Nat /\ c.build \in Nat
        /\ B(e).buildBegin \in Nat /\ B(e).buildEnd \in Nat
    BY <1>2, CodeFields DEF BuildOK
  <2>2. B(i).buildBegin <= c.build /\ c.build <= B(i).buildEnd
    BY <1>1 DEF InBuild
  <2>3. e < i \/ i < e
    BY <1>4
  <2>4. B(e).buildEnd < B(i).buildBegin \/ B(i).buildEnd < B(e).buildBegin
    BY <2>3, BuildsOK
  <2> QED
    BY <2>1, <2>2, <2>4
<1>5. ASSUME NEW e \in 1 .. n
      PROVE  IsFiniteSet(S[e]) /\ Cardinality(S[e]) = f[e]
  <2>0. /\ B(e).buildBegin \in Nat /\ B(e).buildEnd \in Nat /\ c.build \in Nat /\ c.area = 1
        /\ 1 <= B(e).buildBegin /\ B(e).buildBegin <= B(e).buildEnd
    BY <1>2, CodeFields DEF BuildOK
  <2>1. CASE B(e).IPID # ipid
    BY <1>2, <2>1, FS_EmptySet
  <2>2. CASE B(e).IPID = ipid /\ e = i
    <3>1. InBuild(B(e), c) /\ c.area <= B(e).buildEnd /\ ~(c.build > B(e).buildEnd)
      BY <1>1, <2>0, <2>2 DEF InBuild
    <3> HIDE DEF B, q
    <3>2. f[e] = (c.build - B(e).buildBegin) * calculationBuildMachineNumber(B(e))
                   + NumberInBuild(B(e), c)
      BY <1>2, <2>2, <3>1
    <3>3. S[e] = UpTo(BuildsPlaces(B(e)), q)
      BY <2>2
    <3> HIDE DEF S, f
    <3> QED
      BY <1>3, <2>2, <3>2, <3>3
  <2>3. CASE B(e).IPID = ipid /\ e # i /\ B(e).buildEnd < c.build
    <3>1. UpTo(BuildsPlaces(B(e)), q) = BuildsPlaces(B(e))
      BY <1>2, <1>3, <2>3, EntryOrder DEF UpTo
    <3>2. /\ IsFiniteSet(BuildsPlaces(B(e)))
          /\ Cardinality(BuildsPlaces(B(e))) = BuildsMachines(B(e))
      BY <1>2, BuildsCount
    <3>3. c.build > B(e).buildEnd
      BY <2>0, <2>3
    <3>4. f[e] = BuildsMachines(B(e)) /\ S[e] = UpTo(BuildsPlaces(B(e)), q)
      BY <1>2, <2>3, <3>3
    <3> HIDE DEF S, f, B, q
    <3> QED
      BY <3>1, <3>2, <3>4
  <2>4. CASE B(e).IPID = ipid /\ e # i /\ c.build < B(e).buildBegin
    <3>1. UpTo(BuildsPlaces(B(e)), q) = {}
      BY <1>2, <1>3, <2>4, EntryOrder DEF UpTo
    <3>2. ~(c.build > B(e).buildEnd) /\ ~InBuild(B(e), c)
      BY <2>0, <2>4 DEF InBuild
    <3>3. f[e] = 0 /\ S[e] = UpTo(BuildsPlaces(B(e)), q)
      BY <1>2, <2>4, <3>2
    <3> HIDE DEF S, f, B, q
    <3> QED
      BY <3>1, <3>3, FS_EmptySet
  <2> QED
    BY <1>4, <2>1, <2>2, <2>3, <2>4
<1>6. ASSUME NEW e \in 1 .. n, NEW d \in 1 .. n, e # d PROVE S[e] \cap S[d] = {}
  BY <1>6, EntriesApart DEF UpTo
<1>7. NumberInSubnet(a, c, ipid) = SumFunctionOnSet(f, 1 .. n)
  BY <1>2 DEF NumberInSubnet, SumFunction
<1>8. UpTo(Places(a, ipid), q) = All(S, 1 .. n)
  <2>1. ASSUME NEW p, p \in UpTo(Places(a, ipid), q) PROVE p \in All(S, 1 .. n)
    <3>1. p \in Places(a, ipid) /\ (p = q \/ Before(p, q))
      BY <2>1 DEF UpTo
    <3>2. ASSUME NEW g \in {1, 2, 3}, p \in GuardPlaces(a, g) PROVE FALSE
      <4>1. PICK s \in 1 .. a.guard[g].indexEnd : p = CommonPlace(g, s)
        BY <3>2, GuardFields
      <4>2. s \in Nat /\ g \in Nat
        BY GuardFields
      <4> QED
        BY <1>3, <3>1, <4>1, <4>2, MachineFirst
    <3>3. PICK e \in 1 .. n : B(e).IPID = ipid /\ p \in BuildsPlaces(B(e))
      BY <3>1, <3>2, InPlaces
    <3> QED
      BY <3>1, <3>3 DEF All, UpTo
  <2>2. ASSUME NEW p, p \in All(S, 1 .. n) PROVE p \in UpTo(Places(a, ipid), q)
    <3>1. PICK e \in 1 .. n : p \in S[e]
      BY <2>2 DEF All
    <3>2. B(e).IPID = ipid /\ p \in UpTo(BuildsPlaces(B(e)), q)
      BY <3>1
    <3> QED
      BY <3>2, InPlaces DEF UpTo
  <2> QED
    BY <2>1, <2>2
<1>9. q \in Places(a, ipid)
  BY <1>1, <1>3, InPlaces
<1> HIDE DEF S, f
<1>10. /\ IsFiniteSet(All(S, 1 .. n))
       /\ Cardinality(All(S, 1 .. n)) = SumFunctionOnSet(f, 1 .. n)
  BY <1>2, <1>5, <1>6, UnionSum
<1> QED
  BY <1>3, <1>7, <1>8, <1>9, <1>10

\* The common machines 1 to n of a kind.
FirstOf(g, n) == {CommonPlace(g, s) : s \in 1 .. n}

\* As many as n.
LEMMA FirstOfCount ==
  ASSUME NEW g, NEW n \in Nat
  PROVE  IsFiniteSet(FirstOf(g, n)) /\ Cardinality(FirstOf(g, n)) = n
<1> DEFINE h == [s \in 1 .. n |-> CommonPlace(g, s)]
<1>1. IsFiniteSet(1 .. n) /\ Cardinality(1 .. n) = n
  BY FS_Interval, 1 \in Int, n \in Int
<1>2. \A s, t \in 1 .. n : h[s] = h[t] => s = t
  BY PlacesDiffer
<1>3. {h[s] : s \in 1 .. n} = FirstOf(g, n) /\ DOMAIN h = 1 .. n
  BY DEF FirstOf
<1> HIDE DEF h
<1> QED
  BY <1>1, <1>2, <1>3, Images

\* The order of two common machines.
LEMMA CommonOrder ==
  ASSUME NEW g \in Nat, NEW n \in Nat, NEW h \in Nat, NEW s \in Nat, NEW p \in FirstOf(h, s)
  PROVE  /\ h < g => Before(p, CommonPlace(g, n))
         /\ g < h => ~(p = CommonPlace(g, n) \/ Before(p, CommonPlace(g, n)))
         /\ h = g => (p = CommonPlace(g, n) \/ Before(p, CommonPlace(g, n))
                        <=> p \in FirstOf(g, n))
         /\ p \in FirstOf(g, n) => h = g
<1>1. PICK t \in 1 .. s : p = CommonPlace(h, t)
  BY DEF FirstOf
<1>2. t \in Nat /\ 1 <= t
  OBVIOUS
<1>3. Nats({h, t, g, n})
  BY <1>2 DEF Nats
<1>4. Before(CommonPlace(h, t), CommonPlace(g, n)) <=> h < g \/ (h = g /\ t < n)
  BY <1>3, CommonCommon
<1>5. p = CommonPlace(g, n) <=> h = g /\ t = n
  BY <1>1, PlacesDiffer
<1>6. p \in FirstOf(g, n) <=> h = g /\ t \in 1 .. n
  <2>1. p \in FirstOf(g, n) => h = g /\ t \in 1 .. n
    <3> SUFFICES ASSUME NEW w \in 1 .. n, CommonPlace(h, t) = CommonPlace(g, w)
                 PROVE  h = g /\ t \in 1 .. n
      BY <1>1 DEF FirstOf
    <3>1. h = g /\ t = w
      BY PlacesDiffer
    <3> QED
      BY <3>1
  <2>2. h = g /\ t \in 1 .. n => p \in FirstOf(g, n)
    BY <1>1 DEF FirstOf
  <2> QED
    BY <2>1, <2>2
<1> QED
  BY <1>1, <1>2, <1>4, <1>5, <1>6

\* The places of a subnet's buildings.
OfBuildings(a, ipid) ==
  {p \in Places(a, ipid) :
     \E e \in 1 .. Len(a.buildList) :
       a.buildList[e].IPID = ipid /\ p \in BuildsPlaces(a.buildList[e])}

\* The first sum of CommonNumber counts the places of all buildings of the subnet.
LEMMA OfBuildingsCount ==
  ASSUME NEW a, AreaOK(a), NEW ipid, NEW f,
         f = [e \in DOMAIN a.buildList |->
                IF a.buildList[e].IPID = ipid THEN BuildsMachines(a.buildList[e]) ELSE 0]
  PROVE  /\ IsFiniteSet(OfBuildings(a, ipid))
         /\ Cardinality(OfBuildings(a, ipid)) = SumFunction(f)
<1> DEFINE n == Len(a.buildList)
           B(e) == a.buildList[e]
           S == [e \in 1 .. n |-> IF B(e).IPID = ipid THEN BuildsPlaces(B(e)) ELSE {}]
<1>1. n \in Nat /\ DOMAIN a.buildList = 1 .. n /\ \A e \in 1 .. n : BuildOK(B(e))
  BY BuildsOK
<1>2. ASSUME NEW e \in 1 .. n PROVE IsFiniteSet(S[e]) /\ Cardinality(S[e]) = f[e]
  <2>1. CASE B(e).IPID = ipid
    <3>1. S[e] = BuildsPlaces(B(e)) /\ f[e] = BuildsMachines(B(e))
      BY <1>1, <2>1
    <3> HIDE DEF S, B
    <3> QED
      BY <1>1, <3>1, BuildsCount
  <2>2. CASE B(e).IPID # ipid
    BY <1>1, <2>2, FS_EmptySet
  <2> QED
    BY <2>1, <2>2
<1>3. \A e, d \in 1 .. n : e # d => S[e] \cap S[d] = {}
  BY EntriesApart
<1>4. SumFunction(f) = SumFunctionOnSet(f, 1 .. n)
  BY <1>1 DEF SumFunction
<1>5. All(S, 1 .. n) = OfBuildings(a, ipid)
  <2>1. \A p : p \in All(S, 1 .. n)
                 <=> \E e \in 1 .. n : B(e).IPID = ipid /\ p \in BuildsPlaces(B(e))
    BY DEF All
  <2>2. \A p : p \in OfBuildings(a, ipid)
                 <=> \E e \in 1 .. n : B(e).IPID = ipid /\ p \in BuildsPlaces(B(e))
    BY InPlaces DEF OfBuildings
  <2> HIDE DEF S
  <2> QED
    BY <2>1, <2>2
<1> HIDE DEF S
<1>6. /\ IsFiniteSet(All(S, 1 .. n))
      /\ Cardinality(All(S, 1 .. n)) = SumFunctionOnSet(f, 1 .. n)
  BY <1>1, <1>2, <1>3, UnionSum
<1> QED
  BY <1>4, <1>5, <1>6

\* A subnet has finitely many places.
LEMMA PlacesFinite ==
  ASSUME NEW a, AreaOK(a), NEW ipid
  PROVE  IsFiniteSet(Places(a, ipid))
<1> DEFINE F(g) == FirstOf(g, a.guard[g].indexEnd)
           A == OfBuildings(a, ipid) \cup ((F(1) \cup F(2)) \cup F(3))
<1>1. ASSUME NEW g \in {1, 2, 3} PROVE IsFiniteSet(F(g)) /\ GuardPlaces(a, g) = F(g)
  <2>1. /\ a.guard[g].indexEnd \in Nat
        /\ GuardPlaces(a, g) = {CommonPlace(g, s) : s \in 1 .. a.guard[g].indexEnd}
    BY GuardFields
  <2> QED
    BY <2>1, FirstOfCount DEF FirstOf
<1>2. IsFiniteSet(OfBuildings(a, ipid))
  BY OfBuildingsCount
<1>3. Places(a, ipid) \subseteq A
  <2> SUFFICES ASSUME NEW p \in Places(a, ipid) PROVE p \in A
    OBVIOUS
  <2>1. CASE \E e \in 1 .. Len(a.buildList) :
               a.buildList[e].IPID = ipid /\ p \in BuildsPlaces(a.buildList[e])
    BY <2>1 DEF OfBuildings
  <2>2. CASE \E g \in {1, 2, 3} : p \in GuardPlaces(a, g)
    BY <1>1, <2>2
  <2> QED
    BY <2>1, <2>2, InPlaces
<1> HIDE DEF F
<1>4. IsFiniteSet(A)
  <2>1. IsFiniteSet(F(1)) /\ IsFiniteSet(F(2)) /\ IsFiniteSet(F(3))
    BY <1>1
  <2>2. IsFiniteSet((F(1) \cup F(2)) \cup F(3))
    BY <2>1, FS_Union
  <2> QED
    BY <1>2, <2>2, FS_Union
<1> QED
  BY <1>3, <1>4, FS_Subset

\* A legal code of a common machine names one that is there.
LEMMA LegalGuard ==
  ASSUME NEW a, AreaOK(a), NEW c \in CodeRec, Legal(a, c), c.type \in CommonType
  PROVE  /\ GuardOf(c.type) \in {1, 2, 3}
         /\ c.sub \in 1 .. a.guard[GuardOf(c.type)].indexEnd
<1>1. /\ c.type \in {MANAGER_TYPE, AREA_DOOR_TYPE, GUARD_TYPE}
      /\ c.sub \in a.guard[GuardOf(c.type)].indexBegin .. a.guard[GuardOf(c.type)].indexEnd
  BY TypesDiffer DEF Legal
<1>2. GuardOf(c.type) \in {1, 2, 3}
  BY <1>1 DEF GuardOf, MANAGER_TYPE, AREA_DOOR_TYPE, GUARD_TYPE, MANAGE, AREAGATE, GUARD
<1>3. a.guard[GuardOf(c.type)].indexBegin = 1
  BY <1>2, GuardFields
<1> QED
  BY <1>1, <1>2, <1>3

\* CommonNumber() is the rank of a common machine in its subnet.
LEMMA CommonRank ==
  ASSUME NEW a, AreaOK(a), NEW c \in CodeRec, Legal(a, c), c.type \in CommonType, NEW ipid,
         ipid = a.guard[GuardOf(c.type)].IPID
  PROVE  /\ IsFiniteSet(UpTo(Places(a, ipid), Place(c)))
         /\ Cardinality(UpTo(Places(a, ipid), Place(c))) = CommonNumber(a, c, ipid)
         /\ Place(c) \in Places(a, ipid)
<1> DEFINE n == Len(a.buildList)
           g0 == GuardOf(c.type)
           q == Place(c)
           B(e) == a.buildList[e]
           f == [e \in DOMAIN a.buildList |->
                   IF B(e).IPID = ipid THEN BuildsMachines(B(e)) ELSE 0]
           G == [g \in 1 .. g0 - 1 |-> GuardPlaces(a, g)]
           k == [g \in 1 .. g0 - 1 |-> Count(a.guard[g].indexBegin, a.guard[g].indexEnd)]
           L == OfBuildings(a, ipid)
           M == All(G, 1 .. g0 - 1)
           O == FirstOf(g0, c.sub)
<1>1. n \in Nat /\ DOMAIN a.buildList = 1 .. n /\ \A e \in 1 .. n : BuildOK(B(e))
  BY BuildsOK
<1>2. /\ g0 \in {1, 2, 3} /\ g0 \in Nat /\ g0 - 1 \in Nat
      /\ c.sub \in 1 .. a.guard[g0].indexEnd /\ c.sub \in Nat
  <2>1. g0 \in {1, 2, 3} /\ c.sub \in 1 .. a.guard[g0].indexEnd
    BY LegalGuard
  <2>2. c.sub \in Nat
    BY CodeFields
  <2> HIDE DEF g0
  <2> QED
    BY <2>1, <2>2
<1>3. q = CommonPlace(g0, c.sub)
  BY PlaceIs
<1>4. /\ \A g \in {1, 2, 3} : /\ a.guard[g].indexBegin = 1 /\ a.guard[g].indexEnd \in Nat
                              /\ a.guard[g].IPID = ipid
                              /\ GuardPlaces(a, g) = FirstOf(g, a.guard[g].indexEnd)
  BY <1>2, GuardFields DEF FirstOf
<1> HIDE DEF g0, q
<1>5. IsFiniteSet(L) /\ Cardinality(L) = SumFunction(f)
  BY OfBuildingsCount
<1>6. IsFiniteSet(M) /\ Cardinality(M) = SumFunction(k)
  <2>1. ASSUME NEW g \in 1 .. g0 - 1
        PROVE  g \in {1, 2, 3} /\ IsFiniteSet(G[g]) /\ Cardinality(G[g]) = k[g]
    <3>1. g \in {1, 2, 3}
      BY <1>2
    <3>2. G[g] = FirstOf(g, a.guard[g].indexEnd)
      BY <1>4, <3>1
    <3>3. a.guard[g].indexEnd \in Nat /\ a.guard[g].indexBegin = 1
      BY <1>4, <3>1
    <3>4. k[g] = a.guard[g].indexEnd
      BY <3>3 DEF Count
    <3> HIDE DEF G, k
    <3>5. IsFiniteSet(G[g]) /\ Cardinality(G[g]) = a.guard[g].indexEnd
      BY <3>2, <3>3, FirstOfCount
    <3> QED
      BY <3>1, <3>4, <3>5
  <2>2. ASSUME NEW g \in 1 .. g0 - 1, NEW h \in 1 .. g0 - 1, g # h PROVE G[g] \cap G[h] = {}
    <3>1. g \in {1, 2, 3} /\ h \in {1, 2, 3}
      BY <2>1
    <3>2. G[g] = FirstOf(g, a.guard[g].indexEnd) /\ G[h] = FirstOf(h, a.guard[h].indexEnd)
      BY <1>4, <3>1
    <3> HIDE DEF G
    <3> QED
      BY <2>2, <3>2, PlacesDiffer DEF FirstOf
  <2>3. SumFunction(k) = SumFunctionOnSet(k, 1 .. g0 - 1)
    BY DEF SumFunction
  <2> HIDE DEF G, k
  <2> QED
    BY <1>2, <2>1, <2>2, <2>3, UnionSum
<1>7. IsFiniteSet(O) /\ Cardinality(O) = c.sub
  BY <1>2, FirstOfCount
<1>8. ASSUME NEW p \in L
      PROVE  /\ p \in Places(a, ipid) /\ Before(p, q)
             /\ \A h \in Nat, s \in Nat : p # CommonPlace(h, s)
  <2>1. PICK e \in 1 .. n : B(e).IPID = ipid /\ p \in BuildsPlaces(B(e))
    BY DEF OfBuildings
  <2>2. PICK x \in Nat, y \in Nat : In(p, x, y)
    BY <1>1, <2>1, InBuilds
  <2>3. p \in Places(a, ipid)
    BY DEF OfBuildings
  <2>4. \A h \in Nat, s \in Nat : p # CommonPlace(h, s) /\ Before(p, CommonPlace(h, s))
    BY <2>2, MachineFirst
  <2> QED
    BY <1>2, <1>3, <2>3, <2>4
<1>9. ASSUME NEW p, p \in Places(a, ipid)
      PROVE  p \in L \/ \E g \in {1, 2, 3} : p \in FirstOf(g, a.guard[g].indexEnd)
  <2>1. CASE \E e \in 1 .. n : B(e).IPID = ipid /\ p \in BuildsPlaces(B(e))
    BY <1>9, <2>1 DEF OfBuildings
  <2>2. CASE \E g \in {1, 2, 3} : p \in GuardPlaces(a, g)
    BY <1>4, <2>2
  <2> QED
    BY <1>9, <2>1, <2>2, InPlaces
<1>10. ASSUME NEW g \in {1, 2, 3}, NEW p \in FirstOf(g, a.guard[g].indexEnd)
       PROVE  /\ p \in Places(a, ipid)
              /\ g < g0 => Before(p, q)
              /\ g0 < g => ~(p = q \/ Before(p, q))
              /\ g = g0 => (p = q \/ Before(p, q) <=> p \in O)
              /\ p \in O => g = g0
  <2>1. p \in Places(a, ipid)
    BY <1>4, InPlaces
  <2>2. g \in Nat /\ a.guard[g].indexEnd \in Nat
    BY <1>4
  <2> QED
    BY <1>2, <1>3, <2>1, <2>2, CommonOrder
<1>11. \A p : p \in M <=> \E g \in 1 .. g0 - 1 : p \in FirstOf(g, a.guard[g].indexEnd)
  <2>1. \A g \in 1 .. g0 - 1 : g \in {1, 2, 3}
    BY <1>2
  <2>2. \A g \in 1 .. g0 - 1 : G[g] = FirstOf(g, a.guard[g].indexEnd)
    BY <1>4, <2>1
  <2> HIDE DEF G
  <2>3. \A p : p \in M <=> \E g \in 1 .. g0 - 1 : p \in G[g]
    BY DEF All
  <2> HIDE DEF M
  <2> QED
    BY <2>2, <2>3
<1>12. O \subseteq FirstOf(g0, a.guard[g0].indexEnd)
  <2>1. c.sub <= a.guard[g0].indexEnd /\ a.guard[g0].indexEnd \in Nat
    BY <1>2, <1>4
  <2>2. \A s \in 1 .. c.sub : s \in 1 .. a.guard[g0].indexEnd
    BY <1>2, <2>1
  <2> QED
    BY <2>2 DEF FirstOf
<1> HIDE DEF f, G, k, L, M, O, B, n
<1>13. UpTo(Places(a, ipid), q) = (L \cup M) \cup O
  <2>1. ASSUME NEW p, p \in UpTo(Places(a, ipid), q) PROVE p \in (L \cup M) \cup O
    <3>1. p \in Places(a, ipid) /\ (p = q \/ Before(p, q))
      BY <2>1 DEF UpTo
    <3>2. SUFFICES ASSUME p \notin L PROVE p \in M \cup O
      OBVIOUS
    <3>3. PICK g \in {1, 2, 3} : p \in FirstOf(g, a.guard[g].indexEnd)
      BY <1>9, <3>1, <3>2
    <3>4. ~(g0 < g) /\ (g = g0 => p \in O)
      BY <1>10, <3>1, <3>3
    <3>5. g < g0 => g \in 1 .. g0 - 1
      BY <1>2
    <3>6. g < g0 => p \in M
      BY <1>11, <3>3, <3>5
    <3> QED
      BY <1>2, <3>4, <3>6
  <2>2. ASSUME NEW p \in L PROVE p \in UpTo(Places(a, ipid), q)
    BY <1>8 DEF UpTo
  <2>3. ASSUME NEW p \in M PROVE p \in UpTo(Places(a, ipid), q)
    <3>1. PICK g \in 1 .. g0 - 1 : p \in FirstOf(g, a.guard[g].indexEnd)
      BY <1>11
    <3>2. g \in {1, 2, 3} /\ g < g0
      BY <1>2
    <3> QED
      BY <1>10, <3>1, <3>2 DEF UpTo
  <2>4. ASSUME NEW p \in O PROVE p \in UpTo(Places(a, ipid), q)
    BY <1>2, <1>10, <1>12 DEF UpTo
  <2> QED
    BY <2>1, <2>2, <2>3, <2>4
<1>14. L \cap M = {} /\ L \cap O = {} /\ M \cap O = {}
  <2>1. ASSUME NEW p \in L PROVE p \notin M /\ p \notin O
    <3>1. ASSUME NEW g \in Nat, NEW s, p \in FirstOf(g, s) PROVE FALSE
      <4>1. PICK t \in 1 .. s : p = CommonPlace(g, t)
        BY <3>1 DEF FirstOf
      <4>2. t \in Nat
        BY <4>1
      <4> QED
        BY <1>8, <4>1, <4>2
    <3>2. p \notin M
      BY <1>2, <1>11, <3>1
    <3>3. p \notin O
      BY <1>2, <3>1 DEF O
    <3> QED
      BY <3>2, <3>3
  <2>2. ASSUME NEW p \in M PROVE p \notin O
    <3>1. PICK g \in 1 .. g0 - 1 : p \in FirstOf(g, a.guard[g].indexEnd)
      BY <1>11
    <3>2. g \in {1, 2, 3} /\ g # g0
      BY <1>2
    <3> QED
      BY <1>10, <3>1, <3>2
  <2> QED
    BY <2>1, <2>2
<1>15. /\ IsFiniteSet(L \cup M)
       /\ Cardinality(L \cup M) = Cardinality(L) + Cardinality(M)
  BY <1>5, <1>6, <1>14, Together
<1>16. /\ IsFiniteSet((L \cup M) \cup O)
       /\ Cardinality((L \cup M) \cup O) = Cardinality(L \cup M) + Cardinality(O)
  <2>1. (L \cup M) \cap O = {}
    BY <1>14
  <2> QED
    BY <1>7, <1>15, <2>1, Together
<1>17. CommonNumber(a, c, ipid) = SumFunction(f) + SumFunction(k) + c.sub
  BY DEF CommonNumber, f, k, B, g0
<1>18. q \in Places(a, ipid)
  <2>1. q \in FirstOf(g0, a.guard[g0].indexEnd)
    BY <1>2, <1>3 DEF FirstOf
  <2> QED
    BY <1>2, <1>10, <2>1
<1>19. Cardinality((L \cup M) \cup O) = CommonNumber(a, c, ipid)
  BY <1>5, <1>6, <1>7, <1>15, <1>16, <1>17
<1> QED
  BY <1>13, <1>16, <1>18, <1>19 DEF q
-----------------------------------------------------------------------------
(***************************************************************************)
(* The order is total, so the number of places up to one tells it from the *)
(* others; what that says of initMachineInfo().                            *)
(***************************************************************************)
\* The order of places is a total order on the places of a subnet.
LEMMA PlaceSeq ==
  ASSUME NEW a, AreaOK(a), NEW ipid, NEW p \in Places(a, ipid)
  PROVE  /\ p \in Seq(Nat)
         /\ \/ \E x, y \in Nat : In(p, x, y)
            \/ \E g, s \in Nat : p = CommonPlace(g, s)
<1>1. CASE \E i \in 1 .. Len(a.buildList) : p \in BuildsPlaces(a.buildList[i])
  <2>1. PICK x \in Nat, y \in Nat : In(p, x, y)
    BY <1>1, BuildsOK, InBuilds
  <2>2. p \in Seq(Nat)
    <3>1. CASE \E t \in Nat : p = DoorPlace(x, y, t)
      BY <3>1 DEF DoorPlace
    <3>2. CASE \E f, r, k, u \in Nat : p = UnitPlace(x, y, f, r, k, u)
      BY <3>2 DEF UnitPlace
    <3> QED
      BY <2>1, <3>1, <3>2 DEF In
  <2> QED
    BY <2>1, <2>2
<1>2. CASE \E g \in {1, 2, 3} : p \in GuardPlaces(a, g)
  <2>1. PICK g \in {1, 2, 3} : p \in GuardPlaces(a, g)
    BY <1>2
  <2>2. PICK s \in 1 .. a.guard[g].indexEnd : p = CommonPlace(g, s)
    BY <2>1, GuardFields
  <2>3. g \in Nat /\ s \in Nat
    OBVIOUS
  <2>4. p \in Seq(Nat)
    BY <2>2, <2>3 DEF CommonPlace
  <2> QED
    BY <2>2, <2>3, <2>4
<1> QED
  BY <1>1, <1>2, InPlaces

LEMMA Irreflexive ==
  ASSUME NEW p \in Seq(Nat) PROVE ~Before(p, p)
<1>1. \A i \in DOMAIN p : ~(p[i] < p[i])
  OBVIOUS
<1> QED
  BY <1>1, FirstDifference

LEMMA Transitive ==
  ASSUME NEW p \in Seq(Nat), NEW q \in Seq(Nat), NEW r \in Seq(Nat), Before(p, q), Before(q, r)
  PROVE  Before(p, r)
<1>1. PICK i \in DOMAIN p \cap DOMAIN q : p[i] < q[i] /\ \A j \in 1 .. i - 1 : p[j] = q[j]
  BY FirstDifference
<1>2. PICK j \in DOMAIN q \cap DOMAIN r : q[j] < r[j] /\ \A k \in 1 .. j - 1 : q[k] = r[k]
  BY FirstDifference
<1>3. /\ DOMAIN p = 1 .. Len(p) /\ DOMAIN q = 1 .. Len(q) /\ DOMAIN r = 1 .. Len(r)
      /\ Len(p) \in Nat /\ Len(q) \in Nat /\ Len(r) \in Nat
      /\ \A k \in DOMAIN p : p[k] \in Nat
      /\ \A k \in DOMAIN q : q[k] \in Nat
      /\ \A k \in DOMAIN r : r[k] \in Nat
  OBVIOUS
<1>4. \E m \in DOMAIN p \cap DOMAIN r : p[m] < r[m] /\ \A k \in 1 .. m - 1 : p[k] = r[k]
  <2>1. i \in Nat /\ j \in Nat
    BY <1>3
  <2>2. CASE i = j
    <3>1. p[i] < r[i]
      BY <1>1, <1>2, <1>3, <2>2
    <3>2. \A k \in 1 .. i - 1 : p[k] = r[k]
      BY <1>1, <1>2, <2>2
    <3> QED
      BY <1>1, <1>2, <2>2, <3>1, <3>2
  <2>3. CASE i < j
    <3>1. i \in 1 .. j - 1 /\ \A k \in 1 .. i - 1 : k \in 1 .. j - 1
      BY <1>3, <2>1, <2>3
    <3>2. p[i] < r[i] /\ \A k \in 1 .. i - 1 : p[k] = r[k]
      BY <1>1, <1>2, <3>1
    <3>3. i \in DOMAIN p \cap DOMAIN r
      BY <1>3, <2>1, <2>3
    <3> QED
      BY <3>2, <3>3
  <2>4. CASE j < i
    <3>1. j \in 1 .. i - 1 /\ \A k \in 1 .. j - 1 : k \in 1 .. i - 1
      BY <1>3, <2>1, <2>4
    <3>2. p[j] < r[j] /\ \A k \in 1 .. j - 1 : p[k] = r[k]
      BY <1>1, <1>2, <3>1
    <3>3. j \in DOMAIN p \cap DOMAIN r
      BY <1>3, <2>1, <2>4
    <3> QED
      BY <3>2, <3>3
  <2> QED
    BY <2>1, <2>2, <2>3, <2>4
<1> QED
  BY <1>4, FirstDifference

\* Of two places of a cell one comes before the other; so it is in a subnet.
LEMMA TotalInCell ==
  ASSUME NEW x, NEW y, NEW p, NEW q, In(p, x, y), In(q, x, y), p # q
  PROVE  Before(p, q) \/ Before(q, p)
<1>0. x \in Nat /\ y \in Nat
  BY DEF In
<1>1. CASE \E s, t \in Nat : p = DoorPlace(x, y, s) /\ q = DoorPlace(x, y, t)
  <2>1. PICK s \in Nat, t \in Nat : p = DoorPlace(x, y, s) /\ q = DoorPlace(x, y, t)
    BY <1>1
  <2>2. Nats({x, y, s, x, y, t}) /\ Nats({x, y, t, x, y, s})
    BY <1>0 DEF Nats
  <2>3. /\ Before(DoorPlace(x, y, s), DoorPlace(x, y, t))
             <=> x < x \/ (x = x /\ (y < y \/ (y = y /\ s < t)))
        /\ Before(DoorPlace(x, y, t), DoorPlace(x, y, s))
             <=> x < x \/ (x = x /\ (y < y \/ (y = y /\ t < s)))
    BY <2>2, DoorDoor
  <2>4. s # t
    BY <2>1
  <2> QED
    BY <2>1, <2>3, <2>4
<1>2. ASSUME NEW s \in Nat, NEW f \in Nat, NEW r \in Nat, NEW k \in Nat, NEW u \in Nat
      PROVE  Before(DoorPlace(x, y, s), UnitPlace(x, y, f, r, k, u))
  <2>1. Nats({x, y, s, x, y, f, r, k, u})
    BY <1>0 DEF Nats
  <2>2. Before(DoorPlace(x, y, s), UnitPlace(x, y, f, r, k, u)) <=> x < x \/ (x = x /\ y <= y)
    BY <2>1, DoorUnit
  <2> QED
    BY <1>0, <2>2
<1>3. CASE \E f, r, k, u, ff, rr, kk, uu \in Nat :
             p = UnitPlace(x, y, f, r, k, u) /\ q = UnitPlace(x, y, ff, rr, kk, uu)
  <2>1. PICK f \in Nat, r \in Nat, k \in Nat, u \in Nat,
             ff \in Nat, rr \in Nat, kk \in Nat, uu \in Nat :
             p = UnitPlace(x, y, f, r, k, u) /\ q = UnitPlace(x, y, ff, rr, kk, uu)
    BY <1>3
  <2>2. Nats({x, y, f, r, k, u, x, y, ff, rr, kk, uu})
          /\ Nats({x, y, ff, rr, kk, uu, x, y, f, r, k, u})
    BY <1>0 DEF Nats
  <2>3. Before(UnitPlace(x, y, f, r, k, u), UnitPlace(x, y, ff, rr, kk, uu))
          <=> x < x \/ (x = x /\ (y < y \/ (y = y /\ (f < ff \/ (f = ff
                /\ (r < rr \/ (r = rr /\ (k < kk \/ (k = kk /\ u < uu)))))))))
    BY <2>2, UnitUnit
  <2>4. Before(UnitPlace(x, y, ff, rr, kk, uu), UnitPlace(x, y, f, r, k, u))
          <=> x < x \/ (x = x /\ (y < y \/ (y = y /\ (ff < f \/ (ff = f
                /\ (rr < r \/ (rr = r /\ (kk < k \/ (kk = k /\ uu < u)))))))))
    BY <2>2, UnitUnit
  <2>5. ~(f = ff /\ r = rr /\ k = kk /\ u = uu)
    BY <2>1
  <2> QED
    BY <2>1, <2>3, <2>4, <2>5
<1>4. CASE /\ \E s \in Nat : p = DoorPlace(x, y, s)
         /\ \E f, r, k, u \in Nat : q = UnitPlace(x, y, f, r, k, u)
  BY <1>2, <1>4
<1>5. CASE /\ \E s \in Nat : q = DoorPlace(x, y, s)
         /\ \E f, r, k, u \in Nat : p = UnitPlace(x, y, f, r, k, u)
  BY <1>2, <1>5
<1>6. CASE /\ \E s \in Nat : p = DoorPlace(x, y, s)
         /\ \E s \in Nat : q = DoorPlace(x, y, s)
  <2>1. PICK s \in Nat : p = DoorPlace(x, y, s)
    BY <1>6
  <2>2. PICK t \in Nat : q = DoorPlace(x, y, t)
    BY <1>6
  <2> QED
    BY <1>1, <2>1, <2>2
<1>7. CASE /\ \E f, r, k, u \in Nat : p = UnitPlace(x, y, f, r, k, u)
         /\ \E f, r, k, u \in Nat : q = UnitPlace(x, y, f, r, k, u)
  <2>1. PICK f \in Nat, r \in Nat, k \in Nat, u \in Nat : p = UnitPlace(x, y, f, r, k, u)
    BY <1>7
  <2>2. PICK ff \in Nat, rr \in Nat, kk \in Nat, uu \in Nat :
               q = UnitPlace(x, y, ff, rr, kk, uu)
    BY <1>7
  <2> QED
    BY <1>3, <2>1, <2>2
<1>8. \/ \E s \in Nat : p = DoorPlace(x, y, s)
     \/ \E f, r, k, u \in Nat : p = UnitPlace(x, y, f, r, k, u)
  BY DEF In
<1>9. \/ \E s \in Nat : q = DoorPlace(x, y, s)
     \/ \E f, r, k, u \in Nat : q = UnitPlace(x, y, f, r, k, u)
  BY DEF In
<1> QED
  BY <1>4, <1>5, <1>6, <1>7, <1>8, <1>9

LEMMA Total ==
  ASSUME NEW a, AreaOK(a), NEW ipid, NEW p \in Places(a, ipid), NEW q \in Places(a, ipid), p # q
  PROVE  Before(p, q) \/ Before(q, p)
<1>1. ASSUME NEW x, NEW y, NEW z, NEW w, In(p, x, y), In(q, z, w)
      PROVE  Before(p, q) \/ Before(q, p)
  <2>1. x \in Nat /\ y \in Nat /\ z \in Nat /\ w \in Nat
    BY <1>1 DEF In
  <2>2. CASE x = z /\ y = w
    BY <1>1, <2>2, TotalInCell
  <2>3. CASE x < z \/ (x = z /\ y < w)
    BY <1>1, <2>3, CellOrder
  <2>4. CASE z < x \/ (z = x /\ w < y)
    BY <1>1, <2>4, CellOrder
  <2> QED
    BY <2>1, <2>2, <2>3, <2>4
<1>2. ASSUME NEW g \in Nat, NEW s \in Nat, NEW h \in Nat, NEW t \in Nat,
             p = CommonPlace(g, s), q = CommonPlace(h, t)
      PROVE  Before(p, q) \/ Before(q, p)
  <2>1. Nats({g, s, h, t}) /\ Nats({h, t, g, s})
    BY DEF Nats
  <2>2. /\ Before(CommonPlace(g, s), CommonPlace(h, t)) <=> g < h \/ (g = h /\ s < t)
        /\ Before(CommonPlace(h, t), CommonPlace(g, s)) <=> h < g \/ (h = g /\ t < s)
    BY <2>1, CommonCommon
  <2>3. ~(g = h /\ s = t)
    BY <1>2
  <2> QED
    BY <1>2, <2>2, <2>3
<1>3. ASSUME NEW x, NEW y, NEW g \in Nat, NEW s \in Nat, In(p, x, y), q = CommonPlace(g, s)
      PROVE  Before(p, q)
  BY <1>3, MachineFirst
<1>4. ASSUME NEW x, NEW y, NEW g \in Nat, NEW s \in Nat, In(q, x, y), p = CommonPlace(g, s)
      PROVE  Before(q, p)
  BY <1>4, MachineFirst
<1>5. /\ (\E x, y \in Nat : In(p, x, y)) \/ (\E g, s \in Nat : p = CommonPlace(g, s))
      /\ (\E x, y \in Nat : In(q, x, y)) \/ (\E g, s \in Nat : q = CommonPlace(g, s))
  BY PlaceSeq
<1> QED
  BY <1>1, <1>2, <1>3, <1>4, <1>5

\* The number of places up to one tells it from the others.
LEMMA RankTells ==
  ASSUME NEW a, AreaOK(a), NEW ipid, NEW p \in Places(a, ipid), NEW q \in Places(a, ipid), p # q
  PROVE  Cardinality(UpTo(Places(a, ipid), p)) # Cardinality(UpTo(Places(a, ipid), q))
<1> DEFINE P == Places(a, ipid)
<1>1. \A r \in P : r \in Seq(Nat)
  BY PlaceSeq
<1>2. IsFiniteSet(P)
  BY PlacesFinite
<1>3. ASSUME NEW r \in P, NEW s \in P, r # s, Before(r, s)
      PROVE  Cardinality(UpTo(P, r)) # Cardinality(UpTo(P, s))
  <2>1. UpTo(P, r) \subseteq UpTo(P, s)
    BY <1>1, <1>3, Transitive DEF UpTo
  <2>2. s \in UpTo(P, s)
    BY DEF UpTo
  <2>3. s \notin UpTo(P, r)
    <3>1. ~Before(s, r)
      BY <1>1, <1>3, Transitive, Irreflexive
    <3> QED
      BY <1>3, <3>1 DEF UpTo
  <2>4. IsFiniteSet(UpTo(P, s))
    BY <1>2, FS_Subset DEF UpTo
  <2> HIDE DEF P
  <2> QED
    BY <2>1, <2>2, <2>3, <2>4, FS_Subset
<1>4. Before(p, q) \/ Before(q, p)
  BY Total
<1> QED
  BY <1>3, <1>4

\* What initMachineInfo() says of a legal code.
LEMMA Numbered ==
  ASSUME NEW a, AreaOK(a), NEW c \in CodeRec, Legal(a, c), NEW info,
         info = initMachineInfo(a, c)
  PROVE  /\ info.number = Cardinality(UpTo(Places(a, info.IPID), Place(c)))
         /\ Place(c) \in Places(a, info.IPID)
         /\ info.number \in Nat /\ info.number > 0
         /\ info.number <= Cardinality(Places(a, info.IPID))
         /\ info.ipAddress = calculationIP(a, info.number, info.IPID, NoAddress)
         /\ \/ info.IPID = a.guard[1].IPID
            \/ \E i \in 1 .. Len(a.buildList) : info.IPID = a.buildList[i].IPID
<1> DEFINE ipid == info.IPID
           P == Places(a, ipid)
<1>1. /\ info.number = Cardinality(UpTo(P, Place(c))) /\ Place(c) \in P
      /\ info.ipAddress = calculationIP(a, info.number, ipid, NoAddress)
      /\ \/ ipid = a.guard[1].IPID
         \/ \E i \in 1 .. Len(a.buildList) : ipid = a.buildList[i].IPID
  <2>1. CASE c.type \in CommonType
    <3>1. /\ ipid = a.guard[GuardOf(c.type)].IPID
          /\ info.number = CommonNumber(a, c, ipid)
          /\ info.ipAddress = calculationIP(a, info.number, ipid, NoAddress)
      BY <2>1 DEF initMachineInfo
    <3>2. ipid = a.guard[1].IPID
      BY <2>1, <3>1, LegalGuard, GuardFields
    <3>3. Cardinality(UpTo(P, Place(c))) = CommonNumber(a, c, ipid) /\ Place(c) \in P
      <4> HIDE DEF ipid
      <4> QED
        BY <2>1, <3>1, CommonRank
    <3> QED
      BY <3>1, <3>2, <3>3
  <2>2. CASE c.type \notin CommonType
    <3>1. /\ ipid = BuildOf(a, c).IPID
          /\ info.number = NumberInSubnet(a, c, ipid)
          /\ info.ipAddress = calculationIP(a, info.number, ipid, NoAddress)
      BY <2>2 DEF initMachineInfo
    <3>2. \E i \in 1 .. Len(a.buildList) : ipid = a.buildList[i].IPID
      <4>1. PICK i \in 1 .. Len(a.buildList) : BuildOf(a, c) = a.buildList[i]
        BY <2>2, LegalEntry
      <4> QED
        BY <3>1, <4>1
    <3>3. Cardinality(UpTo(P, Place(c))) = NumberInSubnet(a, c, ipid) /\ Place(c) \in P
      <4> HIDE DEF ipid
      <4> QED
        BY <2>2, <3>1, SubnetRank
    <3> QED
      BY <3>1, <3>2, <3>3
  <2> QED
    BY <2>1, <2>2
<1>2. IsFiniteSet(P)
  BY PlacesFinite
<1> HIDE DEF P, ipid
<1>3. /\ Place(c) \in UpTo(P, Place(c)) /\ UpTo(P, Place(c)) \in SUBSET P
  BY <1>1 DEF UpTo
<1>4. /\ IsFiniteSet(UpTo(P, Place(c)))
      /\ Cardinality(UpTo(P, Place(c))) <= Cardinality(P)
      /\ Cardinality(UpTo(P, Place(c))) \in Nat
  BY <1>2, <1>3, FS_Subset, FS_CardinalityType
<1>5. Cardinality(UpTo(P, Place(c))) # 0
  BY <1>3, <1>4, FS_EmptySet
<1> QED
  BY <1>1, <1>4, <1>5 DEF P, ipid

\* A code that is not legal gets the number 0.
LEMMA NotNumbered ==
  ASSUME NEW a, NEW c, ~Legal(a, c) PROVE initMachineInfo(a, c).number = 0
BY DEF initMachineInfo, NoInfo

\* The places before one are those up to it without itself.
LEMMA BelowAndItself ==
  ASSUME NEW a, AreaOK(a), NEW ipid, NEW q \in Places(a, ipid)
  PROVE  Cardinality(UpTo(Places(a, ipid), q))
           = 1 + Cardinality({p \in Places(a, ipid) : Before(p, q)})
<1> DEFINE P == Places(a, ipid)
           S == {p \in P : Before(p, q)}
<1>1. IsFiniteSet(S) /\ Cardinality(S) \in Nat
  <2>1. IsFiniteSet(P) /\ S \in SUBSET P
    BY PlacesFinite
  <2> QED
    BY <2>1, FS_Subset, FS_CardinalityType
<1>2. q \notin S
  BY PlaceSeq, Irreflexive
<1>3. UpTo(P, q) = S \cup {q}
  BY DEF UpTo
<1> HIDE DEF P, S
<1>4. Cardinality(S \cup {q}) = Cardinality(S) + 1
  BY <1>1, <1>2, FS_AddElement
<1> QED
  BY <1>1, <1>3, <1>4 DEF P, S

\* The address of a number: that of the last net item of the subnet.
LEMMA AddressIs ==
  ASSUME NEW a, AreaOK(a), Fits(a), NEW ipid,
         ipid \in {a.guard[1].IPID} \cup {a.buildList[i].IPID : i \in 1 .. Len(a.buildList)}
  PROVE  \E h, l \in Byte :
           /\ Cardinality(Places(a, ipid)) + l <= 508
           /\ \A n \in Nat : n > 0 => calculationIP(a, n, ipid, NoAddress) = IpBytes(<<h, l>>, n)
<1> DEFINE items == {i \in DOMAIN a.netItem : a.netItem[i].IPID = ipid}
           k == Max(items)
<1>1. /\ a.netItem \in Seq([IPID : Nat, netStart : Byte \X Byte])
      /\ a.buildList \in Seq([IPID : Nat, buildBegin : Nat, buildEnd : Nat,
                              cellList : Seq(CellRec)])
  BY DEF AreaOK, AreaTypeOK
<1>2. DOMAIN a.netItem = 1 .. Len(a.netItem) /\ Len(a.netItem) \in Nat
      /\ DOMAIN a.buildList = 1 .. Len(a.buildList)
  BY <1>1
<1>3. items # {}
  <2>1. ipid \in {a.netItem[i].IPID : i \in DOMAIN a.netItem}
    BY <1>2 DEF AreaOK, SubnetsGiven, MANAGE
  <2> QED
    BY <2>1
<1>4. items \in SUBSET Nat /\ \A i \in items : i <= Len(a.netItem)
  BY <1>2
<1>5. k \in items
  <2> HIDE DEF items
  <2> QED
    BY <1>2, <1>3, <1>4, Greatest
<1>6. /\ a.netItem[k].netStart \in Byte \X Byte /\ a.netItem[k].IPID = ipid
      /\ k \in DOMAIN a.netItem
  <2>1. k \in DOMAIN a.netItem /\ a.netItem[k].IPID = ipid
    <3> HIDE DEF k
    <3> QED
      BY <1>5
  <2> HIDE DEF k, items
  <2>2. \A i \in DOMAIN a.netItem : a.netItem[i] \in [IPID : Nat, netStart : Byte \X Byte]
    <3> DEFINE N == [IPID : Nat, netStart : Byte \X Byte]
    <3>1. a.netItem \in Seq(N)
      BY <1>1
    <3> HIDE DEF N
    <3>2. \A i \in DOMAIN a.netItem : a.netItem[i] \in N
      BY <3>1
    <3> QED
      BY <3>2 DEF N
  <2>3. a.netItem[k] \in [IPID : Nat, netStart : Byte \X Byte]
    BY <2>1, <2>2
  <2> QED
    BY <2>1, <2>3
<1>7. \A n \in Nat : n > 0 =>
        calculationIP(a, n, ipid, NoAddress) = IpBytes(a.netItem[k].netStart, n)
  BY <1>3 DEF calculationIP
<1> HIDE DEF items, k
<1>8. Cardinality(Places(a, ipid)) + a.netItem[k].netStart[2] <= 508
  BY <1>6 DEF Fits
<1> DEFINE s == a.netItem[k].netStart
<1>9. s[1] \in Byte /\ s[2] \in Byte /\ s = <<s[1], s[2]>>
  BY <1>6
<1> QED
  BY <1>7, <1>8, <1>9

\* Two machines of a subnet have two addresses.
LEMMA TwoAddresses ==
  ASSUME NEW a, AreaOK(a), Fits(a),
         NEW c \in CodeRec, Legal(a, c), NEW e \in CodeRec, Legal(a, e), NEW i, NEW j,
         i = initMachineInfo(a, c), j = initMachineInfo(a, e),
         i.IPID = j.IPID, Place(c) # Place(e)
  PROVE  i.ipAddress # j.ipAddress
<1> DEFINE P == Places(a, i.IPID)
<1>1. /\ i.number = Cardinality(UpTo(P, Place(c))) /\ Place(c) \in P
      /\ i.number \in Nat /\ i.number > 0 /\ i.number <= Cardinality(P)
      /\ i.ipAddress = calculationIP(a, i.number, i.IPID, NoAddress)
      /\ i.IPID \in {a.guard[1].IPID} \cup {a.buildList[k].IPID : k \in 1 .. Len(a.buildList)}
  BY Numbered
<1>2. /\ j.number = Cardinality(UpTo(P, Place(e))) /\ Place(e) \in P
      /\ j.number \in Nat /\ j.number > 0 /\ j.number <= Cardinality(P)
      /\ j.ipAddress = calculationIP(a, j.number, i.IPID, NoAddress)
  BY Numbered
<1>3. i.number # j.number
  BY <1>1, <1>2, RankTells
<1>4. Cardinality(P) \in Nat
  BY PlacesFinite, FS_CardinalityType
<1> HIDE DEF P
<1>5. PICK h \in Byte, l \in Byte :
        /\ Cardinality(P) + l <= 508
        /\ \A n \in Nat : n > 0 => calculationIP(a, n, i.IPID, NoAddress) = IpBytes(<<h, l>>, n)
  BY <1>1, AddressIs DEF P
<1>6. i.number + l <= 508 /\ j.number + l <= 508
  BY <1>1, <1>2, <1>4, <1>5 DEF Byte
<1> QED
  BY <1>1, <1>2, <1>3, <1>5, <1>6, AddressOfOne

\* What the last call was about.
LastInv ==
  /\ AreaOK(area)
  /\ last.call = "initMachineInfo" =>
       last.code \in CodeRec /\ last.info = initMachineInfo(area, last.code)

\* Packing and parsing a code gives a code.
LEMMA CodeStays ==
  ASSUME NEW c \in CodeRec PROVE GENERATE_MACHINE_CODE(c) \in CodeRec
<1>1. c.cell % 16 \in Nat
  BY CodeFields
<1> QED
  BY <1>1 DEF GENERATE_MACHINE_CODE, CodeRec

\* The codes looked up are codes.
LEMMA CodesOK == Codes \subseteq CodeRec
BY CodesAssumption DEF CodeRec

\* The last call is one of an area and a code that the assumptions allow, for ever:
\* the invariant the properties need.
THEOREM LastInvariant == Spec => []LastInv
<1>1. Init => LastInv
  BY AreasAssumption DEF Init, LastInv, AreaOK
<1>2. LastInv /\ [Next]_vars => LastInv'
  <2> SUFFICES ASSUME LastInv, [Next]_vars PROVE LastInv'
    OBVIOUS
  <2>1. ASSUME NEW c \in Codes, Resolve(c) PROVE LastInv'
    <3>1. GENERATE_MACHINE_CODE(c) \in CodeRec
      BY CodeStays, CodesOK
    <3> QED
      BY <2>1, <3>1 DEF LastInv, Resolve
  <2>2. ASSUME NEW type \in Type, Find(type) PROVE LastInv'
    BY <2>2 DEF LastInv, Find
  <2>3. ASSUME NEW floor, NEW room, roomIdGetIP(floor, room) PROVE LastInv'
    BY <2>3 DEF LastInv, roomIdGetIP
  <2>4. CASE UNCHANGED vars
    BY <2>4 DEF LastInv, vars
  <2> QED
    BY <2>1, <2>2, <2>3, <2>4 DEF Next
<1> QED
  BY <1>1, <1>2, PTL DEF Spec

\* A code that is resolved is a legal one.
LEMMA ResolvedIsLegal ==
  ASSUME LastInv, Resolved
  PROVE  /\ last.code \in CodeRec /\ Legal(area, last.code)
         /\ last.info = initMachineInfo(area, last.code)
<1>1. last.code \in CodeRec /\ last.info = initMachineInfo(area, last.code)
  BY DEF LastInv, Resolved
<1>2. Legal(area, last.code)
  <2> SUFFICES ASSUME ~Legal(area, last.code) PROVE FALSE
    OBVIOUS
  <2>1. last.info.number = 0
    BY <1>1, NotNumbered
  <2> QED
    BY <2>1 DEF Resolved
<1> QED
  BY <1>1, <1>2

\* Every machine's number is its rank in its subnet, for every area.
THEOREM NumbersAreRanks == Spec => []NumberIsRank
<1>1. LastInv => NumberIsRank
  <2> SUFFICES ASSUME LastInv, Resolved
               PROVE  last.info.number = 1 + Cardinality(
                        {p \in Places(area, last.info.IPID) : Before(p, Place(last.code))})
    BY DEF NumberIsRank
  <2>1. /\ AreaOK(area) /\ last.code \in CodeRec /\ Legal(area, last.code)
        /\ last.info = initMachineInfo(area, last.code)
    BY ResolvedIsLegal DEF LastInv
  <2>2. /\ last.info.number
             = Cardinality(UpTo(Places(area, last.info.IPID), Place(last.code)))
        /\ Place(last.code) \in Places(area, last.info.IPID)
    BY <2>1, Numbered
  <2> QED
    BY <2>1, <2>2, BelowAndItself
<1> QED
  BY <1>1, LastInvariant, PTL

\* Two machines of a subnet never have the same address.
THEOREM NoAddressTwice == Spec => AddressesDistinct
<1> DEFINE Goal == (/\ Fits(area)
                    /\ Resolved /\ Resolved' /\ last.info.IPID = last'.info.IPID
                    /\ Place(last.code) # Place(last'.code))
                   => last.info.ipAddress # last'.info.ipAddress
<1>1. LastInv /\ LastInv' /\ [Next]_vars => [Goal]_vars
  <2> SUFFICES ASSUME LastInv, LastInv', Next,
                      Fits(area), Resolved, Resolved', last.info.IPID = last'.info.IPID,
                      Place(last.code) # Place(last'.code)
               PROVE  last.info.ipAddress # last'.info.ipAddress
    BY DEF vars
  <2>1. area' = area
    BY DEF Next, Resolve, Find, roomIdGetIP
  <2>2. /\ AreaOK(area) /\ last.code \in CodeRec /\ Legal(area, last.code)
        /\ last.info = initMachineInfo(area, last.code)
    BY ResolvedIsLegal DEF LastInv
  <2>3. /\ last'.code \in CodeRec /\ last'.info = initMachineInfo(area, last'.code)
    BY <2>1 DEF LastInv, Resolved
  <2>4. Legal(area, last'.code)
    BY <2>3, NotNumbered DEF Resolved
  <2> QED
    BY <2>2, <2>3, <2>4, TwoAddresses
<1> QED
  BY <1>1, LastInvariant, PTL DEF Spec, AddressesDistinct

\* The code of a room's first indoor unit goes through the library unchanged.
LEMMA RoomCodeStays ==
  ASSUME NEW f \in Nat, NEW r \in Nat
  PROVE  /\ RoomCode(f, r) \in CodeRec
         /\ GENERATE_MACHINE_CODE(RoomCode(f, r)) = RoomCode(f, r)
         /\ TargetCode(RoomCode(f, r), ROOM_TYPE) = RoomCode(f, r)
         /\ Place(RoomCode(f, r)) = <<0, 1, 1, 1, f, r, 1, 1>>
<1> DEFINE c == RoomCode(f, r)
<1>1. /\ ROOM_TYPE \in Type /\ ROOM_TYPE \notin CommonType /\ ROOM_TYPE # CELL_DOOR_TYPE
      /\ ROOM_TYPE = 1
  BY TypesDiffer DEF Type
<1>2. c \in CodeRec
  BY <1>1 DEF RoomCode, CodeRec
<1>3. GENERATE_MACHINE_CODE(c) = c
  <2>1. 1 % 16 = 1
    OBVIOUS
  <2> QED
    BY <2>1 DEF GENERATE_MACHINE_CODE, RoomCode
<1>4. [c EXCEPT !.type = ROOM_TYPE, !.sub = 1] = c
  <2>1. DOMAIN c = {"type", "sub", "room", "floor", "cell", "build", "area"}
        /\ c = [x \in DOMAIN c |-> c[x]]
    BY DEF RoomCode
  <2>2. c["type"] = ROOM_TYPE /\ c["sub"] = 1
    BY DEF RoomCode
  <2> HIDE DEF c
  <2> QED
    BY <2>1, <2>2
<1>5. TargetCode(c, ROOM_TYPE) = GENERATE_MACHINE_CODE([c EXCEPT !.type = ROOM_TYPE, !.sub = 1])
  BY <1>1 DEF TargetCode
<1>6. Place(c) = UnitPlace(1, 1, f, r, 1, 1)
  <2>1. c.type = ROOM_TYPE /\ c.build = 1 /\ c.cell = 1 /\ c.floor = f /\ c.room = r /\ c.sub = 1
    BY DEF RoomCode
  <2> HIDE DEF c
  <2> QED
    BY <2>1, PlaceIs
<1> QED
  BY <1>2, <1>3, <1>4, <1>5, <1>6 DEF UnitPlace

\* Building 1, when there is one, is of the first entry.
LEMMA FirstBuilding ==
  ASSUME NEW a, AreaOK(a), NEW c \in CodeRec, Legal(a, c), c.type \notin CommonType, c.build = 1
  PROVE  initMachineInfo(a, c).IPID = a.buildList[1].IPID
<1>1. PICK i \in 1 .. Len(a.buildList) :
        BuildOf(a, c) = a.buildList[i] /\ InBuild(a.buildList[i], c)
  BY LegalEntry
<1>2. i = 1
  <2> SUFFICES ASSUME i # 1 PROVE FALSE
    OBVIOUS
  <2>1. Len(a.buildList) \in Nat /\ 1 \in 1 .. Len(a.buildList) /\ 1 < i
    BY BuildsOK
  <2>2. a.buildList[1].buildEnd < a.buildList[i].buildBegin
    BY <2>1, BuildsOK
  <2>3. /\ 1 <= a.buildList[1].buildBegin /\ a.buildList[1].buildBegin <= a.buildList[1].buildEnd
        /\ a.buildList[1].buildBegin \in Nat /\ a.buildList[1].buildEnd \in Nat
        /\ a.buildList[i].buildBegin \in Nat
    BY <2>1, BuildsOK DEF BuildOK
  <2>4. a.buildList[i].buildBegin <= 1
    BY <1>1 DEF InBuild
  <2> QED
    BY <2>2, <2>3, <2>4
<1>3. initMachineInfo(a, c).IPID = BuildOf(a, c).IPID
  BY DEF initMachineInfo
<1> QED
  BY <1>1, <1>2, <1>3

\* Two legal codes of one place have one address.
LEMMA OneAddress ==
  ASSUME NEW a, AreaOK(a), NEW c \in CodeRec, Legal(a, c), NEW e \in CodeRec, Legal(a, e),
         NEW i, NEW j, i = initMachineInfo(a, c), j = initMachineInfo(a, e),
         i.IPID = j.IPID, Place(c) = Place(e)
  PROVE  i.ipAddress = j.ipAddress
<1>1. /\ i.number = Cardinality(UpTo(Places(a, i.IPID), Place(c)))
      /\ i.ipAddress = calculationIP(a, i.number, i.IPID, NoAddress)
  BY Numbered
<1>2. /\ j.number = Cardinality(UpTo(Places(a, j.IPID), Place(e)))
      /\ j.ipAddress = calculationIP(a, j.number, j.IPID, NoAddress)
  BY Numbered
<1> QED
  BY <1>1, <1>2

\* The address that a room number is turned into is that of the first indoor unit
\* of the room in building 1, cell 1, and no other machine of the subnet has it.
THEOREM RoomUnit == Spec => RoomGetsItsUnit
<1> DEFINE Goal == (/\ last'.call = "roomIdGetIP" /\ last'.ip # NoAddress
                    /\ Resolved /\ last.info.IPID = area.buildList[1].IPID /\ Fits(area))
                   => (last.info.ipAddress = last'.ip
                        <=> Place(last.code)
                              = <<0, 1, 1, 1, last'.room[1], last'.room[2], 1, 1>>)
<1>1. LastInv /\ [Next]_vars => [Goal]_vars
  <2> SUFFICES ASSUME LastInv, Next, last'.call = "roomIdGetIP", last'.ip # NoAddress,
                      Resolved, last.info.IPID = area.buildList[1].IPID, Fits(area)
               PROVE  last.info.ipAddress = last'.ip
                        <=> Place(last.code)
                              = <<0, 1, 1, 1, last'.room[1], last'.room[2], 1, 1>>
    BY DEF vars
  <2>1. PICK k \in Codes : roomIdGetIP(k.floor, k.room)
    BY DEF Next, Resolve, Find
  <2> DEFINE f == k.floor
             r == k.room
             c == RoomCode(f, r)
  <2>2. f \in Nat /\ r \in Nat
    BY CodesOK, CodeFields
  <2>3. /\ c \in CodeRec /\ GENERATE_MACHINE_CODE(c) = c /\ TargetCode(c, ROOM_TYPE) = c
        /\ Place(c) = <<0, 1, 1, 1, f, r, 1, 1>>
    BY <2>2, RoomCodeStays
  <2>4. /\ last'.room = <<f, r>> /\ initMachineInfo(area, c).number > 0
        /\ last'.ip = initMachineInfo(area, c).ipAddress
    BY <2>1, <2>3 DEF roomIdGetIP
  <2>5. c.type \notin CommonType /\ c.build = 1
    BY TypesDiffer DEF RoomCode
  <2> HIDE DEF c
  <2>6. Legal(area, c)
    BY <2>4, NotNumbered
  <2>7. /\ AreaOK(area) /\ last.code \in CodeRec /\ Legal(area, last.code)
        /\ last.info = initMachineInfo(area, last.code)
    BY ResolvedIsLegal DEF LastInv
  <2>8. initMachineInfo(area, c).IPID = last.info.IPID
    BY <2>3, <2>5, <2>6, <2>7, FirstBuilding
  <2>9. last.info.ipAddress = initMachineInfo(area, c).ipAddress <=> Place(last.code) = Place(c)
    BY <2>3, <2>6, <2>7, <2>8, TwoAddresses, OneAddress
  <2> QED
    BY <2>3, <2>4, <2>9
<1> QED
  BY <1>1, LastInvariant, PTL DEF Spec, RoomGetsItsUnit
=============================================================================
