SPECIFICATION Spec
CONSTANTS
  Areas <- MCAreas
  Codes <- MCCodes
INVARIANTS NumberIsRank
PROPERTIES AddressesDistinct RoomGetsItsUnit
