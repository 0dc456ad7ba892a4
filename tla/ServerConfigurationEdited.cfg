SPECIFICATION Spec
CONSTANTS
  Null = Null
  Torn = Torn
  None = None
  Jobs = {j1, j2}
  Documents <- MCDocuments
  Packaged <- MCPackaged
  Floors <- MCFloors
  RoomTypes <- MCRoomTypes
SYMMETRY Symmetry
INVARIANT TypeOK
INVARIANT ProfilesRight
INVARIANT RunsAsAdvertised
