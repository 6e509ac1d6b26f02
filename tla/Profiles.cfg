SPECIFICATION Spec
CONSTANTS
  ann = ann
  bob = bob
  Names <- MCNames
  Long = Long
  Null = Null
  Absent = Absent
  Bodies <- MCBodies
  MaxRows = 2
  MaxCalls = 3
SYMMETRY Symmetry
CHECK_DEADLOCK FALSE
INVARIANTS ShownAsSent TwinsShownAlike RecordsFollow
