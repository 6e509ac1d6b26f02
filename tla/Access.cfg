SPECIFICATION Spec
CONSTANTS
  None = None
  g1 = g1
  g2 = g2
  w = w
  v = v
  Groups <- MCGroups
  Labels <- MCLabels
  Faces <- MCFaces
  Texts <- MCTexts
  Offices <- MCOffices
  Starts <- MCStarts
  Filters <- MCFilters
CHECK_DEADLOCK FALSE
INVARIANTS
  ListedOpens
  ListsAgree
PROPERTIES
  KeptInside
  OpensWhatItWrites
