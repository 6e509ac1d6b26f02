SPECIFICATION Spec
CONSTANTS
  None = None
  ann = ann
  bob = bob
  Unity = Unity
  Pride = Pride
  Rural = Rural
  r1 = r1
  r2 = r2
  Members = {ann, bob}
  Users = {ann}
  Groups = {Unity, Pride}
  Coded = {Unity, Pride}
  Requests = {r1, r2}
  Wishes <- TwoWishes
  Scopes = {None, Pride}
  Calls = {"add", "remove", "sync", "approve", "delete"}
  Deployments <- OneOfTwo
  MaxProfiles = 2
  MaxNumber = 2
  MaxPrio = 2
SYMMETRY RequestSymmetry
INVARIANTS NumberOwned OthersKept
PROPERTIES Issues
