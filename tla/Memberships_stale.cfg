SPECIFICATION Spec
CONSTANTS
  None = None
  ann = ann
  bob = bob
  Unity = Unity
  Pride = Pride
  Rural = Rural
  r1 = r1
  r2 = r2
  Members = {ann}
  Users = {}
  Groups = {Unity, Pride}
  Coded = {Unity, Pride}
  Requests = {r1, r2}
  Wishes <- TwoWishes
  Scopes = {None}
  Calls = {"create", "remove", "approve"}
  Deployments <- NewOne
  MaxProfiles = 1
  MaxNumber = 2
  MaxPrio = 3
INVARIANTS Consistent
