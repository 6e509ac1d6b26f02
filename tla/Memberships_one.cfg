SPECIFICATION Spec
CONSTANTS
  None = None
  ann = ann
  bob = bob
  Unity = Unity
  Pride = Pride
  Rural = Rural
  r1 = r1
  r2 = r2
  Members = {ann, bob}
  Users = {ann}
  Groups = {Unity, Pride, Rural}
  Coded = {Unity, Pride}
  Requests = {r1}
  Wishes <- OneWishes
  Scopes = {None, Pride}
  Calls = {"create", "register", "add", "remove", "sync", "approve", "delete", "erase"}
  Deployments <- NewOne
  MaxProfiles = 1
  MaxNumber = 2
  MaxPrio = 4
INVARIANTS TypeOK Consistent OnlyOwnAdded
PROPERTIES Ordered
