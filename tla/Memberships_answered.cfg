SPECIFICATION FairSpec
CONSTANTS
  None = None
  ann = ann
  bob = bob
  Unity = Unity
  Pride = Pride
  Rural = Rural
  r1 = r1
  r2 = r2
  Members = {ann, bob}
  Users = {}
  Groups = {Unity, Pride}
  Coded = {Unity, Pride}
  Requests = {r1, r2}
  Wishes <- BothOrders
  Scopes = {None}
  Calls = {"create", "approve", "delete"}
  Deployments <- NewOne
  MaxProfiles = 2
  MaxNumber = 1
  MaxPrio = 3
PROPERTIES Answered
