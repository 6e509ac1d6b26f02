SPECIFICATION FairSpec
CONSTANTS
  r1 = r1
  r2 = r2
  r3 = r3
  Unity = Unity
  Pride = Pride
  MP09 = MP09
  Indore = Indore
  Elsewhere = Elsewhere
  Names = {Unity, Pride}
  Requests = {r1, r2, r3}
  EditNames = {Unity}
  Districts = {MP09}
  DistrictOf <- MCOneCity
  Deployments <- AllDeployments
  MaxSeq = 2
  Cities = {Indore, Elsewhere}
INVARIANTS TypeOK UniqueIds OneHolder Gapless
PROPERTIES Issues Answered
