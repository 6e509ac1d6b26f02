SPECIFICATION JoinSpec
CONSTANTS
  ann = ann
  bob = bob
  Members = {ann, bob}
  GroupSeqs = {10, 99, 100, 101}
  MemberSeqs = {1, 11, 999, 1000, 1001}
  MaxJoins = 4
SYMMETRY MemberSymmetry
INVARIANTS TextsOK OneMembership RefusedPastWidths
