SPECIFICATION Spec
CONSTANTS
  v1 = v1
  v2 = v2
  m1 = m1
  m2 = m2
  Versions <- MCVersions
  Members <- MCMembers
  MemberOf <- MCMemberOf
  Foreign = Foreign
  Absent = Absent
  NoLink = NoLink
  File = File
INVARIANTS
  LastGoodSurvives
  ReportsAreTrue
PROPERTIES
  Refines
