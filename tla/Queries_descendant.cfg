CONSTANTS
  Nodes = {n0, n1, n2, n3}
  Root = n0
  SIDs = {sid1}
  NoSID = nosid
  Profiles = {"profile"}
  NoProfile = "any"
  Plain = "plain"
  Common = "common"
SPECIFICATION QueriesSpec
INVARIANT DescendantsFound
CHECK_DEADLOCK FALSE
