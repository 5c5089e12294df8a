\* The dashboard's server: five calls one after the other, each of which may die anywhere.
CONSTANTS
  proj1 = proj1
  proj2 = proj2
  v1 = v1
  v2 = v2
  file1 = file1
  file2 = file2
  Projects = {proj1, proj2}
  Versions = {v1, v2}
  Artifacts = {file1, file2}
  Calls = {c1, c2, c3, c4, c5}
  None = None
  Contents <- SharedContents
  OneAtATime = TRUE
SYMMETRY SymmetricCalls
SPECIFICATION Spec
INVARIANTS IndexedObjectsOnDisk OneTombstone
PROPERTIES CompletedWhenAbsent
CHECK_DEADLOCK FALSE
