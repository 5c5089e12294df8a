\* The same instance; the confirmation of one project overlaps the deletion of the other.
CONSTANTS
  proj1 = proj1
  proj2 = proj2
  v1 = v1
  v2 = v2
  file1 = file1
  file2 = file2
  Projects = {proj1, proj2}
  Versions = {v1, v2}
  Artifacts = {file1, file2}
  Calls = {c1, c2, c3}
  None = None
  Contents <- SharedContents
  OneAtATime = FALSE
SYMMETRY SymmetricCalls
SPECIFICATION Spec
INVARIANT IndexedObjectsOnDisk
CHECK_DEADLOCK FALSE
