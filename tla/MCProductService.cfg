\* Several processes share the store: three calls, each of any kind, on two projects with two
\* source versions and two shared files.
CONSTANTS
  proj1 = proj1
  proj2 = proj2
  v1 = v1
  v2 = v2
  file1 = file1
  file2 = file2
  Projects = {proj1, proj2}
  Versions = {v1, v2}
  Artifacts = {file1, file2}
  Calls = {c1, c2, c3}
  None = None
  Contents <- SharedContents
  OneAtATime = FALSE
SYMMETRY SymmetricCalls
SPECIFICATION Spec
INVARIANTS NoResurrection IndexMatchesRecords ScopeReconciles LinearHistory
PROPERTIES ImplementsProjectLife
CHECK_DEADLOCK FALSE
