SPECIFICATION Spec
CONSTANTS
  Files <- MCFiles
INVARIANTS
  VersionsAreTheirEntries
  DumpsAreComplete
