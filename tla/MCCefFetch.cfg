\* Any number of runs for two versions, one of them without a checksum.
SPECIFICATION Spec
CONSTANTS
  libcef = libcef
  icudtl = icudtl
  locale = locale
  Versions = {v1, v2}
  Checked = {v1}
  Files <- MCFiles
  Release = {libcef}
  Libcef = libcef
  None = None
INVARIANTS TypeOK OnlyVerifiedFiles CurrentIsUsable StagedIsWhole
PROPERTY CurrentIsStable
