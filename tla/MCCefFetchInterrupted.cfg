\* One version, and an extraction that is cut short.
SPECIFICATION Spec
CONSTANTS
  libcef = libcef
  icudtl = icudtl
  locale = locale
  Versions = {v1}
  Checked = {v1}
  Files <- MCFiles
  Release = {libcef}
  Libcef = libcef
  None = None
INVARIANT StagesRequiredResources
