\* Every combination of PORT, command line, function and ports in use.
CONSTANTS
  Function <- MCFunction
  Mapping <- MCMapping
  Target <- MCTarget
  DefaultTarget = ""
  Port <- MCPort
  Client = {c1}
  None = None
  Word = Word
SPECIFICATION Spec
INVARIANTS TypeOK ServesAsAsked
PROPERTIES StartsOrFails
