SPECIFICATION Spec
CONSTANTS
  Requests = {r1}
  Kinds = {"list"}
  Files = {f1, f2}
  Mapped = TRUE
  Legacy = FALSE
  NoFile = NoFile
  NoRequest = NoRequest
  NoManifest = NoManifest
SYMMETRY Symmetry
INVARIANTS
  WrongOnlyByRace
