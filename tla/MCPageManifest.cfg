SPECIFICATION Spec
CONSTANTS
  Requests = {r1, r2}
  Kinds = {"list", "page"}
  Files = {f1, f2}
  Mapped = FALSE
  Legacy = TRUE
  NoFile = NoFile
  NoRequest = NoRequest
  NoManifest = NoManifest
SYMMETRY Symmetry
INVARIANTS
  OneReady
  ListingIsNeeded
  PageIsOfManifest
  AnswersAreFresh
