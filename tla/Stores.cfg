SPECIFICATION Spec
CONSTANTS
  Scenarios = {"service types", "service types revised", "service types overlap",
               "mediums", "mediums overlap", "requests", "requests overlap", "offers"}
  c1 = c1
  c2 = c2
INVARIANTS
  TypeOK
  DeletedStaysAway
  ShownOnce
  SearchAmongAll
PROPERTIES
  AllIsWhatIs
