SPECIFICATION ProfilesSpec
CONSTANTS
  plain = plain
  forced = forced
  ann = ann
  bob = bob
  Runs = {c1, c2}
  Options = {plain, forced}
  Forced = {forced}
  Persons = {ann, bob}
  Sources = 2
  Eligible <- Growing
  MaxActive = 2
  MaxGenerations = 2
  MaxMishaps = 1
SYMMETRY RunSymmetry
INVARIANTS
  ProfilesBacked
PROPERTY OneJobPerBatch
CHECK_DEADLOCK FALSE
