SPECIFICATION MCSpec
CONSTANTS
  ann = ann
  bob = bob
  eve = eve
  member = member
  Admin = admin
  Roles = {admin, member}
  None = None
  Members = {ann, bob, eve}
  Ops = {o1, o2, o3}
  Callers = {c1, c2}
  Seed <- MCSeed
  Commands <- MCCommands
  MaxSends = 2
  MaxFaults = 1
SYMMETRY Symmetry
INVARIANTS
  AdminRemains
  RestrictedFirst
  ResendOnce
PROPERTIES
  ImplementsAdministration
CHECK_DEADLOCK FALSE
