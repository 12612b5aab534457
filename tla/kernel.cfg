SPECIFICATION MCSpec
CONSTANTS
  m1 = m1  m2 = m2  m3 = m3  nameA = nameA  nameB = nameB  c1 = c1  c2 = c2
  s1 = s1  s2 = s2  s3 = s3  d1 = d1  d2 = d2  r1 = r1  r2 = r2  None = None
  Mods = {m1, m2, m3}
  NameOf <- MCNames
  CommandsOf <- MCCommands
  Requires <- MCRequires
  Provides <- MCProvides
  Failing = {m1, m3}
  Subs = {s1, s2, s3}
  Owner <- MCOwner
  Declared = {s2}
  Services = {"cache"}
  Drivers = {d1, d2}
  Runs = {r1, r2}
INVARIANTS AllOrNothing HandlersWithinLife NilMeansClean
PROPERTY RunEnds
CHECK_DEADLOCK FALSE
