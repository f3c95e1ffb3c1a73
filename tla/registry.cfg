SPECIFICATION FairSpec
CONSTANTS
  a = a
  b = b
  x = x
  y = y
  z = z
  m1 = m1
  m2 = m2
  m3 = m3
  w1 = w1
  w2 = w2
  None = None
  Maestros = {m1, m2, m3}
  FirstGM = m3
  Own <- OwnMaestros
  Names = {a, b}
  Objects = {x, y, z}
  Baseless = {z}
  Adders = {c1, c2}
  MayAdd <- Registrations
  Swappers = {w1, w2}
INVARIANTS RegistryInductive RegisteredAsGiven PanicsAreFounded
  ShutdownMirrorsBoot NoMaestroIsLost
PROPERTIES DeclaresOnly CallsEnd
CHECK_DEADLOCK FALSE
