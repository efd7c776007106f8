SPECIFICATION Spec
CONSTANTS
  Packets <- MCPackets
  Services <- MCServices
  Utf8 <- Ascii
  Budget = 100
  Damage = {0, 1, 27, 29, 63, 192, 255}
INVARIANTS NeverPanics RoundTrip
PROPERTY Returns
