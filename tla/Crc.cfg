SPECIFICATION CrcSpec
CONSTANTS
  MaxBody = 248
  Bodies <- MCBodies
  Disturbed <- MCDisturbed
  Bursts <- MCBursts
INVARIANTS CrcTypeOK RegisterIsRemainder PassesIffIntact
