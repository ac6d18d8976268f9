CONSTANTS
  InitDelay = 20
  MaxDelay = 40
  ScaleNum = 3
  ScaleDen = 2
SPECIFICATION Spec
PROPERTIES
  FailsAfterFullWait
