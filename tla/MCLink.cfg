SPECIFICATION LinkSpec
CONSTANTS
  MaxPayload = 4
  Stx = 6
  MaxByte = 7
  KeyLength = 2
  OtherLengths <- Lengths
  QueueCap = 2
  MaxKeys = 4
INVARIANTS LinkTypeOK ResyncAfterOne
PROPERTIES ImplementsKeyStream
