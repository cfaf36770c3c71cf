CONSTANTS
  Keys <- MCKeys
  Versions <- MCVersions
  SboxSize = 4
  Byte <- MCByte
SPECIFICATION Spec
INVARIANT TypeOK
INVARIANT SboxIsPermutation
INVARIANT BlobLengthBound
CHECK_DEADLOCK FALSE
