CONSTANTS
  BigEndian = FALSE
  NextNames = {"punt", "tx"}
  Opaques = {"o1"}
  NoOpaque = "zero"
  Advances = {0, 14}
  TagPairs <- MCTagPairs
  Sis = {0, 1}
  WireFrames <- MCWireFrames
  LocalFrames <- MCLocalFrames
  MaxVector = 2
  MaxPuntAdds = 2
  MaxInjectAdds = 1
SPECIFICATION Spec
INVARIANT PuntStripsDoubleTag
