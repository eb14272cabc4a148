SPECIFICATION Spec
CONSTANTS
  a = a
  b = b
  c = c
  suffixB = suffixB
  suffixC = suffixC
  suffixMaster = suffixMaster
  Names = {a, b, c}
  Creatable <- OneVirtual
  Master = Master
  Like <- WildLike
  Suffixed <- SuffixTexts
  ReadFaults = {"names", "info"}
  MaxItems = 4
PROPERTIES
  OneDropLeavesNothingStale
  ListedStaysListed
