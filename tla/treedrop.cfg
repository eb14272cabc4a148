SPECIFICATION Spec
CONSTANTS
  a = a
  b = b
  c = c
  suffixB = suffixB
  suffixC = suffixC
  suffixMaster = suffixMaster
  Names = {a, b, c}
  Creatable <- Ordinary
  Master = Master
  Like <- ExactLike
  Suffixed <- SuffixTexts
  ReadFaults = {}
  MaxItems = 4
PROPERTY TreeShowsSchema
