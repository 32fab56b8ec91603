SPECIFICATION Spec
CONSTANTS
  ByteBits = 2
  DType = {"Float64", "Float32", "Int64", "Int8"}
  ElementSize <- MCElementSize
  WordBits = 4
  ZerosBits = 2
  HistorySize = 2
  IndexBits = 1
  Floor = 250
  MinSize = 1
  MaxSize = 5
  MaskBits = 2
  Gear <- MCGear
  MaxLen = 6
  Data <- MCData
INVARIANTS
  TypeOK
  SharedChunkReadsBack
  FiltersRevert
  ChimpNeverLies
