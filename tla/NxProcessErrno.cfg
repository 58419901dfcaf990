SPECIFICATION ProcessSpec
CONSTANTS
  d = d
  i = i
  NULL = NULL
  Streams = {d, i}
  Inflaters = {i}
  Texts <- MCTexts
  Setups <- MCSetups
  UINT64_MAX = 2147483647
  UINT32_MAX = 1073741823
  MaxItems = 4
  NMAX = 16
  Sources <- MCSources
  CrcSeeds <- MCCrcSeeds
  AdlerSeeds <- MCAdlerSeeds
  Addresses = {0, 1, 3, 14}
  Endians = {"little", "big"}
  MaxJobLen = 3
CHECK_DEADLOCK FALSE
INVARIANT HwMissesOnPowerVMOnly
