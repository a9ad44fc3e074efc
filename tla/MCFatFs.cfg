\* One operation with a fault, two that write, any number of power cuts.
SPECIFICATION McSpec
CONSTANTS
  SS = 4
  SZ_DIR = 2
  MIN_FAT16 = 3
  MIN_FAT32 = 8
  Cards <- McCards
  Lines <- McLines
  Settings <- McSettings
  RAWP_BUF_NS = 8
  TMP_BUFLEN = 4
  BootFaults = {"gone"}
  RunFaults = {"gone", "error", "late"}
  MaxFaults = 1
  MaxWrites = 2
  Layers = {"files", "names"}
  Names <- McNames
  NB = 3
  SEG = 2
  N = 5
INVARIANTS
  DiskIsSound
  ReadsBack
  FindsItsOwn
PROPERTY
  ImplementsFileStore
