SPECIFICATION TBSpec
CONSTANTS
  C_RAM_DEPTH = 8
  C_NFRAC = 12
  C_SCALE_FRAC = 5
  NoPixel = NoPixel
  JobLists <- Copy
INVARIANTS
  OutputMatchesModel
