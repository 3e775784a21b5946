SPECIFICATION MCSpec
CONSTANTS
  Sizes <- SomeSizes
  Requests <- SomeRequests
  MaxJobs = 3
  NumSections = 2
  WORD = 2
  MaxClocks = 3
  BILINEAR_SCALING_SF_NINT = 3
  BILINEAR_SCALING_SF_NFRAC = 5
  BILINEAR_SCALING_NINT = 4
  BILINEAR_SCALING_NFRAC = 12
  Inputs <- SmallImages
  Factors <- SmallFactors
  Jobs <- SmallJobs
  NoJob <- PowerOn
  C_RAM_DEPTH = 4
  NoPixel = NoPixel
  Width = 4
  Height = 4
  Images = 2
CHECK_DEADLOCK FALSE
INVARIANTS
  SegmentIsRequest
