SPECIFICATION FairSpec
CONSTANTS
  Texts <- MCBlankTexts
  Meaning <- MCBlankMeaning
  PrintedTexts = {}
  BUFFER_SIZE = 5
  ReadSizes = {1, 3}
  ALLOCATOR_SIZE = 7
  OUTPUT_BUFFER_LENGTH = 3
  MessageSizes = {0, 1, 2, 3, 4}
  MaxWritten = 7
  MaxOutputs = 2
INVARIANT EndOfFileSurvived
