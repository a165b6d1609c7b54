SPECIFICATION FairSpec
CONSTANTS
  Texts <- MCTexts
  Meaning <- MCMeaning
  PrintedTexts <- MCPrintedTexts
  BUFFER_SIZE = 5
  ReadSizes = {1}
  ALLOCATOR_SIZE = 7
  OUTPUT_BUFFER_LENGTH = 3
  MessageSizes = {0, 1, 2, 3, 4}
  MaxWritten = 7
  MaxOutputs = 2
INVARIANT TypeOK
INVARIANT ReadsTheCertificate
INVARIANT StringsApart
INVARIANT DispatchedComplete
PROPERTY ReadsTheStream
PROPERTY ReadsOn
PROPERTY MainGoesOn
PROPERTY MainEnds
