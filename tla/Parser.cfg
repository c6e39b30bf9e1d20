\* The generated files, every transmission of an ISA and six segments, every 997 of five body segments and every document of three.
CONSTANTS
  EnvelopeSegments <- MCEnvelope
  AckSegments <- MCAck
  Documents <- MCDocuments
  DocumentSegments <- MCDocument
  MaxEnvelope = 7
  MaxAck = 5
  MaxDocument = 3
SPECIFICATION ParserSpec
INVARIANTS TreeIsTheFile AckTreeFaithful SamplesReadBack
CHECK_DEADLOCK FALSE
