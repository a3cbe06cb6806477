\* The command interface: registration, reception, answers, and the lines they keep to.
CONSTANTS
  Letters <- MCLetters
  HexChars <- MCHexChars
  Junk <- MCJunk
  Newlines <- MCNewlines
  Nibble <- MCNibble
  Registrations <- MCRegistrations
  MaxCmds <- MCMaxCmds
  MaxLen <- MCMaxLen
  Status <- MCStatus
  MaxLine <- MCMaxLine
SPECIFICATION Spec
INVARIANTS BufferFits InStep Aligned
PROPERTIES LineExecuted WrongLengthIgnored ImplementsLineServer
