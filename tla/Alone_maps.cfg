SPECIFICATION Spec
CONSTANTS
  WordBytes = 3
  Messages <- MCMessages
  MaxMessages = 3
  MaxString = 3
  ShortMaps = TRUE
  Junk = Junk
  ApiTags <- MCTags
  Numbers <- MCNumbers
  Strings <- MCStrings
  MaxFields = 3
  Packets <- MCPackets
  MaxPackets = 2
  HIST_CNT = 3
  Spelling <- MCSpelling
  ALIAS_CNT = 3
  Hosts <- MCHosts
  Local <- MCLocal
  MaxDepth = 2
  Inputs <- MCInputs
  Files <- MCFiles
  MaxInputs = 0
  NameLen = 4
  LineNameLen = 3
  MaxLines = 2
  AnyByte = 165
  AdmMessages <- MCAdmMessages
  LastMessages <- MCLastMessages
  Pieces = {13, 400}
  MaxLate = 40
  MaxAdm = 0
INVARIANT ArcaAgree
CHECK_DEADLOCK FALSE
