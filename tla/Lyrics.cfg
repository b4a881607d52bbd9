SPECIFICATION FairSpec
CONSTANTS
  c1 = c1
  c2 = c2
  Calls <- MCCalls
  NoCall = NoCall
  Other = Other
  Signed <- MCSigned
  MissingTTL = 1
  LyricsTTL = 2
  MaxTime = 2
  MaxChanges = 2
  Words <- MCWords
  Bytes <- MCBytes
  AgentIDs <- MCAgentIDs
  Keys <- MCKeys
  None = None
  Paragraphs <- MCParagraphs
  Documents <- MCDocuments
INVARIANTS
  AnswersTrue
  CuesRight
  TracksRight
PROPERTIES
  EveryCallReturns
