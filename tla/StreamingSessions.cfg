\* Two connections, one slot, the administrator and Close; one conversation.
CONSTANTS
  c1 = c1  c2 = c2  x = x  y = y  NoText = NoText
  Conn <- TwoConns
  Text <- TwoTexts
  MaxSessions = 1
  MaxMessages <- Uneven
  AllowAdmin = TRUE
  AllowClose = TRUE
SPECIFICATION FairSpec
INVARIANTS TypeOK SlotLedger LeftIsClosed DeletedOnce SegmentsAreNumbered FinalWasShown
PROPERTIES SlotIsFreed
CHECK_DEADLOCK FALSE
