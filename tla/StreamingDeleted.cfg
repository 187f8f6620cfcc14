\* The administrator closes a session that is decoding.
CONSTANTS
  c1 = c1  c2 = c2  x = x  y = y  NoText = NoText
  Conn <- OneConn
  Text <- OneText
  MaxSessions = 1
  MaxMessages <- OneMessage
  AllowAdmin = TRUE
  AllowClose = FALSE
SPECIFICATION Spec
INVARIANTS NoUseAfterDelete
CHECK_DEADLOCK FALSE
