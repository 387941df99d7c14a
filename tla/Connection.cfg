SPECIFICATION Spec
CONSTANTS
  Base = 16
  Wide = 1
  Narrow = 1
  None = None
  Script <- MCScript
  Unread <- MCUnread
  Handle <- MCHandle
  Refusal <- MCRefusal
  MaxFrame = 8
  Faults = TRUE
INVARIANTS ExchangeFaithful CleanEndHidesNothing
 
CHECK_DEADLOCK FALSE
