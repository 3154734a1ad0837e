\* Three chats, a reset and a read; room for two sessions.
SPECIFICATION Spec
CONSTANTS
  c1 = c1
  c2 = c2
  c3 = c3
  x1 = x1
  g1 = g1
  Chats <- ThreeChats
  Resets <- OneReset
  Reads <- OneRead
  MaxSessions = 2
INVARIANTS
  Transactional
  UsedSessionsStay
PROPERTIES
  EveryoneLeaves
