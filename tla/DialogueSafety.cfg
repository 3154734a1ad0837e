\* Five intents, an order that can still be cancelled and one that cannot.
SPECIFICATION Spec
CONSTANTS
  Required <- Catalog
  Confirmed = {"order_cancel", "agent_handoff"}
  Mutations = {"order_cancel", "agent_handoff"}
  NeedsPaid = {"order_cancel"}
  Cancelling = {"order_cancel"}
  Searches = {"product_search"}
  Category <- Groups
  Described = {"product_detail"}
  Orders = {"o1", "o2"}
  Paid = {"o2"}
  Utterances <- Messages
  Doubtful <- Doubts
  MaxSuspended = 2
  MaxTurns = 6
CHECK_DEADLOCK FALSE
INVARIANTS
  TypeOK
  NothingAfterCancellation
PROPERTIES
  ConsentBeforeChange
  TasksKept
