\* The three feeds: three orders, a table of two, four messages.
CONSTANTS
  OrderNo = {1, 2, 3}
  TableSize = 2
  ShareMod = 8
  SeqNo = {1, 2, 3, 4}
  Dialects = {"itch", "bats", "edge"}
  MaxMsgs = 4
  Quantities = {2, 3}
  SymbolMax = 1
SPECIFICATION Spec
INVARIANTS PoolsAgree TableSound OrdersExact
CHECK_DEADLOCK FALSE
