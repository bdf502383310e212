CONSTANTS
  Units = {u1}
  First = u1
  Files = {1}
  Kinds = {"movie"}
  MaxOutages = 1
  Troubles = 2
SPECIFICATION Spec
PROPERTY NeverByContentMatchAlone
CHECK_DEADLOCK FALSE
