\* One owner, a controller-scoped cursor, two writing controllers.
CONSTANTS
  c1 = c1  c2 = c2  n1 = n1  n2 = n2  a = a  b = b  w1 = w1  w2 = w2
  AnyController = AnyController  NoWait = NoWait
  Controller = {c1, c2}
  Namespace = {n1}
  Label = {a, b}
  Waiter = {w1}
  Kinds = {"next", "all", "matching", "quiet"}
  MaxWant = 2
  CursorNs = n1
  CursorController = c1
  Timeout = 1
  MaxOps = 3
SPECIFICATION CursorSpec
PROPERTY IsQueue
SYMMETRY LabelSymmetry
