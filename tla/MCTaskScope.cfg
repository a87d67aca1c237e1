\* Three children and their owner, or two and a coroutine that is neither, spawn into the scope.
SPECIFICATION FairSpec
CONSTANTS
  Children = {c1, c2, c3}
  Parent = Parent
  Outsiders = {o1}
  Casts <- ThreeOrTwo
  Nobody = Nobody
  c1 = c1
  c2 = c2
  c3 = c3
  o1 = o1
INVARIANTS
  WaitIsForSomebody
  NothingDangles
PROPERTIES
  JoinReturns
