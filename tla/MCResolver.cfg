\* Two queries for a queue of one, one thread, one endpoint, found any number of times.
\* Queries end and the resolver is closed; then nothing is left to do.
CHECK_DEADLOCK FALSE
SPECIFICATION FairSpec
CONSTANTS
  Queries = {q1, q2}
  Workers = {w1}
  Stoppable = {q1}
  Timed = {q1}
  Capacity = 1
  MaxResults = 1
  Endpoints = {e1}
  Idle = Idle
INVARIANTS
  NobodyStranded
PROPERTIES
  AnswersAreDue
  EverybodyReturns
