SPECIFICATION Spec
CONSTANTS
  q1 = q1
  q2 = q2
  q3 = q3
  Requests <- MCRequests
  MayAsk <- MCMayAsk
  PoolSize = 2
INVARIANTS
  ConnectionsAreAccountedFor
  AllWaitOnlyWhenExhausted
  RowsTellHowTheRunWent
PROPERTIES
  EveryRequestIsAnswered
CHECK_DEADLOCK FALSE
