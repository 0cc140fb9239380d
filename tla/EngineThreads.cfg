SPECIFICATION Spec
CONSTANTS
  w1 = w1 w2 = w2 a = a b = b c = c d = d
  Worlds = {w1, w2}
  Tasks = {a, b, c, d}
  Route <- MCRoute
  Caller <- MCCaller
  WithReturn = {b}
  Capacity = 2
  CounterMod = 16777216
  Blocks = 1
  Nobody = Nobody
INVARIANTS SyncInv CallsInSendingOrder
PROPERTIES EveryTaskEnds
