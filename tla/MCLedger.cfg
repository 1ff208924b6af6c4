SPECIFICATION FairSpec
CONSTANTS
  k1 = k1  k2 = k2  k3 = k3
  h1 = h1  h2 = h2
  t1 = t1  t2 = t2  t3 = t3
  NoKey = NoKey
  NoThread = NoThread
  Key = {k1, k2, k3}
  Handle = {h1, h2}
  Thread = {t1, t2, t3}
  HandleOf <- MCHandleOf
  Op <- MCOp
  MaxOps = 2
  MaxFaults = 2
INVARIANTS GaplessSeq AckedDurable KeyAppendedOnce ReaderSeesPrefix HookInOrder
PROPERTIES ImplementsEventLog CallsReturn
