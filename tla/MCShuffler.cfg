CONSTANTS
  pc = pc  fc = fc  t1 = t1  t2 = t2  b1 = b1  b2 = b2
  n1 = n1  n2 = n2  tmp = tmp  zz = zz
  NoOp = NoOp
  Ops <- MCOps
  Inputs <- MCInputs
  MustFollow <- MCMustFollow
  Groups <- MCGroupsAsShipped
SPECIFICATION LiveSpec
INVARIANT TypeOK
INVARIANT OutputCompiles
INVARIANT MustFollowKept
CHECK_DEADLOCK FALSE
PROPERTY Terminates
