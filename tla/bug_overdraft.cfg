SPECIFICATION Spec
CONSTANTS
  None = None
  Undefined = Undefined
  u1 = u1
  u2 = u2
  a1 = a1
  a2 = a2
  More = {u3, u4, u5, u6, u7, u8}
  Scenes <- JustOverdraft
CHECK_DEADLOCK FALSE
INVARIANT NoOverdraft
