SPECIFICATION SingleSpec
CONSTANTS
  Values = {v1, v2}
  Clients = {c1}
  Writers = {w1, w2}
  Packers = {p1}
  Strangers = {s1}
INVARIANT RecoverySucceeds
CHECK_DEADLOCK FALSE
