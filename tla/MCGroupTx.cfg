\* One conversation of three people, two transactions at a time.
SPECIFICATION TxSpec
CONSTANTS
  Users = {u1, u2, u3}
  Convs = {c1}
  Reqs = {r1, r2}
  Invs = {i1}
  Txs = {t1, t2}
  MaxOps = 4
  Nobody = Nobody
SYMMETRY Symmetry
INVARIANTS TxTypeOK ReadsStillHold NoDeadlock
PROPERTIES ImplementsGroups
CHECK_DEADLOCK FALSE
