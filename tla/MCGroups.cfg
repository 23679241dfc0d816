\* One group, three people who may leave and come back, two join requests and
\* two invitations.
SPECIFICATION Spec
CONSTANTS
  Users = {u1, u2, u3}
  Convs = {c1}
  Reqs = {r1, r2}
  Invs = {i1, i2}
  Nobody = Nobody
SYMMETRY Symmetry
INVARIANTS TypeOK OneOwner OnePending AdmissionsAreForGroups
PROPERTIES JoinByConsent PrivatePairFixed DissolvedFrozen OwnershipHandedOver DecidedOnceByStaff
CHECK_DEADLOCK FALSE
