SPECIFICATION Spec
CONSTANTS
  s1 = s1
  s2 = s2
  i1 = i1
  i2 = i2
  Subjects = {s1, s2, s3}
  Tenants = {t1}
  Users = {u1, u2, u3}
  Invites = {i1}
  Requests = {q1, q2}
  Matching <- MCMatching
  MaxSlugs = 1
  MaxAdmin = 1
  None = None
INVARIANT
  InvitationUsedOnce
