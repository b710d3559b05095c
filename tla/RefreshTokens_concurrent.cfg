\* Two requests in flight, three tokens, two families.
CONSTANTS
  Ids = {i1, i2, i3}
  Families = {f1, f2}
  Requests = {r1, r2}
  NoId = NoId
  NoFamily = NoFamily
SPECIFICATION Spec
SYMMETRY Symmetry
CHECK_DEADLOCK FALSE
INVARIANTS OncePerRequest IssuedIsVerifiable
INVARIANTS UncontestedSingleUse WholeFamilyRevoked LogoutEndsFamily
PROPERTIES RevokedOnlyForReuse RevocationIsFinal LogoutIsFinal
