\* Two overlapping confirmations of one link: is a token single-use?
CONSTANTS
  Users = {u1}
  GoogleUsers = {}
  Requests = {r1, r2}
  MaxTokens = 2
SPECIFICATION Spec
SYMMETRY Symmetry
INVARIANT SingleUse
