SPECIFICATION KmsSpec
CONSTANTS
  Vendors = {"aws"}
  KmsSigners = {s1}
  Purgers = {p1, p2}
  MaxKmsKeys = 4
INVARIANT
  SupersededIsGone
