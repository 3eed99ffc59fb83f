SPECIFICATION MCSpec
CONSTANTS
  Domains = {d1, d2}
  Verifications = {v1, v2}
  SignatureTTL = 1
  DirectoryTTL = 7
  ClockSkew = 0
  IdentityTTL = 1
  Cooldown = 2
  CooldownSlots = 1
  MaxClock = 2
  MaxSigned = 2
  MaxKeys = 2
  Origins = {o1, o2}
  AssertionLifetime = 2
  TokenLifetime = 2
  TokenSkew = 0
  MaxTime = 3
  MaxAgentKeys = 2
  MaxIssuerKeys = 2
  LocalDomains = {agent}
  OtherDomains = {other}
  Audiences = {here, there}
  JoseLifetimes = {1, 2, 3}
  JoseMaxLifetime = 2
  JoseSkew = 1
  MaxJoseKeys = 2
  MaxJoseTokens = 1
  LastSecond = 2
SYMMETRY Symmetry
INVARIANTS
  AcceptedOnce
  AcceptedIsBound
  RefreshIsRationed
  AssertionGoesWhereConfigured
  AcceptedTokenIsCurrent
  AcceptedJoseIsGenuine
CHECK_DEADLOCK FALSE
