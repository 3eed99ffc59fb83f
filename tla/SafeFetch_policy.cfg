SPECIFICATION MCSpec
CONSTANTS
  OperationalKeys = {o1, o2, o3}
  FirstKey = o1
  EntityKeys = {e1, o1}
  Rotations = {r1, r2}
  FirstRotation = r1
  Names = {n1}
  Name = n1
  Texts = {t1}
  SystemServers = 1
  MaxHops = 1
  TtlLimit = 3
  DayCap = 2
  MaxTtl = 4
  Lifetimes = {4}
  LastMoment = 1
  host = host
  subdomain = subdomain
  otherHost = otherHost
  Hosts = {host, subdomain, otherHost}
  AllowedHost = host
  Subdomains = {subdomain}
  Addresses <- MCAddresses
  Answers <- MCAnswers
  MaxRedirects = 1
  MaxBytes = 1
  ae = ae
  k1 = k1
  k2 = k2
  x = x
  none = none
  noKey = noKey
  Events <- MCEvents
  Payload <- MCPayload
  Prior <- MCPrior
  NoEvent = none
  NoKey = noKey
  EntityKey = ae
  OwnKeys <- MCOwnKeys
  OtherKeys <- MCOtherKeys
  Writers = 2
INVARIANT
  PolicyFailureIsPermanent
CHECK_DEADLOCK FALSE
