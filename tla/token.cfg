SPECIFICATION FairSpec
CONSTANTS
  c1 = c1
  c2 = c2
  t1 = t1
  t2 = t2
  t3 = t3
  Callers = {c1, c2}
  Tokens = {t1, t2, t3}
  Reissued = {t1}
  ExpiresIn = 3
  OAuthTicks = 1
INVARIANTS
  TypeOK
  NoExpiredTokenSent
PROPERTIES
  RepeatsOnlyByJoining
  EveryCallEnds
