CONSTANTS
  Remotes = {r1, r2}
  Ttl = 4
SPECIFICATION ShadowsSpec
PROPERTIES SettledIsNotReaped RevokedShadowsFade
