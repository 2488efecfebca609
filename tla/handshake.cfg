SPECIFICATION Spec
CONSTANTS
  MaxConnRetries = 3
  WireCrypt = {"disabled", "enabled", "required"}
CHECK_DEADLOCK FALSE
INVARIANTS
  CryptAsConfigured
  PreferredCipher
  LoginIsRetried
PROPERTIES
  ConnectHonoursContext
