CONSTANTS
  Preferences <- MCPreferences
  MaxIps = 2
  MaxDns = 3
SPECIFICATION Spec
INVARIANTS
  GrantedByTarget
  StoredPasswordOnce
  HostkeyTrusted
 
CHECK_DEADLOCK FALSE
