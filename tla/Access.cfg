CONSTANTS
  Emails = {boss, teacher}
  AdminEmail = boss
  Passwords = {p}
  Nobody = Nobody
  Owner = teacher
SPECIFICATION Spec
INVARIANTS TypeOK GrantedWasDue RefusalWasDue
