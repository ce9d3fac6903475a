CONSTANTS
  staff = staff
  seat = seat
  t1 = t1
  t2 = t2
  mac = mac
  ip1 = ip1
  ip2 = ip2
  None = None
  Names = {staff, seat}
  Numerals = {seat}
  Registrable = {staff, seat}
  Editions <- MCEditions
  FirstEdition <- MCFirst
  Tabs = {t1, t2}
  Addresses <- MCAddresses
SYMMETRY Symmetry
SPECIFICATION Spec
INVARIANTS
  TypeOK
  TokensAreEarned
  StaffOnly
  
