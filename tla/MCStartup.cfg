\* Three stops or writes cut short and one failed read of the key, which take up
\* to five peppers.  No symmetry, for liveness.
CONSTANTS
  Order <- MCOrder
  Admin = Admin
  ann = ann
  bob = bob
  People = {ann, bob}
  Peppers = {p1, p2, p3, p4, p5}
  Plain = Plain
  Unset = Unset
  Absent = Absent
  Torn = Torn
  MaxFaults = 3
  MaxReadFaults = 1
SPECIFICATION FairSpec
INVARIANTS TypeOK HashesCheckable
PROPERTIES ServesComplete ComesToServe
CHECK_DEADLOCK FALSE
