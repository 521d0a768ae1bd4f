CONSTANTS
  Ids = {i1, i2, i3}
  People = {ann, bob}
  Nobody = Nobody
  Absent = Absent
  nick = nick
  mail = mail
  odd = odd
  Names <- MCNames
  Emails <- MCEmails
SYMMETRY Interchangeable
SPECIFICATION Spec
INVARIANTS
  TypeOK
  OneFilePerIdentity
  ChosenNameStands
PROPERTIES
  RemoveSparesSelected
  DamagedFileKept
