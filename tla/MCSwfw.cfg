SPECIFICATION FairSpec
CONSTANTS
  Driver = {d1, d2}
  Op = {"read_eeprom_bit_bang", "prot_autoc_write"}
  Tries = 2
  SemTries = 1
CHECK_DEADLOCK FALSE
INVARIANTS
  Exclusive
  NoOrphanBit
PROPERTIES
  StuckIsBroken
