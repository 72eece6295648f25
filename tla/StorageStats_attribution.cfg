SPECIFICATION Spec
CONSTANTS
  Names <- MCNames
  Cut <- MCCut
  NoName = "none"
  Callers = {t1, t2}
  Readers = {r1}
  MAX_DEVICES = 3
  MaxOps = 2
INVARIANT CountedForItsDevice
