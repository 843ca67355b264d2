SPECIFICATION SlotSpec
CONSTANTS
  Slots = {s1, s2}
  Files = {f1}
  MaxCkpts = 2
  LoadLimit = 1
  MaxTurns = 2
  MaxSlotSaves = 2
INVARIANT NoStaleSidecar
