SPECIFICATION MCSpec
CONSTANTS
  p1 = p1
  p2 = p2
  h1 = h1
  h2 = h2
  slot = slot
  folder = folder
  s1 = s1
  s2 = s2
  Proc = {p1, p2}
  Project = {h1, h2}
  Slot = {slot}
  slotOf <- MCSlotOf
  Folder = {folder}
  folderOf <- MCFolderOf
  Seed = {s1, s2}
  slotOfSeed <- MCSlotOfSeed
  None = None
  MaxTime = 2
  MaxRuns = 2
VIEW View
SYMMETRY Symmetric
INVARIANTS
  TypeOK
  FollowsMemory
  CreditedOnce
  ConsumedWasUsed
PROPERTY ArchivesKept
