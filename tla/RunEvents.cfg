SPECIFICATION FairSpec
CONSTANTS
  Types <- ThreeTypes
  Unstamped <- OneOdd
  Absent = Absent
  MaxTime = 2
  MaxChanges = 4
  MaxFaults = 1
INVARIANT TypeOK
INVARIANT RestIsSynced
PROPERTY ConditionNeverOlder
PROPERTY EventuallySynced
