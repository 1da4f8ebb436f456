SPECIFICATION Spec
CONSTANTS
  Grace = 1
  Pending = 1
  FirstDay <- MCFirstDay
  LastDay = 2
  MaxChanges = 3
INVARIANT TypeOK
PROPERTY MessagesCatchUp
