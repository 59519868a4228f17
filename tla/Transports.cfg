SPECIFICATION Spec
CONSTANTS
  Words = {w1, w2}
  Fields = {data, temp}
  Data = data
  Keys = {k1}
  NoKey = NoKey
  MaxHops = 5
  MaxMax = 2
INVARIANTS ContentIsKept SnapshotRecovers
