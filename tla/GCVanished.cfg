SPECIFICATION Spec
CONSTANTS
  d1 = d1
  d2 = d2
  a1 = a1
  a2 = a2
  g1 = g1
  g2 = g2
  Digests = {d1}
  Snapshots = {1, 2}
  Groups = {g1, g2}
  GroupOf <- OneGroup
  Archives = {a1}
  Instances = {1}
  ProcOf <- OwnProcess
  Grace = 1
  Gap = 0
  MaxTime = 2
INVARIANT KeptDespiteForget
