SPECIFICATION Spec
CONSTANTS
  Targets = {t1, t2}
  Torn = Torn
  Missing = Missing
  Pids = {p1, p2}
  Record = Record
  Inodes = {f1, f2, f3, f4}
SYMMETRY Symmetric
INVARIANTS OkIsDurable ReplacementPreserves RecordIsKept SomeCopyRemains
