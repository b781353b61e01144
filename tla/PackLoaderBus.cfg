SPECIFICATION Spec
CONSTANTS
  b10 = b10
  b10x = b10x
  custom = custom
  hw = hw
  surface = surface
  Packs = {b10, b10x, custom, hw, surface}
  Waves = {w1, w2}
  Classes <- MCClasses
  resourceClasses <- MCResourceClasses
  B10 = b10
  MustLand = {b10x}
  Lean = {hw}
  DespiteHalt = {b10, b10x}
  DependsOn <- MCDependsOn
  Forced <- MCForced
  Lists <- MCLists
  MaxLight = 1
  MaxEvents = 0
  None = None
INVARIANT BusExclusive
CHECK_DEADLOCK FALSE
