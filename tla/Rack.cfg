\* Three layers, at most four calls of next() per command.
SPECIFICATION Spec
CONSTANTS
  RackCount = 3
  MaxNexts = 4
INVARIANTS
  RackTypeOK
  BalancedOnReturn
  OuterLayersAsked
PROPERTIES
  DenyAbortsWithoutNext
  OnlyEnforcingLayersDeny
