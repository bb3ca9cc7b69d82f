\* Three hooks, one runner of which may be kept between commands.
SPECIFICATION FairSpec
CONSTANTS
  HookCount = 3
  MaxKept = 1
INVARIANTS
  TypeOK
  BodyAtMostOnce
  RefusalIsFinal
  NoHookBypassed
  NeverDropped
  DepthsRestored
PROPERTIES
  NoReentry
  OnlyEnforcingDenies
  CommandEnds
