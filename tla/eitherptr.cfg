SPECIFICATION EitherSpec
CONSTANTS
  Count = 2
  MaxHandles = 2
INVARIANT
  DestroyedWithScope
