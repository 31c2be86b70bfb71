SPECIFICATION Spec
CONSTANTS
  Uses <- AllUses
  MaxStarts = 3
INVARIANT NothingTwice
INVARIANT AllReleased
INVARIANT ThreadsUseLive
CHECK_DEADLOCK FALSE
