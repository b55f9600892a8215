SPECIFICATION FairSpec
CONSTANT Bounds <- SmallBounds
INVARIANTS InUseIsNotCut 
PROPERTY NotStuck
CHECK_DEADLOCK FALSE
