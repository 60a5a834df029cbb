CONSTANT Guards = {g1, g2, g3, g4}
SPECIFICATION FairSpec
INVARIANTS TypeOK MutualExclusion AssertionsHold NoLostWakeup
PROPERTIES SomebodyGetsIt ImplementsLock
