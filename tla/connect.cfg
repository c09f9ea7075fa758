SPECIFICATION FairSpec
INVARIANTS
    TimeoutIsReported
    ServerIsProved
PROPERTY
    EndsUnlessMissed
