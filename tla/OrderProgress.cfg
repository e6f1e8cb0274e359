SPECIFICATION FairSpec
PROPERTIES
    CallsSettle
    CopiesConverge
CHECK_DEADLOCK FALSE
