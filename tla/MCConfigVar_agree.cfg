CONSTANTS
    Instances = {i1, i2}
    Values = {f, x}
    Fallback = f
    None = None
    MaxWrite = 2
    MaxDown = 1
    MaxLoss = 0
    MaxBreak = 1
SPECIFICATION FairSpec
PROPERTY InstancesAgree
CHECK_DEADLOCK FALSE
