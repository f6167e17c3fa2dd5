CONSTANTS
    MaxNetworks = 2
    MaxLoads = 2
SPECIFICATION Spec
PROPERTY ChartsFollowTheLine
