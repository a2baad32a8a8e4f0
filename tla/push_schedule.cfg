\* Does anything make the worker run?
SPECIFICATION FairPushSpec
CONSTANTS
    w1 = w1  w2 = w2
    owner = owner  agent = agent
    NoRow = NoRow
    Workers = {w1, w2}
    Events = {1, 2}
    Users = {owner, agent}
    Targets <- MCTargets
    Limit = 1
    MaxRetries = 2
PROPERTIES
    EveryTurnIsServed
