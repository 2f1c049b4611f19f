SPECIFICATION Spec
CONSTANTS
    com = com
    example = example
    www = www
    net = net
    cn = cn
    Dot = Dot
    list = list
    Urls = {list}
    NoUrl = NoUrl
    MaxPublished = 2
    Labels <- MCLabels
    Pools = {cn}
    LocalRules <- MCLocalRules
    Imports <- MCImports
    Hosts <- MCHosts
    MaxSources = 3
INVARIANTS
    FirstRuleWins
    PlanAgrees
    FreshBody
CHECK_DEADLOCK FALSE
