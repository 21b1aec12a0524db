SPECIFICATION FairSpec
CONSTANTS
    u1 = u1
    n1 = n1
    n2 = n2
    Urls <- OneUrl
    Names <- TwoNames
    SchedName <- ConfigName
    UrlName <- UrlOther
    FileOrder <- JustOne
    Configs <- Listed
    Permits = 1
    Copies = 2
    MaxOps = 3
    MaxPush = 1
    MaxFail = 1
INVARIANTS EntryHasItsProbe StaleProbesUnwanted ConfiguredIsScheduled
PROPERTY PollCatchesUp
CHECK_DEADLOCK FALSE
