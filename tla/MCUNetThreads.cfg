CONSTANTS
    cbufSize = 4
    maxDifferens = 2
    Payload <- MCPayload
    NoData = NoData
    Foreign = Foreign
    ForeignNums = {2}
    Packs = {p1}
    Values = {v1, v2}
    Crc <- MCCrc
    ZeroCrc = ZeroCrc
    MaxNum <- ShortRun
SPECIFICATION SpecThreads
INVARIANT SlotsMatch
PROPERTIES DueShown HolePassed
