CONSTANTS
    cbufSize = 8
    maxDifferens = 2
    Payload <- MCPayload
    NoData = NoData
    Foreign = Foreign
    ForeignNums = {}
    Packs = {p1}
    Values = {v1, v2}
    Crc <- MCCrc
    ZeroCrc = ZeroCrc
    MaxNum <- TwoRuns
SPECIFICATION Spec
PROPERTY DueKept
