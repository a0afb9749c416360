CONSTANTS
    Permit = Permit
    Analog = Analog
    Alarm = Alarm
    High = High
    NoSensor = NoSensor
    NotTold = NotTold
    Missed = Missed
    Sensors = {Permit, Analog}
    Orders <- MCOrders
    Inputs <- MCInputs
    Values = {0, 1, 2}
    Writers = {w1, w2}
    Askers = {}
    Consumers = {}
    Clients = {}
    Thresholds = {}
    depend_sid <- MCDepend
    d_value <- MCDValue
    d_off_value <- MCDOffValue
    thr <- MCThr
    maxAttemtps = 2
    sendAttemtps = 2
SPECIFICATION Spec
INVARIANTS EffectiveValue DependencyHolds
SYMMETRY Sym
