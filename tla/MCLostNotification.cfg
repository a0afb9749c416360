CONSTANTS
    Permit = Permit
    Analog = Analog
    Alarm = Alarm
    High = High
    NoSensor = NoSensor
    NotTold = NotTold
    Missed = Missed
    Sensors = {Analog}
    Orders <- MCOrders
    Inputs <- MCInputs
    Values = {0, 1}
    Writers = {w1, w2}
    Askers = {a1}
    Consumers = {c1}
    Clients = {}
    Thresholds = {}
    depend_sid <- MCDepend
    d_value <- MCDValue
    d_off_value <- MCDOffValue
    thr <- MCThr
    maxAttemtps = 2
    sendAttemtps = 2
SPECIFICATION Spec
INVARIANTS NotifiedCurrent
SYMMETRY Sym
