CONSTANTS
    Permit = Permit
    Analog = Analog
    Alarm = Alarm
    High = High
    NoSensor = NoSensor
    NotTold = NotTold
    Missed = Missed
    Sensors = {Permit, Analog, Alarm}
    Orders <- MCOrders
    Inputs <- MCInputs
    Values = {0, 1}
    Writers = {w1}
    Askers = {a1}
    Consumers = {c1}
    Clients = {k1}
    Thresholds = {High}
    depend_sid <- MCDepend
    d_value <- MCDValue
    d_off_value <- MCDOffValue
    thr <- MCThr
    maxAttemtps = 3
    sendAttemtps = 2
SPECIFICATION Spec
INVARIANTS TypeOK NotifiedCurrent ThresholdsCurrent ListedHaveAttempts
