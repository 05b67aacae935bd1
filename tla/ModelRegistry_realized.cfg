SPECIFICATION Spec
CONSTANTS
    m1 = m1
    m2 = m2
    m3 = m3
    m4 = m4
    Models = {m1, m2, m3, m4}
    NoModel = NoModel
    NoSession = NoSession
    Sessions = {job}
    Score <- ScoresOfFour
    Disqualified = {m4}
    Losing = 1
    Requests = {"train", "best", "trade"}
PROPERTIES
    RefusalsWeighResults
