SPECIFICATION Spec
CONSTANTS
    Models <- BaseAndVersion
    NoModel = NoModel
    BaseOf <- WithoutVersion
    Prices = {1}
    NoPrice = NoPrice
    Failed = Failed
    Streams = {s1, s2}
    TTL = 2
    MaxFailures = 1
    gpt = gpt
    gpt_v1 = gpt_v1
INVARIANT TypeOK
INVARIANT PricesAreFresh
SYMMETRY Callers
