SPECIFICATION LiveSpec
CONSTANTS
    ma = ma
    sa = sa
    NEntries = 1
    Pool = 2
    Apps = {ma}
    AppCore <- OneOnMaster
    Payloads = {p}
    NoMsg = NoMsg
    BigFrom <- BigOnMaster
    TickCount = 1
PROPERTIES SendsReturn MessagesArrive
