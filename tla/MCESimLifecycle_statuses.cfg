SPECIFICATION MCSpec
CONSTANTS
    c1 = c1
    h1 = h1
    None = None
    Refreshes = {c1}
    Requests = {h1}
    Downloads = {"DELETED"}
    MaxNotices = 1
INVARIANTS
    TypeOK
    ActiveMeansInstalled
    TerminalIsStamped
    TerminalIsTrue
    EndedItemIsTrue
PROPERTIES
    ActiveComesIntoStep
