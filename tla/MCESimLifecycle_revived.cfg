SPECIFICATION MCSpec
CONSTANTS
    c1 = c1
    h1 = h1
    None = None
    Refreshes = {c1}
    Requests = {h1}
    Downloads = {"ENABLED", "DELETED"}
    MaxNotices = 1
PROPERTIES TerminalIsOverriddenByReport
