CONSTANTS
    Client = {c1}
    Tokens = {right, other}
    right = right
    other = other
    NoToken = NoToken
    Commands <- MCCommands
    CoreConfigs <- MCConfigs
    Strangers <- MCStrangers
SPECIFICATION Spec
INVARIANT LinesAreTraced
