\* Two requests under way at once; two more tokens than the one of the last login.
SPECIFICATION Spec
SYMMETRY Symmetry
CONSTANTS
    Requests = {r1, r2}
    MaxTokens = 3
INVARIANTS
    SessionKept
    LogoutRevokes
    NoTokenLeftBehind
