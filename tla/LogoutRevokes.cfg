SPECIFICATION SessionSpec
CONSTANTS
    Tabs = {t0}
    Admin = Admin
    Guest = Guest
    None = None
    MaxTokens = 3
    MaxCalls = 2
INVARIANT LogoutRevokes
CHECK_DEADLOCK FALSE
