SPECIFICATION SessionsSpec
CONSTANTS
    Tabs = {t1, t2}
    Calls = {c1, c2}
    LastSecret = 3
    LastToken = 3
PROPERTIES LoggedOutStaysOut LoggedOutWithReason CallsEnd
CHECK_DEADLOCK FALSE
