CONSTANTS
    a1 = a1  a2 = a2  u1 = u1  u2 = u2  u3 = u3  k1 = k1
    c1 = c1  c2 = c2  b1 = b1  b2 = b2  b3 = b3  b4 = b4  b5 = b5  b6 = b6  b7 = b7  b8 = b8  b9 = b9
    None = None
    Accounts = {a1, a2}
    Customers = {u1, u2}
    Codes = {k1}
    Calls = {c1, b1, b2, b3, b4, b5, b6, b7, b8, b9}
    BotCalls = {b1, b2, b3, b4, b5, b6, b7, b8, b9}
    Updates <- TwoUsers
    Feed = "provided"
    Limit = 2
    MaxFaults = 1
SPECIFICATION FairBotSpec
CHECK_DEADLOCK FALSE
INVARIANTS BotTypeOK EveryCustomerHasAnAccount ConfirmedWasHandled RepeatsNeedACrash
PROPERTIES OwnersStay 
