SPECIFICATION AccountsFairSpec
CONSTANTS
    Field = {"cookies"}
    Value = {}
    Missing = Missing
    Client = {"user", "login", "sync", "tester", "browser", "check", "download"}
    Writer = {"user", "login", "sync", "tester", "browser", "check", "download"}
    Apart = {"login"}
    Cookie = {c1, c2}
    NoCookie = NoCookie
    Requests = 2
INVARIANTS AccountsTypeOK
PROPERTIES CookieHandedOn StatusSettles ConfigRefines
CHECK_DEADLOCK FALSE
