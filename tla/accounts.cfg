SPECIFICATION AccountsSpec
CONSTANTS
    Requests = {1, 2}
    Emails = {"mail", "Mail"}
    Names = {"name"}
    Lower <- MCLower
    NoOne = "-"
    MaxUsers = 2
    MaxTokens = 4
INVARIANTS
    OneSessionPerLogin
    LogoutEnds
    AccountsInv
