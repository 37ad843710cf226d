SPECIFICATION Spec
CONSTANTS
    r1 = r1
    r2 = r2
    r3 = r3
    b1 = b1
    b2 = b2
    s1 = s1
    s2 = s2
    Requests <- Three
    Inputs <- Fetching
    MaxConcurrent = 1
    Browsers = {b1, b2}
    FirstSids = {s1, s2}
    UserIds = {1, 2, 3, 4, 5, 6, 7, 8}
    LangIds = {1, 2, 3, 4, 5}
    FirstUsers <- MCUsers
    FirstLanguages <- MCLanguages
    FirstSessions <- MCSessions
    FirstCookies <- MCCookies
    FirstRemember <- MCRemember
    Names = {"amal", "badr", "cala", "dana"}
    Emails = {"amal", "badr", "cala", "dana"}
    Codes = {"en", "ar", "fr"}
    Locales = {"en", "ar"}
    Fallback = "en"
    Accepted <- MCAccepted
    Initial = Initial
    NoUser = NoUser
    NoLang = NoLang
    NoList = NoList
    NoBatch = NoBatch
    NoSession = NoSession
    Null = Null
PROPERTIES DownloadSendsTheList
