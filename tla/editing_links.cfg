CONSTANTS
    admin = admin
    user = user
    news = news
    more = more
    Nobody = Nobody
    NoDate = NoDate
    Gone = Gone
    None = None
    Sessions <- MCSessions
    Admins <- MCAdmins
    Count = 2
    Days = 0
    Targets <- TwoTargets
    Moving <- OneTarget
    Paths <- Prefixed
    FirstEditor = user
    Trashed <- Trash
    Start <- StartPrefixed
    PurgeTo = {1}
    MaxEvents = 1
SPECIFICATION Spec
INVARIANT LinksFollow
