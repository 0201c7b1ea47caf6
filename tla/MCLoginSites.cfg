CONSTANTS
    Browser = {b1, b2}
    Flow = {f1, f2, f3}
    Callback = {c1, c2}
    None = None
    app = app
    id = id
    elsewhere = elsewhere
    Host <- MCHost
    Below <- MCBelow
    Site <- MCSite
SPECIFICATION SiteSpec
SYMMETRY Symmetry
CHECK_DEADLOCK FALSE
INVARIANT OwnLoginsOnly CompletedIsOver CookiesSurvive
PROPERTY KeepsLoginContract
