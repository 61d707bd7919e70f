CONSTANTS
    None = None
    Pair = 2
    Settle = 3
    Near = 4
    Opening = 6
    Leave = 8
    Reach = 10
    Price <- MCPrice
    Purse = 5
    Award = 1
    MaxRows = 7
    MaxMore = 7
    MaxMisses = 1
    MaxTrainings = 1
    MaxToggles = 2
    MaxStay = 2
    HubStay = 3
    MaxTwists = 3
    Currencies <- MCCurrencies
    Request = 4
    Visit = 6
    Aftermath = 5
    PanelReach = 7
    LessonPrices <- MCPrices
    LessonPoints <- MCPoints
    Earned <- MCEarned
    LessonFrames = 6
    LessonMisses = 1
    LessonTurns = 4
    LessonStay = 3
    NextReach = 12
    RestReach = 8
    Second = 3
    HubLook = 5
    Untitled = 4
    Interlude = 24
    SceneReach = 5
    DateReach = 6
    HomeStay = 6
    CareerMisses = 1
    CareerScreens = 5
SPECIFICATION Spec
INVARIANTS ChargeIsTrue ListIsWhole LessonCostIsTrue DebitIsDated ActionIsTrue ActionIsDated ActionIsFound
CHECK_DEADLOCK FALSE
