SPECIFICATION FairSpec
CONSTANTS
    a = a
    Blank = Blank
    Texts <- MCTexts
    Plans <- MCPlans
    None = None
INVARIANTS TypeOK SuccessIsOfAllSteps ChangedIsAboutTheRequest BatchAnswersEachRequest ZeroMeansAlike
PROPERTIES ServicesAreTimed CancelEndsTheCall
CHECK_DEADLOCK FALSE
