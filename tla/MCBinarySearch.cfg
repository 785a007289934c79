SPECIFICATION FairSpec
CONSTANTS
    Value <- MCValue
    Size = 5
INVARIANTS TypeOK AnswersRight
PROPERTIES HalvesWhatIsLeft Returns
