SPECIFICATION OnlineSpec
CONSTANTS
    Answers <- MCAnswers
    Absent = Absent
    Grace = 1
    Term = 1
    MaxNow = 2
    MaxGrants = 2
    Environments <- MCEnvironments
    Commands = {c1}
    MaxFiles = 2
INVARIANT
    SentOnlyWithConsent
