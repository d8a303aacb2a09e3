\* An agent and a daemon; the policy changes twice, and the clock, which has two
\* seconds, is set back once.  TypeOK is proved.
CONSTANTS
    Agents = {a1}
    Daemons = {d1}
    MaxVersion = 3
    MaxClock = 2
SPECIFICATION FairSpec
CONSTRAINT UntilUnseen
INVARIANTS MarkMeansAccepted SurvivesLoading NoMissedUpdate
PROPERTY DaemonsFollow
CHECK_DEADLOCK FALSE
