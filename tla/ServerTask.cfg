\* Two tasks of up to three stretches.
SPECIFICATION FairSpec
CONSTANTS
    t1 = t1
    t2 = t2
    Tasks = {t1, t2}
    MaxStretches = 3
    None = None
INVARIANTS
    OneRunsAtATime
    OneStretchPerResume
PROPERTY EveryResumeReturns
