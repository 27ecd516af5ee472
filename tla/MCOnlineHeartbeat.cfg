\* Two servers, ticks every two seconds, a call that may take one, a failed command.
SPECIFICATION FairSpec
CONSTANTS
    s1 = s1  s2 = s2
    Servers = {s1, s2}
    Interval = 2
    MaxLag = 1
    MaxMembers = 1
    MaxChanges = 3
    MaxFailures = 1
INVARIANTS
    TypeOK
    HeartbeatSurvivesOneMiss
    GhostsFade
PROPERTY TotalConverges
\* Time never stops: deadlock is checked.
