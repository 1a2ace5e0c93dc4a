CONSTANTS
    User = {u1, u2, u3}
    Files = {f1, f2}
    Zero = Zero
    Finance = Finance
    WatchTime = {0, 4}
    RegisterPowerAdd = 3
    InvitedPowerAdd = 1
    LoginDailyPowerAdd = 1
    CertificationPowerAdd = 4
    BindPower = 2
    AssignTokenPerCycle = 5
    PowerWatchOwnerRatio = 50
    AssignTokenLongtermRatio = 40
    AssignPeriod = 2
    UploadCountMax = 50
    Day = 4
    TimeZone = 1
    Budget = 8
    MaxEvents = 4
    MaxTime = 8
SPECIFICATION Spec
SYMMETRY Interchangeable
CHECK_DEADLOCK FALSE
INVARIANT AssignPossible
INVARIANT LongtermExplained
 
PROPERTY AssignSettles
