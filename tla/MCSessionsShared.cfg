CONSTANTS
    ListJobsCmd = ListJobsCmd
    ClientsCmd = ClientsCmd
    GuiOnCmd = GuiOnCmd
    TimeCmd = TimeCmd
    MessagesCmd = MessagesCmd
    Period = Period
    ListJobs <- ListJobsCmd
    Clients <- ClientsCmd
    GuiOn <- GuiOnCmd
    Time <- TimeCmd
    Messages <- MessagesCmd
    Dot <- Period
    MaxLogins = 2
    MaxEnq = 1
    Names = {S1, S2}
    S1 = S1
    S2 = S2
SPECIFICATION Spec
INVARIANT SessionIsolation
CHECK_DEADLOCK FALSE
