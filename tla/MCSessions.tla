----------------------------- MODULE MCSessions -----------------------------
EXTENDS Sessions
CONSTANTS ListJobsCmd, ClientsCmd, GuiOnCmd, TimeCmd, MessagesCmd, Period, S1, S2
=============================================================================
