------------------------------ MODULE MCReports ------------------------------
EXTENDS Reports

CONSTANTS p1, p2, t1, t2

MCProjectOf == <<p1, p2>>
MCPriorityOf == <<1, 1>>
MCDueOf == <<0, None>>
MCHistories ==
  {[created |-> 0, resolutions |-> <<>>], [created |-> 0, resolutions |-> <<1>>],
   [created |-> 1, resolutions |-> <<1, 3>>]}

MCTagsOf == <<{t1, t2}, {t1}>>

\* A short matrix, as a workflow provider may have it, that resolves, reopens and closes.
MCMatrix ==
  [s \in Statuses |->
     CASE s \in {"new", "reopened"} -> {"resolved"}
       [] s = "resolved" -> {"closed", "reopened"}
       [] s = "closed" -> {"reopened"}
       [] OTHER -> {}]
=============================================================================
