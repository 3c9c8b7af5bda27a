--------------------------- MODULE MCOrganizations ---------------------------
(* Organizations for TLC.                                                  *)
EXTENDS Organizations, TLC

CONSTANTS ann, bob

\* ann sets up the instance; bob is invited, twice; everybody who is an
\* administrator demotes and removes whom they like.
AllCalls ==
  {[op |-> "setup"], [op |-> "invite", email |-> bob, role |-> Administrator]}
  \union [op : {"accept", "revoke"}, invitation : Invitations]
  \union [op : {"change_role"}, membership : Memberships, role : {"other"}]
  \union [op : {"remove"}, membership : Memberships]
=============================================================================
