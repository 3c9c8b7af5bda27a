--------------------------- MODULE MCNotifications ---------------------------
(* Notifications for TLC.                                                  *)
EXTENDS Notifications, TLC

CONSTANTS author, dev, lead, comment, activity

Two == {author, dev}
Three == {author, dev, lead}
MCSources == {comment, activity}

Interchangeable == Permutations(Workers)

\* A comment of author that mentions dev, which everybody watches.
Comment ==
  {[type |-> t, source |-> comment, actor |-> author, named |-> {dev}] :
     t \in {"mentioned", "comment_added"}}

\* An assignment to dev, for the counterexamples; a change of status.
Assignment ==
  {[type |-> "bug_assigned", source |-> activity, actor |-> author, named |-> {dev}]}
StatusChange ==
  {[type |-> "status_changed", source |-> activity, actor |-> author, named |-> {}]}
=============================================================================
