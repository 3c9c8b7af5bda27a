-------------------------------- MODULE MCBugs --------------------------------
(* Instances of Bugs for TLC: who the users are, and which calls are made. *)
EXTENDS Bugs, TLC

CONSTANTS adm, dev, rep    \* an administrator, a developer, a reporter

MCUsers == {adm, dev, rep}
MCReporter == [b \in Bugs |-> rep]
MCRoles == [u \in MCUsers |-> CASE u = adm -> "administrator"
                                [] u = dev -> "developer"
                                [] OTHER -> "reporter"]

Move(u, b, s) == [op |-> "transition_bug", user |-> u, bug |-> b, status |-> s,
                  other |-> NoBug, assignee |-> Unset]
MoveWith(u, b, s, a) == [Move(u, b, s) EXCEPT !.assignee = a]
MarkDuplicate(u, b, o) == [Move(u, b, "duplicate") EXCEPT !.other = o]
AssignTo(u, b, a) == [op |-> "assign_bug", user |-> u, bug |-> b, assignee |-> a]
Edit(u, b, f, v) == [op |-> "update_bug", user |-> u, bug |-> b, field |-> f, value |-> v]
Shelve(u, b, o) == [op |-> o, user |-> u, bug |-> b]
TagWith(u, b, o, t) == [op |-> o, user |-> u, bug |-> b, tag |-> t]
Relate(u, b, o, t) == [op |-> "create_relationship", user |-> u, bug |-> b,
                       other |-> o, type |-> t]
Unrelate(u, b, f, t, ty) == [op |-> "remove_relationship", user |-> u, bug |-> b,
                             row |-> [from |-> f, to |-> t, type |-> ty]]

Interchangeable == Permutations(Requests)

\* One bug, everything that can happen to its row.
RowCalls ==
  { Edit(rep, 1, "text", 1),
    Move(dev, 1, "triaged"), MoveWith(adm, 1, "assigned", NoUser),
    MoveWith(dev, 1, "in_progress", dev),
    Move(dev, 1, "wont_fix"), Move(rep, 1, "reopened"),
    AssignTo(adm, 1, dev), AssignTo(dev, 1, NoUser),
    Shelve(adm, 1, "archive_bug"), Shelve(adm, 1, "restore_bug") }

\* Links between four bugs: marked around a ring with a fourth bug beside it, so
\* that every request's second bug is another's first, related from both ends and
\* unlinked; one of them is archived and one tagged and untagged.
WebCalls ==
  { MarkDuplicate(dev, 1, 2), MarkDuplicate(adm, 2, 3), MarkDuplicate(dev, 3, 1),
    MarkDuplicate(dev, 4, 1),
    Relate(dev, 1, 2, "relates_to"), Relate(adm, 2, 1, "relates_to"),
    Unrelate(adm, 2, 1, 2, "relates_to"), Shelve(adm, 2, "archive_bug"),
    TagWith(dev, 4, "add_tag", 1), TagWith(dev, 4, "remove_tag", 1) }

\* Marking duplicates, any bug of any other, nothing ever reopened.
MarkCalls == UNION { {MarkDuplicate(dev, b, o) : o \in Bugs \ {b}} : b \in Bugs }

\* The same, and bugs are reopened and triaged to be marked again.
RemarkCalls == MarkCalls \union {Move(dev, b, "reopened") : b \in Bugs}
                         \union {Move(dev, b, "triaged") : b \in Bugs}

\* Assignments around the removal of a member.
HandOverCalls == {AssignTo(adm, b, u) : b \in Bugs, u \in {adm, dev}}
=============================================================================
