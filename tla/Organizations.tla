----------------------------- MODULE Organizations -----------------------------
(***************************************************************************)
(* The organization: apps/organizations/services.py with the views that    *)
(* call it.  setup_instance creates it once; invitations are created,      *)
(* accepted, revoked and expire; roles change and members leave under      *)
(* locks that a request takes on all memberships, row by row.              *)
(***************************************************************************)
EXTENDS Naturals, FiniteSets

CONSTANTS
  Emails,       \* people, each with one e-mail address and at most one account
  Founder,      \* the e-mail given to setup_instance
  Invitations,  \* invitation rows: a bound, since each is used once
  Setup,        \* the origin of the founder's membership
  Requests,     \* slots for requests in progress
  Nobody,       \* a row is not locked
  Calls         \* the service calls that clients make

Administrator == "administrator"
Roles == {Administrator, "other"}     \* the services tell no more roles apart
NoRole == "none"                      \* there is no such membership

\* A membership row is created by setup_instance or by one accepted invitation.
Memberships == Invitations \union {Setup}

InviteCalls == [op : {"invite"}, email : Emails, role : Roles]
InvitationCalls == [op : {"accept", "revoke"}, invitation : Invitations]
RoleCalls == [op : {"change_role"}, membership : Memberships, role : Roles]
RemoveCalls == [op : {"remove"}, membership : Memberships]
SetupCalls == [op : {"setup"}]

ServiceCalls ==
  SetupCalls \union InviteCalls \union InvitationCalls \union RoleCalls \union RemoveCalls

ASSUME NamesAssumption ==
  Founder \in Emails /\ Setup \notin Invitations /\ Nobody \notin Requests
ASSUME CallsAssumption == \A c \in Calls : c \in ServiceCalls

Rows ==
  ({"membership"} \X Memberships) \union ({"invitation"} \X Invitations)
    \union {<<"setup_lock", Setup>>, <<"organization", Setup>>}

SetupRow == <<"setup_lock", Setup>>
OrganizationRow == <<"organization", Setup>>
InvitationRow(i) == <<"invitation", i>>
MembershipRow(m) == <<"membership", m>>

VARIABLES
  organizations,   \* how many have been created
  completed,       \* completed_at of the SetupLock is not null
  role,            \* role[m]: the role of membership m
  invited,         \* invited[i]: the set of the (email, role) of invitation i
  accepted, revoked, expired,   \* sets of invitations
  lock,            \* lock[x]: the request that holds row x FOR UPDATE
  pc, call,        \* pc[r], call[r]: what request r does next, for which call
  todo,            \* todo[r]: rows that r has listed and must lock
  held,            \* held[r]: the expired invitation that r will revoke
  seen             \* seen[r]: roles of the memberships r has locked, as it read them

invitations == <<invited, accepted, revoked, expired>>
tables == <<organizations, completed, role, invitations>>
reqs == <<lock, pc, call, todo, held, seen>>
vars == <<tables, reqs>>

NoCall == [op |-> "none"]
Nothing == [m \in Memberships |-> NoRole]
Stages == {"idle", "lock", "create", "check", "find", "find_locked", "insert",
           "join", "write", "list", "locking", "decide"}

Init ==
  /\ organizations = 0
  /\ completed = FALSE
  /\ role = [m \in Memberships |-> NoRole]
  /\ invited = [i \in Invitations |-> {}]
  /\ accepted = {} /\ revoked = {} /\ expired = {}
  /\ lock = [x \in Rows |-> Nobody]
  /\ pc = [r \in Requests |-> "idle"]
  /\ call = [r \in Requests |-> NoCall]
  /\ todo = [r \in Requests |-> {}]
  /\ held = [r \in Requests |-> {}]
  /\ seen = [r \in Requests |-> Nothing]

TypeOK ==
  /\ organizations \in Nat
  /\ completed \in BOOLEAN
  /\ role \in [Memberships -> Roles \union {NoRole}]
  /\ invited \in [Invitations -> SUBSET (Emails \X Roles)]
  /\ accepted \union revoked \union expired \subseteq {i \in Invitations : invited[i] # {}}
  /\ lock \in [Rows -> Requests \union {Nobody}]
  /\ pc \in [Requests -> Stages]
  /\ call \in [Requests -> Calls \union {NoCall}]
  /\ todo \in [Requests -> SUBSET Memberships]
  /\ held \in [Requests -> SUBSET Invitations]
  /\ seen \in [Requests -> [Memberships -> Roles \union {NoRole}]]

-----------------------------------------------------------------------------
EmailOf(m) == IF m = Setup THEN {Founder} ELSE {p[1] : p \in invited[m]}

Pending(i) == invited[i] # {} /\ i \notin accepted \union revoked
Open(i) == Pending(i) /\ i \notin expired

\* Mutant: the lookup filters on the role as well.
IsMemberOther(email) ==
  \E m \in Memberships : role[m] = "other" /\ email \in EmailOf(m)

IsMember(email) == \E m \in Memberships : role[m] # NoRole /\ email \in EmailOf(m)

At(r, op, stage) == call[r].op = op /\ pc[r] = stage
Goto(r, stage) == pc' = [pc EXCEPT ![r] = stage]
Free(x) == lock[x] = Nobody
Acquire(r, S) == lock' = [x \in Rows |-> IF x \in S THEN r ELSE lock[x]]

Unlock(r) == [x \in Rows |-> IF lock[x] = r THEN Nobody ELSE lock[x]]

\* The end of the transaction releases its locks.
Answer(r) ==
  /\ Goto(r, "idle")
  /\ call' = [call EXCEPT ![r] = NoCall]
  /\ todo' = [todo EXCEPT ![r] = {}]
  /\ held' = [held EXCEPT ![r] = {}]
  /\ seen' = [seen EXCEPT ![r] = Nothing]
  /\ lock' = Unlock(r)

Raise(r) == Answer(r) /\ UNCHANGED tables

\* What the view finds before it calls the service: somebody is a member when
\* an administrator calls, the row of the detail route exists.
MayStart(c) ==
  CASE c.op = "setup" -> TRUE
    [] c.op = "invite" -> completed
    [] c.op = "accept" -> invited[c.invitation] # {}
    [] c.op = "revoke" -> Pending(c.invitation)
    [] c.op \in {"change_role", "remove"} -> role[c.membership] # NoRole

FirstStage(op) ==
  CASE op \in {"setup", "accept"} -> "lock"
    [] op = "invite" -> "check"
    [] op = "revoke" -> "write"
    [] op \in {"change_role", "remove"} -> "list"

Submit(r) ==
  /\ pc[r] = "idle"
  /\ \E c \in Calls :
       /\ MayStart(c)
       /\ call' = [call EXCEPT ![r] = c]
       /\ Goto(r, FirstStage(c.op))
  /\ UNCHANGED <<tables, lock, todo, held, seen>>

-----------------------------------------------------------------------------
(* setup_instance.                                                         *)

\* Mutant: get() instead of select_for_update().get().
SetupRowFreeUnlocked == TRUE

SetupRowFree == Free(SetupRow)

LockSetup(r) ==
  /\ At(r, "setup", "lock")
  /\ SetupRowFree
  /\ ~completed /\ organizations = 0
  /\ Acquire(r, {SetupRow})
  /\ Goto(r, "create")
  /\ UNCHANGED <<tables, call, todo, held, seen>>

\* SetupAlreadyCompleted, or SetupNotAllowed.
RefuseSetup(r) ==
  /\ At(r, "setup", "lock")
  /\ SetupRowFree
  /\ completed \/ organizations > 0
  /\ Raise(r)

CreateOrganization(r) ==
  /\ At(r, "setup", "create")
  /\ organizations' = organizations + 1
  /\ role' = [role EXCEPT ![Setup] = Administrator]
  /\ completed' = TRUE
  /\ Answer(r)
  /\ UNCHANGED invitations

-----------------------------------------------------------------------------
(* create_invitation.                                                      *)

CheckMember(r) ==
  /\ At(r, "invite", "check")
  /\ IF IsMember(call[r].email) THEN Raise(r)
     ELSE /\ Goto(r, "find")
          /\ UNCHANGED <<tables, lock, call, todo, held, seen>>

\* The SELECT ... FOR UPDATE finds the pending invitation of its snapshot,
FindPending(r) ==
  LET found == {i \in Invitations : Pending(i) /\ call[r].email \in EmailOf(i)}
  IN /\ At(r, "invite", "find")
     /\ todo' = [todo EXCEPT ![r] = found]
     /\ Goto(r, IF found = {} THEN "insert" ELSE "find_locked")
     /\ UNCHANGED <<tables, lock, call, held, seen>>

\* waits for its lock and looks again: the row may no longer qualify.
LockPending(r) ==
  /\ At(r, "invite", "find_locked")
  /\ \E i \in todo[r] :
       /\ Free(InvitationRow(i))
       /\ IF Open(i) THEN Raise(r)
          ELSE /\ IF Pending(i)
                  THEN Acquire(r, {InvitationRow(i)}) /\ held' = [held EXCEPT ![r] = {i}]
                  ELSE UNCHANGED <<lock, held>>
               /\ todo' = [todo EXCEPT ![r] = {}]
               /\ Goto(r, "insert")
               /\ UNCHANGED <<tables, call, seen>>

\* unique_pending_invitation_per_email
WouldDuplicate(r) ==
  \E i \in Invitations \ held[r] : Pending(i) /\ call[r].email \in EmailOf(i)

\* An expired invitation is revoked to make room for the new one.  The row's
\* foreign key waits for whoever holds the organization.
InsertInvitation(r) ==
  /\ At(r, "invite", "insert")
  /\ Free(OrganizationRow)
  /\ ~WouldDuplicate(r)
  /\ \E i \in Invitations :
       /\ invited[i] = {}
       /\ invited' = [invited EXCEPT ![i] = {<<call[r].email, call[r].role>>}]
  /\ revoked' = revoked \union held[r]
  /\ Answer(r)
  /\ UNCHANGED <<organizations, completed, role, accepted, expired>>

\* IntegrityError; or the bound on invitations.
RefuseInvitation(r) ==
  /\ At(r, "invite", "insert")
  /\ WouldDuplicate(r) \/ \A i \in Invitations : invited[i] # {}
  /\ Raise(r)

-----------------------------------------------------------------------------
(* accept_invitation and revoke_invitation.                                *)

\* Mutant: the expiry is not looked at.
MayAcceptExpired(i) == i \notin accepted \union revoked

MayAccept(i) == i \notin accepted \union revoked /\ i \notin expired

\* select_for_update with select_related locks the organization as well.
LockInvitation(r) ==
  LET i == call[r].invitation
  IN /\ At(r, "accept", "lock")
     /\ Free(InvitationRow(i)) /\ Free(OrganizationRow)
     /\ IF MayAccept(i)
        THEN /\ Acquire(r, {InvitationRow(i), OrganizationRow})
             /\ Goto(r, "join")
             /\ UNCHANGED <<tables, call, todo, held, seen>>
        ELSE Raise(r)

\* Both get_or_create calls: a member keeps the membership there is.
Join(r) ==
  LET i == call[r].invitation
  IN /\ At(r, "accept", "join")
     /\ \E p \in invited[i] :
          role' = IF IsMember(p[1]) THEN role ELSE [role EXCEPT ![i] = p[2]]
     /\ accepted' = accepted \union {i}
     /\ Answer(r)
     /\ UNCHANGED <<organizations, completed, invited, revoked, expired>>

\* An UPDATE by primary key, of an invitation the view has found pending.
Revoke(r) ==
  LET i == call[r].invitation
  IN /\ At(r, "revoke", "write")
     /\ Free(InvitationRow(i))
     /\ revoked' = revoked \union {i}
     /\ Answer(r)
     /\ UNCHANGED <<organizations, completed, role, invited, accepted, expired>>

Expire(i) ==
  /\ Open(i)
  /\ expired' = expired \union {i}
  /\ UNCHANGED <<organizations, completed, role, invited, accepted, revoked, reqs>>

-----------------------------------------------------------------------------
(* change_member_role and remove_member.                                   *)

AdminOps == {"change_role", "remove"}

\* _lock_organization_memberships: the rows of the statement's snapshot,
ListMemberships(r) ==
  /\ call[r].op \in AdminOps /\ pc[r] = "list"
  /\ todo' = [todo EXCEPT ![r] = {m \in Memberships : role[m] # NoRole}]
  /\ Goto(r, "locking")
  /\ UNCHANGED <<tables, lock, call, held, seen>>

\* Mutant: the rows are read without select_for_update.
LockRowUnlocked(r, m) == UNCHANGED lock

LockRow(r, m) == Acquire(r, {MembershipRow(m)})

\* each read once it is free and locked, in no particular order; one that
\* has been deleted meanwhile is left out.
LockMembership(r) ==
  /\ pc[r] = "locking"
  /\ \E m \in todo[r] :
       /\ Free(MembershipRow(m))
       /\ todo' = [todo EXCEPT ![r] = @ \ {m}]
       /\ IF role[m] # NoRole
          THEN LockRow(r, m) /\ seen' = [seen EXCEPT ![r][m] = role[m]]
          ELSE UNCHANGED <<lock, seen>>
       /\ Goto(r, IF todo[r] = {m} THEN "decide" ELSE "locking")
  /\ UNCHANGED <<tables, call, held>>

\* _remaining_administrators, over the rows that were returned.
RemainingAdministrators(r) ==
  {m \in Memberships : seen[r][m] = Administrator /\ m # call[r].membership}

\* The target is among the rows returned, and is not the last administrator.
Allowed(r) ==
  LET c == call[r]
  IN /\ seen[r][c.membership] # NoRole
     /\ \/ seen[r][c.membership] # Administrator
        \/ c.op = "change_role" /\ c.role = Administrator
        \/ RemainingAdministrators(r) # {}

WriteMembership(r) ==
  LET c == call[r]
  IN /\ pc[r] = "decide"
     /\ Allowed(r)
     /\ role' = [role EXCEPT ![c.membership] =
                   IF c.op = "change_role" THEN c.role ELSE NoRole]
     /\ Answer(r)
     /\ UNCHANGED <<organizations, completed, invitations>>

\* LastAdministratorError, or StopIteration when the row is gone.
RefuseWrite(r) ==
  /\ pc[r] = "decide"
  /\ ~Allowed(r)
  /\ Raise(r)

\* Row locks that wait for each other: PostgreSQL aborts one transaction.
Blocked(r, S) ==
  /\ pc[r] = "locking"
  /\ \A m \in todo[r] : lock[MembershipRow(m)] \in S \ {r}

\* Mutant: the victim starts over.
AnswerVictimRetry(r) ==
  /\ Goto(r, "list")
  /\ todo' = [todo EXCEPT ![r] = {}]
  /\ held' = [held EXCEPT ![r] = {}]
  /\ seen' = [seen EXCEPT ![r] = Nothing]
  /\ lock' = Unlock(r)
  /\ UNCHANGED <<tables, call>>

AnswerVictim(r) == Raise(r)

DeadlockAbort(r) ==
  /\ \E S \in SUBSET Requests : r \in S /\ \A q \in S : Blocked(q, S)
  /\ AnswerVictim(r)

Serve(r) ==
  \/ LockSetup(r) \/ RefuseSetup(r) \/ CreateOrganization(r)
  \/ CheckMember(r) \/ FindPending(r) \/ LockPending(r)
  \/ InsertInvitation(r) \/ RefuseInvitation(r)
  \/ LockInvitation(r) \/ Join(r) \/ Revoke(r)
  \/ ListMemberships(r) \/ LockMembership(r)
  \/ WriteMembership(r) \/ RefuseWrite(r)
  \/ DeadlockAbort(r)

Next ==
  \/ \E r \in Requests : Submit(r) \/ Serve(r)
  \/ \E i \in Invitations : Expire(i)

Spec == Init /\ [][Next]_vars

\* A request in progress is served, and PostgreSQL hands a row lock to the
\* requests that wait for it in turn.
FairSpec == Spec /\ \A r \in Requests : SF_vars(Serve(r))

-----------------------------------------------------------------------------
(* Properties.                                                             *)

\* LastAdministratorError: once the instance is configured, somebody can
\* administer it, however demotions and removals overlap.
AtLeastOneAdministrator ==
  completed => \E m \in Memberships : role[m] = Administrator

\* setup_instance: "Race-safe via SetupLock".
OneOrganization == organizations <= 1

\* An invitation that was used, revoked or has expired lets nobody in.  A
\* membership appears only as a request accepts an invitation that nobody has
\* used or revoked until then, and which had not expired either when the
\* request found it so: it may expire between that and the answer.
MembershipsComeFromOpenInvitations ==
  [][/\ \A i \in Invitations : role[i] = NoRole /\ role'[i] # NoRole =>
          /\ i \in accepted' \ (accepted \union revoked)
          /\ \E r \in Requests : At(r, "accept", "join") /\ call[r].invitation = i
     /\ \A r \in Requests : pc[r] # "join" /\ pc'[r] = "join" =>
          Open(call[r].invitation)]_vars

\* unique_membership_per_org: nobody has two memberships.
OneMembershipPerPerson ==
  \A m, n \in Memberships :
    m # n /\ role[m] # NoRole /\ role[n] # NoRole => EmailOf(m) \intersect EmailOf(n) = {}

\* Every request is answered: no order of locking blocks for ever.
AllAnswered == \A r \in Requests : (pc[r] # "idle") ~> (pc[r] = "idle")

\* --- A claim of the repository that the code refutes.

\* create_invitation: "This email already belongs to a member of this
\* organization" stands for every invitation that can still be accepted.
OpenInvitationsAreForStrangers ==
  \A i \in Invitations : Open(i) => \A e \in EmailOf(i) : ~IsMember(e)
=============================================================================
