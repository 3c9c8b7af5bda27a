--------------------------- MODULE OrganizationsProofs ---------------------------
(***************************************************************************)
(* That the organization is one, keeps an administrator and lets in whom   *)
(* an open invitation names, for any number of people, invitations and     *)
(* overlapping requests.  The argument is about locks: what a request has  *)
(* read of a row that it holds is still so when it decides.                *)
(***************************************************************************)
EXTENDS Organizations, TLAPS

OrganizationMatches == organizations = IF completed THEN 1 ELSE 0

\* Before the set-up nobody is a member, invited, or able to invite.
NothingBeforeSetup ==
  ~completed =>
    /\ \A m \in Memberships : role[m] = NoRole
    /\ \A i \in Invitations : invited[i] = {}
    /\ \A r \in Requests : call[r].op # "invite"

SetupIsExclusive ==
  \A r \in Requests : At(r, "setup", "create") => lock[SetupRow] = r /\ ~completed

\* Memberships are locked and decided about by the calls that do so; an
\* invitation that is answered has been made; a look-up lists invitations.
StagesMatchCalls ==
  \A r \in Requests :
    /\ pc[r] \in {"locking", "decide"} => call[r].op \in AdminOps
    /\ call[r].op \in {"accept", "revoke"} => invited[call[r].invitation] # {}
    /\ pc[r] = "find_locked" => todo[r] \subseteq Invitations

\* The memberships that a request has read are locked, and as it read them.
SeenIsTrue ==
  \A r \in Requests : \A m \in Memberships :
    seen[r][m] # NoRole => lock[MembershipRow(m)] = r /\ role[m] = seen[r][m]

HeldIsLocked ==
  \A r \in Requests : \A i \in held[r] : lock[InvitationRow(i)] = r /\ invited[i] # {}

\* An invitation that was found open is locked, and nobody has used it since.
AcceptanceIsExclusive ==
  \A r \in Requests : At(r, "accept", "join") =>
    /\ lock[InvitationRow(call[r].invitation)] = r
    /\ call[r].invitation \notin accepted \union revoked

\* Each invitation is to one person; a member who was invited was invited.
InvitationsAreNamed ==
  \A i \in Invitations :
    /\ \A p, q \in invited[i] : p = q
    /\ role[i] # NoRole => invited[i] # {}

IInv ==
  /\ TypeOK
  /\ OrganizationMatches
  /\ NothingBeforeSetup
  /\ SetupIsExclusive
  /\ StagesMatchCalls
  /\ SeenIsTrue
  /\ HeldIsLocked
  /\ AcceptanceIsExclusive
  /\ InvitationsAreNamed
  /\ AtLeastOneAdministrator
  /\ OneMembershipPerPerson

-----------------------------------------------------------------------------
(* Facts about calls and locks.                                            *)

\* The operation tells which fields a call has.
LEMMA FieldsOfCalls ==
  ASSUME NEW c \in Calls
  PROVE  /\ c.op \in {"setup", "invite", "accept", "revoke", "change_role", "remove"}
         /\ c.op = "invite" => c.email \in Emails /\ c.role \in Roles
         /\ c.op \in {"accept", "revoke"} => c.invitation \in Invitations
         /\ c.op \in AdminOps => c.membership \in Memberships
         /\ c.op = "change_role" => c.role \in Roles
  BY CallsAssumption DEF ServiceCalls, SetupCalls, InviteCalls, InvitationCalls, RoleCalls,
     RemoveCalls, AdminOps

LEMMA FieldsOfRequests ==
  ASSUME TypeOK, NEW r \in Requests
  PROVE  /\ call[r].op = "invite" => call[r].email \in Emails /\ call[r].role \in Roles
         /\ call[r].op \in {"accept", "revoke"} => call[r].invitation \in Invitations
         /\ call[r].op \in AdminOps => call[r].membership \in Memberships
         /\ call[r].op = "change_role" => call[r].role \in Roles
<1>1. CASE call[r] \in Calls
  BY <1>1, FieldsOfCalls
<1>2. CASE call[r] = NoCall
  BY <1>2 DEF NoCall, AdminOps
<1> QED
  BY <1>1, <1>2 DEF TypeOK

LEMMA RowsAreRows ==
  /\ SetupRow \in Rows /\ OrganizationRow \in Rows
  /\ \A i \in Invitations : InvitationRow(i) \in Rows
  /\ \A m \in Memberships : MembershipRow(m) \in Rows
  BY DEF Rows, SetupRow, OrganizationRow, InvitationRow, MembershipRow, Memberships

LEMMA NothingIsTyped == Nothing \in [Memberships -> Roles \union {NoRole}]
  BY DEF Nothing

\* What an answered request leaves to the others.
LEMMA AnswerFrees ==
  ASSUME TypeOK, NEW r \in Requests, Answer(r)
  PROVE  /\ pc' \in [Requests -> Stages] /\ call' \in [Requests -> Calls \union {NoCall}]
         /\ lock' \in [Rows -> Requests \union {Nobody}]
         /\ todo' \in [Requests -> SUBSET Memberships]
         /\ held' \in [Requests -> SUBSET Invitations]
         /\ seen' \in [Requests -> [Memberships -> Roles \union {NoRole}]]
         /\ pc'[r] = "idle" /\ call'[r] = NoCall /\ held'[r] = {}
         /\ \A m \in Memberships : seen'[r][m] = NoRole
         /\ \A q \in Requests \ {r} :
              /\ pc'[q] = pc[q] /\ call'[q] = call[q]
              /\ todo'[q] = todo[q] /\ held'[q] = held[q] /\ seen'[q] = seen[q]
         /\ \A q \in Requests \ {r} : \A x \in Rows : lock[x] = q => lock'[x] = q
  BY NothingIsTyped DEF TypeOK, Answer, Goto, Unlock, Stages, Nothing

\* The others are where they were, and hold what they held.
OthersStay(r) ==
  \A q \in Requests \ {r} :
    /\ pc'[q] = pc[q] /\ call'[q] = call[q]
    /\ todo'[q] = todo[q] /\ held'[q] = held[q] /\ seen'[q] = seen[q]
    /\ \A x \in Rows : lock[x] = q => lock'[x] = q

\* A step that writes no table keeps the invariant if the request that makes
\* it has grounds for what it is about to do.
LEMMA StepWithoutWrite ==
  ASSUME IInv, TypeOK', NEW r \in Requests, OthersStay(r), UNCHANGED tables,
         call'[r].op = "invite" => completed,
         pc'[r] = "create" /\ call'[r].op = "setup" => lock'[SetupRow] = r /\ ~completed,
         pc'[r] \in {"locking", "decide"} => call'[r].op \in AdminOps,
         call'[r].op \in {"accept", "revoke"} => invited[call'[r].invitation] # {},
         pc'[r] = "find_locked" => todo'[r] \subseteq Invitations,
         pc'[r] = "join" /\ call'[r].op = "accept" =>
           /\ lock'[InvitationRow(call'[r].invitation)] = r
           /\ call'[r].invitation \notin accepted \union revoked,
         \A i \in held'[r] : lock'[InvitationRow(i)] = r /\ invited[i] # {},
         \A m \in Memberships : seen'[r][m] # NoRole =>
           lock'[MembershipRow(m)] = r /\ role[m] = seen'[r][m]
  PROVE  IInv'
<1>1. /\ UNCHANGED <<organizations, completed, role, invited, accepted, revoked, expired>>
      /\ \A q \in Requests : q = r \/
           /\ pc'[q] = pc[q] /\ call'[q] = call[q]
           /\ todo'[q] = todo[q] /\ held'[q] = held[q] /\ seen'[q] = seen[q]
           /\ \A x \in Rows : lock[x] = q => lock'[x] = q
  BY DEF tables, invitations, OthersStay
<1>2. TypeOK
  BY DEF IInv
<1>3. OrganizationMatches' /\ NothingBeforeSetup'
  BY <1>1 DEF IInv, OrganizationMatches, NothingBeforeSetup
<1>4. SetupIsExclusive'
  BY <1>1, RowsAreRows DEF IInv, SetupIsExclusive, At
<1>5. StagesMatchCalls'
  BY <1>1 DEF IInv, StagesMatchCalls
<1>6. AcceptanceIsExclusive'
  BY <1>1, <1>2, RowsAreRows, FieldsOfRequests DEF IInv, AcceptanceIsExclusive, At
<1>7. SeenIsTrue'
  BY <1>1, RowsAreRows DEF IInv, SeenIsTrue
<1>8. HeldIsLocked'
  <2>1. \A q \in Requests : \A i \in held[q] : i \in Invitations
    BY <1>2 DEF TypeOK
  <2> QED
    BY <1>1, <2>1, RowsAreRows DEF IInv, HeldIsLocked
<1>9. InvitationsAreNamed' /\ AtLeastOneAdministrator'
  BY <1>1 DEF IInv, InvitationsAreNamed, AtLeastOneAdministrator
<1>10. OneMembershipPerPerson'
  BY <1>1 DEF IInv, OneMembershipPerPerson, EmailOf
<1> QED
  BY <1>3, <1>4, <1>5, <1>6, <1>7, <1>8, <1>9, <1>10 DEF IInv

\* An answer that writes nothing.
LEMMA RaiseKeeps ==
  ASSUME IInv, NEW r \in Requests, Raise(r)
  PROVE  IInv'
<1>1. TypeOK /\ Answer(r) /\ UNCHANGED tables
  BY DEF IInv, Raise
<1>2. OthersStay(r) /\ pc'[r] = "idle" /\ call'[r] = NoCall /\ held'[r] = {}
      /\ \A m \in Memberships : seen'[r][m] = NoRole
  BY <1>1, AnswerFrees DEF OthersStay
<1>3. TypeOK'
  BY <1>1, AnswerFrees DEF TypeOK, tables, invitations
<1> QED
  BY <1>1, <1>2, <1>3, StepWithoutWrite DEF NoCall, AdminOps

LEMMA SubmitKeeps ==
  ASSUME IInv, NEW r \in Requests, Submit(r)
  PROVE  IInv'
<1>1. PICK c \in Calls :
        /\ MayStart(c)
        /\ call' = [call EXCEPT ![r] = c]
        /\ pc' = [pc EXCEPT ![r] = FirstStage(c.op)]
  BY DEF Submit, Goto
<1>2. TypeOK /\ UNCHANGED <<tables, lock, todo, held, seen>>
  BY DEF IInv, Submit
<1>3. FirstStage(c.op) \in {"lock", "check", "write", "list"}
  BY FieldsOfCalls DEF FirstStage
<1>4. /\ c.op = "invite" => completed
      /\ c.op \in {"accept", "revoke"} => invited[c.invitation] # {}
  BY <1>1, FieldsOfCalls DEF MayStart, Pending
<1>5. OthersStay(r) /\ pc'[r] = FirstStage(c.op) /\ call'[r] = c
  BY <1>1, <1>2 DEF OthersStay, TypeOK
<1>6. TypeOK'
  BY <1>1, <1>2, <1>3 DEF TypeOK, tables, invitations, Stages
<1>7. /\ \A i \in held'[r] : lock'[InvitationRow(i)] = r /\ invited[i] # {}
      /\ \A m \in Memberships : seen'[r][m] # NoRole =>
           lock'[MembershipRow(m)] = r /\ role[m] = seen'[r][m]
  BY <1>2 DEF IInv, HeldIsLocked, SeenIsTrue
<1> QED
  BY <1>2, <1>3, <1>4, <1>5, <1>6, <1>7, StepWithoutWrite

-----------------------------------------------------------------------------
(* Steps that lock and look.                                               *)

\* A request that only goes on, to a stage that its call has.
LEMMA KeptByMoving ==
  ASSUME IInv, NEW r \in Requests,
         NEW s \in {"find", "find_locked", "insert", "locking", "decide"},
         pc' = [pc EXCEPT ![r] = s], s \in {"locking", "decide"} => call[r].op \in AdminOps,
         UNCHANGED <<tables, lock, call, held, seen>>,
         NEW d \in SUBSET Memberships, todo' = [todo EXCEPT ![r] = d],
         s = "find_locked" => d \subseteq Invitations
  PROVE  IInv'
<1>1. TypeOK
  BY DEF IInv
<1>2. OthersStay(r) /\ pc'[r] = s /\ todo'[r] = d
  BY <1>1 DEF OthersStay, TypeOK
<1>3. TypeOK'
  BY <1>1 DEF TypeOK, tables, invitations, Stages
<1>4. /\ call[r].op = "invite" => completed
      /\ call[r].op \in {"accept", "revoke"} => invited[call[r].invitation] # {}
      /\ \A i \in held[r] : lock[InvitationRow(i)] = r /\ invited[i] # {}
      /\ \A m \in Memberships : seen[r][m] # NoRole =>
           lock[MembershipRow(m)] = r /\ role[m] = seen[r][m]
  BY DEF IInv, NothingBeforeSetup, StagesMatchCalls, HeldIsLocked, SeenIsTrue
<1> QED
  BY <1>2, <1>3, <1>4, StepWithoutWrite

LEMMA SetupStepKeeps ==
  ASSUME IInv, NEW r \in Requests, LockSetup(r)
  PROVE  IInv'
<1>1. /\ TypeOK /\ UNCHANGED <<tables, call, todo, held, seen>>
      /\ ~completed /\ lock[SetupRow] = Nobody /\ call[r].op = "setup"
      /\ lock' = [x \in Rows |-> IF x \in {SetupRow} THEN r ELSE lock[x]]
      /\ pc' = [pc EXCEPT ![r] = "create"]
  BY DEF IInv, LockSetup, SetupRowFree, Free, Acquire, Goto, At
<1>2. /\ pc'[r] = "create" /\ OthersStay(r)
      /\ \A x \in Rows : lock[x] = r => lock'[x] = r
      /\ lock'[SetupRow] = r
  BY <1>1, NamesAssumption, RowsAreRows DEF TypeOK, OthersStay
<1>3. TypeOK'
  BY <1>1 DEF TypeOK, tables, invitations, Stages
<1>4. /\ \A i \in held'[r] : lock'[InvitationRow(i)] = r /\ invited[i] # {}
      /\ \A m \in Memberships : seen'[r][m] # NoRole =>
           lock'[MembershipRow(m)] = r /\ role[m] = seen'[r][m]
  BY <1>1, <1>2, RowsAreRows DEF IInv, HeldIsLocked, SeenIsTrue, TypeOK
<1> QED
  BY <1>1, <1>2, <1>3, <1>4, StepWithoutWrite

LEMMA CheckMemberKeeps ==
  ASSUME IInv, NEW r \in Requests, CheckMember(r)
  PROVE  IInv'
<1>1. CASE Raise(r)
  BY <1>1, RaiseKeeps
<1>2. CASE ~Raise(r)
  <2>1. /\ TypeOK /\ UNCHANGED <<tables, lock, call, todo, held, seen>>
        /\ pc' = [pc EXCEPT ![r] = "find"] /\ call[r].op = "invite"
    BY <1>2 DEF IInv, CheckMember, Goto, At
  <2>2. todo[r] \in SUBSET Memberships /\ todo' = [todo EXCEPT ![r] = todo[r]]
    BY <2>1 DEF TypeOK
  <2> QED
    BY <2>1, <2>2, KeptByMoving
<1> QED
  BY <1>1, <1>2

LEMMA FindPendingKeeps ==
  ASSUME IInv, NEW r \in Requests, FindPending(r)
  PROVE  IInv'
<1>1. PICK s \in {"insert", "find_locked"}, found \in SUBSET Invitations :
        /\ todo' = [todo EXCEPT ![r] = found]
        /\ pc' = [pc EXCEPT ![r] = s]
  BY DEF FindPending, Goto
<1>2. TypeOK /\ UNCHANGED <<tables, lock, call, held, seen>>
  BY DEF IInv, FindPending
<1>3. found \in SUBSET Memberships
  BY DEF Memberships
<1> QED
  BY <1>1, <1>2, <1>3, KeptByMoving

LEMMA ListMembershipsKeeps ==
  ASSUME IInv, NEW r \in Requests, ListMemberships(r)
  PROVE  IInv'
<1>1. PICK listed \in SUBSET Memberships : todo' = [todo EXCEPT ![r] = listed]
  BY DEF ListMemberships
<1>2. /\ UNCHANGED <<tables, lock, call, held, seen>>
      /\ pc' = [pc EXCEPT ![r] = "locking"] /\ call[r].op \in AdminOps
  BY DEF ListMemberships, Goto
<1> QED
  BY <1>1, <1>2, KeptByMoving

LEMMA LockPendingKeeps ==
  ASSUME IInv, NEW r \in Requests, LockPending(r)
  PROVE  IInv'
<1>1. CASE Raise(r)
  BY <1>1, RaiseKeeps
<1>2. CASE ~Raise(r)
  <2>1. PICK i \in todo[r] :
          /\ lock[InvitationRow(i)] = Nobody
          /\ \/ /\ Pending(i) /\ Acquire(r, {InvitationRow(i)})
                /\ held' = [held EXCEPT ![r] = {i}]
             \/ UNCHANGED <<lock, held>>
          /\ todo' = [todo EXCEPT ![r] = {}]
          /\ pc' = [pc EXCEPT ![r] = "insert"]
          /\ UNCHANGED <<tables, call, seen>>
    BY <1>2 DEF LockPending, Free, Goto
  <2>2. TypeOK /\ call[r].op = "invite" /\ todo[r] \subseteq Invitations
    BY DEF IInv, LockPending, At, StagesMatchCalls
  <2>3. CASE UNCHANGED <<lock, held>>
    BY <2>1, <2>3, KeptByMoving
  <2>4. CASE /\ Pending(i) /\ Acquire(r, {InvitationRow(i)})
             /\ held' = [held EXCEPT ![r] = {i}]
    <3>1. i \in Invitations /\ invited[i] # {}
      BY <2>2, <2>4 DEF Pending, TypeOK
    <3>2. /\ lock' = [x \in Rows |-> IF x \in {InvitationRow(i)} THEN r ELSE lock[x]]
          /\ held' = [held EXCEPT ![r] = {i}]
      BY <2>4 DEF Acquire
    <3>3. /\ OthersStay(r) /\ held'[r] = {i} /\ pc'[r] = "insert"
          /\ \A x \in Rows : lock[x] = r => lock'[x] = r
          /\ lock'[InvitationRow(i)] = r
      BY <2>1, <2>2, <3>1, <3>2, NamesAssumption, RowsAreRows DEF TypeOK, OthersStay
    <3>4. TypeOK'
      BY <2>1, <2>2, <3>1, <3>2 DEF TypeOK, tables, invitations, Stages
    <3>5. \A m \in Memberships : seen'[r][m] # NoRole =>
            lock'[MembershipRow(m)] = r /\ role[m] = seen'[r][m]
      BY <2>1, <3>3, RowsAreRows DEF IInv, SeenIsTrue
    <3>6. call[r].op = "invite" => completed
      BY DEF IInv, NothingBeforeSetup
    <3> QED
      BY <2>1, <2>2, <3>1, <3>3, <3>4, <3>5, <3>6, StepWithoutWrite
  <2> QED
    BY <2>1, <2>3, <2>4
<1> QED
  BY <1>1, <1>2

LEMMA LockInvitationKeeps ==
  ASSUME IInv, NEW r \in Requests, LockInvitation(r)
  PROVE  IInv'
<1> DEFINE i == call[r].invitation
<1>1. CASE Raise(r)
  BY <1>1, RaiseKeeps
<1>2. CASE ~Raise(r)
  <2>1. /\ TypeOK /\ UNCHANGED <<tables, call, todo, held, seen>>
        /\ call[r].op = "accept" /\ i \notin accepted \union revoked
        /\ lock[InvitationRow(i)] = Nobody /\ lock[OrganizationRow] = Nobody
        /\ lock' = [x \in Rows |-> IF x \in {InvitationRow(i), OrganizationRow} THEN r
                                   ELSE lock[x]]
        /\ pc' = [pc EXCEPT ![r] = "join"]
    BY <1>2 DEF IInv, LockInvitation, MayAccept, Free, Acquire, Goto, At
  <2>2. i \in Invitations /\ invited[i] # {}
    BY <2>1, FieldsOfRequests DEF IInv, StagesMatchCalls
  <2>3. /\ OthersStay(r) /\ pc'[r] = "join"
        /\ \A x \in Rows : lock[x] = r => lock'[x] = r
        /\ lock'[InvitationRow(i)] = r
    BY <2>1, <2>2, NamesAssumption, RowsAreRows DEF TypeOK, OthersStay
  <2>4. TypeOK'
    BY <2>1 DEF TypeOK, tables, invitations, Stages
  <2>5. \A m \in Memberships : seen'[r][m] # NoRole =>
          lock'[MembershipRow(m)] = r /\ role[m] = seen'[r][m]
    BY <2>1, <2>3, RowsAreRows DEF IInv, SeenIsTrue
  <2>6. \A j \in held'[r] : lock'[InvitationRow(j)] = r /\ invited[j] # {}
    <3>1. \A j \in held[r] : j \in Invitations
      BY <2>1 DEF TypeOK
    <3> QED
      BY <2>1, <2>3, <3>1, RowsAreRows DEF IInv, HeldIsLocked
  <2> QED
    BY <2>1, <2>2, <2>3, <2>4, <2>5, <2>6, StepWithoutWrite
<1> QED
  BY <1>1, <1>2

LEMMA LockMembershipKeeps ==
  ASSUME IInv, NEW r \in Requests, LockMembership(r)
  PROVE  IInv'
<1>1. PICK m \in todo[r] :
        /\ lock[MembershipRow(m)] = Nobody
        /\ todo' = [todo EXCEPT ![r] = @ \ {m}]
        /\ \/ /\ role[m] # NoRole /\ LockRow(r, m)
              /\ seen' = [seen EXCEPT ![r][m] = role[m]]
           \/ UNCHANGED <<lock, seen>>
        /\ pc' = [pc EXCEPT ![r] = IF todo[r] = {m} THEN "decide" ELSE "locking"]
  BY DEF LockMembership, Free, Goto
<1>2. /\ TypeOK /\ UNCHANGED <<tables, call, held>> /\ call[r].op \in AdminOps
      /\ m \in Memberships
  BY DEF IInv, LockMembership, StagesMatchCalls, TypeOK
<1>3. /\ todo[r] \ {m} \in SUBSET Memberships
      /\ todo' = [todo EXCEPT ![r] = todo[r] \ {m}]
  BY <1>1, <1>2 DEF TypeOK
<1>4. PICK s \in {"decide", "locking"} : pc' = [pc EXCEPT ![r] = s]
  BY <1>1
<1>5. CASE UNCHANGED <<lock, seen>>
  BY <1>2, <1>3, <1>4, <1>5, KeptByMoving
<1>6. CASE role[m] # NoRole /\ LockRow(r, m) /\ seen' = [seen EXCEPT ![r][m] = role[m]]
  <2>1. lock' = [x \in Rows |-> IF x \in {MembershipRow(m)} THEN r ELSE lock[x]]
    BY <1>6 DEF LockRow, Acquire
  <2>2. /\ OthersStay(r) /\ pc'[r] = s
        /\ \A x \in Rows : lock[x] = r => lock'[x] = r
        /\ lock'[MembershipRow(m)] = r
    BY <1>1, <1>2, <1>4, <1>6, <2>1, NamesAssumption, RowsAreRows DEF TypeOK, OthersStay
  <2>3. TypeOK'
    BY <1>2, <1>3, <1>4, <1>6, <2>1 DEF TypeOK, tables, invitations, Stages
  <2>4. \A n \in Memberships : seen'[r][n] # NoRole =>
          lock'[MembershipRow(n)] = r /\ role[n] = seen'[r][n]
    BY <1>2, <1>6, <2>2, RowsAreRows DEF IInv, SeenIsTrue, TypeOK
  <2>5. \A j \in held'[r] : lock'[InvitationRow(j)] = r /\ invited[j] # {}
    <3>1. \A j \in held[r] : j \in Invitations
      BY <1>2 DEF TypeOK
    <3> QED
      BY <1>2, <2>2, <3>1, RowsAreRows DEF IInv, HeldIsLocked
  <2> QED
    BY <1>2, <2>2, <2>3, <2>4, <2>5, StepWithoutWrite DEF AdminOps
<1> QED
  BY <1>1, <1>5, <1>6

-----------------------------------------------------------------------------
(* Steps that write.                                                       *)

\* What an answered request leaves of the conjuncts about requests, when what
\* it writes does not touch rows that the others hold or have read.
LEMMA StepWithWrite ==
  ASSUME IInv, NEW r \in Requests, Answer(r),
         ~completed' => ~completed /\ UNCHANGED role /\ UNCHANGED invited,
         completed' => completed \/ lock[SetupRow] = r,
         \A i \in Invitations : invited[i] # {} => invited'[i] # {},
         \A i \in Invitations : i \in accepted' \union revoked' =>
           i \in accepted \union revoked \/ lock[InvitationRow(i)] \in {r, Nobody},
         \A m \in Memberships :
           role'[m] = role[m] \/ role[m] = NoRole \/ lock[MembershipRow(m)] = r
  PROVE  /\ NothingBeforeSetup' /\ SetupIsExclusive' /\ StagesMatchCalls'
         /\ SeenIsTrue' /\ HeldIsLocked' /\ AcceptanceIsExclusive'
<1>1. TypeOK
  BY DEF IInv
<1>2. /\ pc'[r] = "idle" /\ call'[r].op = "none" /\ held'[r] = {}
      /\ \A m \in Memberships : seen'[r][m] = NoRole
  BY <1>1, AnswerFrees DEF NoCall
<1>3. \A q \in Requests : q = r \/
        /\ pc'[q] = pc[q] /\ call'[q] = call[q]
        /\ todo'[q] = todo[q] /\ held'[q] = held[q] /\ seen'[q] = seen[q]
        /\ \A x \in Rows : lock[x] = q => lock'[x] = q
  BY <1>1, AnswerFrees
<1>4. NothingBeforeSetup'
  BY <1>2, <1>3 DEF IInv, NothingBeforeSetup
<1>5. SetupIsExclusive'
  BY <1>2, <1>3, RowsAreRows DEF IInv, SetupIsExclusive, At
<1>6. StagesMatchCalls'
  BY <1>1, <1>2, <1>3, FieldsOfRequests DEF IInv, StagesMatchCalls, AdminOps
<1>7. SeenIsTrue'
  BY <1>2, <1>3, RowsAreRows DEF IInv, SeenIsTrue
<1>8. HeldIsLocked'
  <2>1. \A q \in Requests : \A i \in held[q] : i \in Invitations
    BY <1>1 DEF TypeOK
  <2> QED
    BY <1>2, <1>3, <2>1, RowsAreRows DEF IInv, HeldIsLocked
<1>9. AcceptanceIsExclusive'
  BY <1>1, <1>2, <1>3, RowsAreRows, FieldsOfRequests, NamesAssumption
     DEF IInv, AcceptanceIsExclusive, At
<1> QED
  BY <1>4, <1>5, <1>6, <1>7, <1>8, <1>9

LEMMA CreateOrganizationKeeps ==
  ASSUME IInv, NEW r \in Requests, CreateOrganization(r)
  PROVE  IInv'
<1>1. /\ TypeOK /\ Answer(r)
      /\ organizations' = organizations + 1 /\ completed'
      /\ role' = [role EXCEPT ![Setup] = Administrator]
      /\ UNCHANGED <<invited, accepted, revoked, expired>>
  BY DEF IInv, CreateOrganization, invitations
<1>2. ~completed /\ lock[SetupRow] = r
  BY DEF IInv, SetupIsExclusive, CreateOrganization
<1>3. \A m \in Memberships : role[m] = NoRole
  BY <1>2 DEF IInv, NothingBeforeSetup
<1>4. completed' = TRUE
  BY DEF CreateOrganization
<1>5. Setup \in Memberships /\ Setup \notin Invitations
  BY NamesAssumption DEF Memberships
<1>6. TypeOK'
  BY <1>1, <1>4, <1>5, AnswerFrees DEF TypeOK, Roles
<1>7. OrganizationMatches'
  BY <1>1, <1>2, <1>4 DEF IInv, OrganizationMatches
<1>8. InvitationsAreNamed'
  BY <1>1, <1>5 DEF IInv, InvitationsAreNamed, TypeOK, Memberships
<1>9. AtLeastOneAdministrator'
  BY <1>1, <1>5 DEF AtLeastOneAdministrator, TypeOK
<1>10. OneMembershipPerPerson'
  BY <1>1, <1>3 DEF OneMembershipPerPerson, TypeOK
<1> QED
  BY <1>1, <1>2, <1>3, <1>4, <1>6, <1>7, <1>8, <1>9, <1>10, StepWithWrite DEF IInv

LEMMA RevokeKeeps ==
  ASSUME IInv, NEW r \in Requests, Revoke(r)
  PROVE  IInv'
<1> DEFINE i == call[r].invitation
<1>1. /\ TypeOK /\ Answer(r) /\ lock[InvitationRow(i)] = Nobody
      /\ revoked' = revoked \union {i}
      /\ UNCHANGED <<organizations, completed, role, invited, accepted, expired>>
  BY DEF IInv, Revoke, Free
<1>2. i \in Invitations /\ invited[i] # {}
  BY <1>1, FieldsOfRequests DEF IInv, StagesMatchCalls, Revoke, At
<1>3. TypeOK'
  BY <1>1, <1>2, AnswerFrees DEF TypeOK
<1>4. OrganizationMatches' /\ InvitationsAreNamed' /\ AtLeastOneAdministrator'
  BY <1>1 DEF IInv, OrganizationMatches, InvitationsAreNamed, AtLeastOneAdministrator
<1>5. OneMembershipPerPerson'
  BY <1>1 DEF IInv, OneMembershipPerPerson, EmailOf
<1> QED
  BY <1>1, <1>2, <1>3, <1>4, <1>5, StepWithWrite DEF IInv

LEMMA InsertInvitationKeeps ==
  ASSUME IInv, NEW r \in Requests, InsertInvitation(r)
  PROVE  IInv'
<1>1. PICK i \in Invitations :
        invited[i] = {} /\ invited' = [invited EXCEPT ![i] = {<<call[r].email, call[r].role>>}]
  BY DEF InsertInvitation
<1>2. /\ TypeOK /\ Answer(r) /\ call[r].op = "invite"
      /\ revoked' = revoked \union held[r]
      /\ UNCHANGED <<organizations, completed, role, accepted, expired>>
  BY DEF IInv, InsertInvitation, At
<1>3. call[r].email \in Emails /\ call[r].role \in Roles /\ completed
  BY <1>2, FieldsOfRequests DEF IInv, NothingBeforeSetup
<1>4. held[r] \subseteq Invitations
      /\ \A j \in held[r] : lock[InvitationRow(j)] = r /\ invited[j] # {}
  BY <1>2 DEF IInv, HeldIsLocked, TypeOK
<1>5. \A j \in Invitations : j # i => invited'[j] = invited[j]
  BY <1>1, <1>2 DEF TypeOK
<1>6. invited'[i] = {<<call[r].email, call[r].role>>}
  BY <1>1, <1>2 DEF TypeOK
<1>7. invited' \in [Invitations -> SUBSET (Emails \X Roles)]
  BY <1>1, <1>2, <1>3 DEF TypeOK
<1>8. TypeOK'
  <2>1. \A j \in Invitations : invited[j] # {} => invited'[j] # {}
    BY <1>5, <1>6
  <2>2. accepted' \union revoked' \union expired' \subseteq {j \in Invitations : invited'[j] # {}}
    BY <1>2, <1>4, <2>1 DEF TypeOK
  <2> QED
    BY <1>2, <1>7, <2>2, AnswerFrees DEF TypeOK
<1>9. OrganizationMatches' /\ AtLeastOneAdministrator'
  BY <1>2 DEF IInv, OrganizationMatches, AtLeastOneAdministrator
<1>10. role[i] = NoRole
  BY <1>1 DEF IInv, InvitationsAreNamed
<1>11. InvitationsAreNamed'
  <2>1. ASSUME NEW j \in Invitations
        PROVE  /\ \A p, q \in invited'[j] : p = q
               /\ role[j] # NoRole => invited'[j] # {}
    BY <1>5, <1>6, <1>10 DEF IInv, InvitationsAreNamed
  <2> QED
    BY <1>2, <2>1 DEF InvitationsAreNamed
<1>12. OneMembershipPerPerson'
  <2>1. \A m \in Memberships : role[m] # NoRole => EmailOf(m)' = EmailOf(m)
    BY <1>5, <1>10 DEF EmailOf, Memberships
  <2> QED
    BY <1>2, <2>1 DEF IInv, OneMembershipPerPerson
<1> QED
  BY <1>2, <1>3, <1>4, <1>5, <1>6, <1>8, <1>9, <1>11, <1>12, StepWithWrite DEF IInv

LEMMA JoinKeeps ==
  ASSUME IInv, NEW r \in Requests, Join(r)
  PROVE  IInv'
<1> DEFINE i == call[r].invitation
<1>1. PICK p \in invited[i] : role' = IF IsMember(p[1]) THEN role ELSE [role EXCEPT ![i] = p[2]]
  BY DEF Join
<1>2. /\ TypeOK /\ Answer(r) /\ call[r].op = "accept" /\ pc[r] = "join"
      /\ accepted' = accepted \union {i}
      /\ UNCHANGED <<organizations, completed, invited, revoked, expired>>
  BY DEF IInv, Join, At
<1>3. /\ i \in Invitations /\ p[1] \in Emails /\ p[2] \in Roles
      /\ p[2] # NoRole /\ i \in Memberships
  <2>1. i \in Invitations
    BY <1>2, FieldsOfRequests
  <2>2. p \in Emails \X Roles
    BY <1>1, <1>2, <2>1 DEF TypeOK
  <2> QED
    BY <2>1, <2>2 DEF Roles, NoRole, Administrator, Memberships
<1>4. lock[InvitationRow(i)] = r /\ completed
  BY <1>1, <1>2, <1>3 DEF IInv, AcceptanceIsExclusive, NothingBeforeSetup, At
<1>5. EmailOf(i) = {p[1]}
  BY <1>1, <1>3, NamesAssumption DEF IInv, InvitationsAreNamed, EmailOf
<1>6. role[i] # NoRole => IsMember(p[1])
  BY <1>3, <1>5 DEF IsMember
<1>7. \/ role' = role
      \/ ~IsMember(p[1]) /\ role[i] = NoRole /\ role' = [role EXCEPT ![i] = p[2]]
  BY <1>1, <1>6
<1>8. \A m \in Memberships : m # i => role'[m] = role[m]
  BY <1>2, <1>7 DEF TypeOK
<1>9. role'[i] = role[i] \/ role[i] = NoRole
  BY <1>7
<1>10. TypeOK'
  BY <1>1, <1>2, <1>3, <1>7, AnswerFrees DEF TypeOK
<1>11. OrganizationMatches'
  BY <1>2 DEF IInv, OrganizationMatches
<1>12. InvitationsAreNamed'
  BY <1>1, <1>2, <1>3, <1>8 DEF IInv, InvitationsAreNamed, Memberships
<1>13. AtLeastOneAdministrator'
  BY <1>2, <1>3, <1>8, <1>9 DEF IInv, AtLeastOneAdministrator, Administrator, NoRole
<1>14. OneMembershipPerPerson'
  <2>1. \A m \in Memberships : EmailOf(m)' = EmailOf(m)
    BY <1>2 DEF EmailOf
  <2>2. CASE role' = role
    BY <2>1, <2>2 DEF IInv, OneMembershipPerPerson
  <2>3. CASE ~IsMember(p[1])
    <3>1. \A m \in Memberships : role[m] # NoRole => p[1] \notin EmailOf(m)
      BY <2>3 DEF IsMember
    <3> QED
      BY <1>5, <1>8, <2>1, <3>1 DEF IInv, OneMembershipPerPerson
  <2> QED
    BY <1>7, <2>2, <2>3
<1> QED
  BY <1>2, <1>3, <1>4, <1>8, <1>9, <1>10, <1>11, <1>12, <1>13, <1>14, StepWithWrite DEF IInv

\* The heart of it: another administrator is among the rows that the request
\* has read and still holds, or the target is none.
LEMMA WriteMembershipKeeps ==
  ASSUME IInv, NEW r \in Requests, WriteMembership(r)
  PROVE  IInv'
<1> DEFINE c == call[r]
<1> DEFINE t == c.membership
<1>1. /\ TypeOK /\ Answer(r) /\ pc[r] = "decide" /\ Allowed(r)
      /\ role' = [role EXCEPT ![t] = IF c.op = "change_role" THEN c.role ELSE NoRole]
      /\ UNCHANGED <<organizations, completed, invited, accepted, revoked, expired>>
  BY DEF IInv, WriteMembership, invitations
<1>2. t \in Memberships /\ (c.op = "change_role" => c.role \in Roles)
  BY <1>1, FieldsOfRequests DEF IInv, StagesMatchCalls
<1>3. role[t] # NoRole /\ role[t] = seen[r][t] /\ lock[MembershipRow(t)] = r
  BY <1>1, <1>2 DEF IInv, SeenIsTrue, Allowed
<1>4. \A m \in Memberships : m # t => role'[m] = role[m]
  BY <1>1 DEF TypeOK
<1>5. role'[t] = IF c.op = "change_role" THEN c.role ELSE NoRole
  BY <1>1, <1>2 DEF TypeOK
<1>6. TypeOK'
  BY <1>1, <1>2, AnswerFrees DEF TypeOK
<1>7. completed
  BY <1>2, <1>3 DEF IInv, NothingBeforeSetup
<1>8. AtLeastOneAdministrator'
  <2>1. CASE role[t] # Administrator
    BY <1>4, <1>7, <2>1 DEF IInv, AtLeastOneAdministrator
  <2>2. CASE c.op = "change_role" /\ c.role = Administrator
    BY <1>2, <1>5, <2>2 DEF AtLeastOneAdministrator
  <2>3. CASE RemainingAdministrators(r) # {}
    <3>1. PICK m \in Memberships : seen[r][m] = Administrator /\ m # t
      BY <2>3 DEF RemainingAdministrators
    <3>2. role[m] = Administrator
      BY <3>1 DEF IInv, SeenIsTrue, Administrator, NoRole
    <3> QED
      BY <1>4, <3>1, <3>2 DEF AtLeastOneAdministrator
  <2> QED
    BY <1>1, <1>3, <2>1, <2>2, <2>3 DEF Allowed
<1>9. OrganizationMatches'
  BY <1>1 DEF IInv, OrganizationMatches
<1>10. InvitationsAreNamed'
  BY <1>1, <1>3, <1>4 DEF IInv, InvitationsAreNamed, Memberships
<1>11. OneMembershipPerPerson'
  <2>1. \A m \in Memberships : EmailOf(m)' = EmailOf(m) /\ (role'[m] # NoRole => role[m] # NoRole)
    BY <1>1, <1>3, <1>4 DEF EmailOf
  <2> QED
    BY <2>1 DEF IInv, OneMembershipPerPerson
<1> QED
  BY <1>1, <1>3, <1>4, <1>6, <1>7, <1>8, <1>9, <1>10, <1>11, StepWithWrite DEF IInv

LEMMA ExpireKeeps ==
  ASSUME IInv, NEW i \in Invitations, Expire(i)
  PROVE  IInv'
<1>1. /\ TypeOK /\ invited[i] # {} /\ expired' = expired \union {i}
      /\ UNCHANGED <<organizations, completed, role, invited, accepted, revoked>>
      /\ UNCHANGED <<lock, pc, call, todo, held, seen>>
  BY DEF IInv, Expire, Open, Pending, reqs
<1>2. TypeOK'
  BY <1>1 DEF TypeOK
<1>3. /\ OrganizationMatches' /\ NothingBeforeSetup' /\ SetupIsExclusive' /\ StagesMatchCalls'
      /\ SeenIsTrue' /\ HeldIsLocked' /\ AcceptanceIsExclusive' /\ InvitationsAreNamed'
      /\ AtLeastOneAdministrator' /\ OneMembershipPerPerson'
  BY <1>1 DEF IInv, OrganizationMatches, NothingBeforeSetup, SetupIsExclusive, StagesMatchCalls,
     SeenIsTrue, HeldIsLocked, AcceptanceIsExclusive, InvitationsAreNamed, At,
     AtLeastOneAdministrator, OneMembershipPerPerson, EmailOf
<1> QED
  BY <1>2, <1>3 DEF IInv

LEMMA InitHolds == Init => IInv
<1> SUFFICES ASSUME Init PROVE IInv
  OBVIOUS
<1>1. TypeOK
  BY NothingIsTyped DEF Init, TypeOK, Stages
<1>2. /\ OrganizationMatches /\ NothingBeforeSetup /\ SetupIsExclusive /\ StagesMatchCalls
      /\ SeenIsTrue /\ HeldIsLocked /\ AcceptanceIsExclusive /\ InvitationsAreNamed
      /\ AtLeastOneAdministrator /\ OneMembershipPerPerson
  BY DEF Init, OrganizationMatches, NothingBeforeSetup, SetupIsExclusive, StagesMatchCalls,
     SeenIsTrue, HeldIsLocked, AcceptanceIsExclusive, InvitationsAreNamed, At, NoCall, Nothing,
     Memberships, AtLeastOneAdministrator, OneMembershipPerPerson, AdminOps
<1> QED
  BY <1>1, <1>2 DEF IInv

LEMMA StepKeeps ==
  ASSUME IInv, [Next]_vars
  PROVE  IInv'
<1>1. ASSUME NEW r \in Requests, Serve(r) PROVE IInv'
  <2>1. CASE RefuseSetup(r) \/ RefuseInvitation(r) \/ RefuseWrite(r) \/ DeadlockAbort(r)
    BY <2>1, RaiseKeeps DEF RefuseSetup, RefuseInvitation, RefuseWrite, DeadlockAbort, AnswerVictim
  <2>2. CASE LockSetup(r) \/ CreateOrganization(r)
    BY <2>2, SetupStepKeeps, CreateOrganizationKeeps
  <2>3. CASE CheckMember(r) \/ FindPending(r) \/ LockPending(r) \/ InsertInvitation(r)
    BY <2>3, CheckMemberKeeps, FindPendingKeeps, LockPendingKeeps, InsertInvitationKeeps
  <2>4. CASE LockInvitation(r) \/ Join(r) \/ Revoke(r)
    BY <2>4, LockInvitationKeeps, JoinKeeps, RevokeKeeps
  <2>5. CASE ListMemberships(r) \/ LockMembership(r) \/ WriteMembership(r)
    BY <2>5, ListMembershipsKeeps, LockMembershipKeeps, WriteMembershipKeeps
  <2> QED
    BY <1>1, <2>1, <2>2, <2>3, <2>4, <2>5 DEF Serve
<1>2. CASE UNCHANGED vars
  <2>1. /\ UNCHANGED <<organizations, completed, role, invited, accepted, revoked, expired>>
        /\ UNCHANGED <<lock, pc, call, todo, held, seen>>
    BY <1>2 DEF vars, tables, invitations, reqs
  <2>2. TypeOK'
    BY <2>1 DEF IInv, TypeOK
  <2>3. /\ OrganizationMatches' /\ NothingBeforeSetup' /\ SetupIsExclusive' /\ StagesMatchCalls'
        /\ SeenIsTrue' /\ HeldIsLocked' /\ AcceptanceIsExclusive' /\ InvitationsAreNamed'
        /\ AtLeastOneAdministrator' /\ OneMembershipPerPerson'
    BY <2>1 DEF IInv, OrganizationMatches, NothingBeforeSetup, SetupIsExclusive, StagesMatchCalls,
       SeenIsTrue, HeldIsLocked, AcceptanceIsExclusive, InvitationsAreNamed, At,
       AtLeastOneAdministrator, OneMembershipPerPerson, EmailOf
  <2> QED
    BY <2>2, <2>3 DEF IInv
<1> QED
  BY <1>1, <1>2, SubmitKeeps, ExpireKeeps DEF Next

-----------------------------------------------------------------------------
(* The theorems.                                                           *)

\* The invariant: what a request has read under a lock is still so.
THEOREM InvariantHolds == Spec => []IInv
<1>1. IInv /\ [Next]_vars => IInv'
  BY StepKeeps
<1> QED
  BY <1>1, InitHolds, PTL DEF Spec

\* change_member_role and remove_member: however many demotions and removals
\* overlap, somebody can administer the instance.
THEOREM AdministratorRemains == Spec => []AtLeastOneAdministrator
<1>1. IInv => AtLeastOneAdministrator
  BY DEF IInv
<1> QED
  BY <1>1, InvariantHolds, PTL

\* setup_instance: however many browsers finish the set-up page, there is one
\* organization.
THEOREM OrganizationIsOne == Spec => []OneOrganization
<1>1. IInv => OneOrganization
  BY DEF IInv, OrganizationMatches, OneOrganization
<1> QED
  BY <1>1, InvariantHolds, PTL

\* accept_invitation: nobody becomes a member twice.
THEOREM PeopleJoinOnce == Spec => []OneMembershipPerPerson
<1>1. IInv => OneMembershipPerPerson
  BY DEF IInv
<1> QED
  BY <1>1, InvariantHolds, PTL

\* accept_invitation: a used or revoked invitation lets nobody in, nor one that
\* had expired when the request that accepts it held its row and looked.
THEOREM NobodyElseGetsIn == Spec => MembershipsComeFromOpenInvitations
<1>1. ASSUME IInv, [Next]_vars, NEW i \in Invitations, role[i] = NoRole, role'[i] # NoRole
      PROVE  /\ i \in accepted' \ (accepted \union revoked)
             /\ \E r \in Requests : At(r, "accept", "join") /\ call[r].invitation = i
  <2>1. TypeOK /\ i \in Memberships /\ i # Setup
    BY <1>1, NamesAssumption DEF IInv, Memberships
  <2>2. PICK r \in Requests : Serve(r)
    BY <1>1 DEF Next, Submit, Expire, vars, tables
  <2>3. CASE CreateOrganization(r)
    BY <1>1, <2>1, <2>3 DEF CreateOrganization, TypeOK
  <2>4. CASE WriteMembership(r)
    <3>1. seen[r][call[r].membership] # NoRole /\ call[r].membership \in Memberships
      BY <1>1, <2>1, <2>4, FieldsOfRequests
         DEF IInv, StagesMatchCalls, WriteMembership, Allowed
    <3>2. role[call[r].membership] # NoRole
      BY <1>1, <3>1 DEF IInv, SeenIsTrue
    <3> QED
      BY <1>1, <2>1, <2>4, <3>2 DEF WriteMembership, TypeOK
  <2>5. CASE Join(r)
    <3>1. call[r].invitation = i
      BY <1>1, <2>1, <2>5 DEF Join, TypeOK
    <3> QED
      BY <1>1, <2>5, <3>1 DEF IInv, AcceptanceIsExclusive, Join, At
  <2>6. CASE UNCHANGED role
    BY <1>1, <2>6
  <2>7. \/ CreateOrganization(r) \/ WriteMembership(r) \/ Join(r) \/ UNCHANGED role
    BY <2>2 DEF Serve, LockSetup, RefuseSetup, CheckMember, FindPending, LockPending,
       InsertInvitation, RefuseInvitation, LockInvitation, Revoke, ListMemberships,
       LockMembership, RefuseWrite, DeadlockAbort, AnswerVictim, Raise, tables
  <2> QED
    BY <2>3, <2>4, <2>5, <2>6, <2>7
<1>2. ASSUME IInv, [Next]_vars, NEW r \in Requests, pc[r] # "join", pc'[r] = "join"
      PROVE  Open(call[r].invitation)
  <2>1. pc \in [Requests -> Stages] /\ StagesMatchCalls
    BY <1>2 DEF IInv, TypeOK
  <2>2. PICK q \in Requests : Submit(q) \/ Serve(q)
    BY <1>2 DEF Next, Expire, vars, reqs
  <2>3. CASE LockInvitation(q) /\ Goto(q, "join")
    <3>1. q = r
      BY <1>2, <2>1, <2>3 DEF Goto
    <3>2. MayAccept(call[r].invitation) /\ call[r].op = "accept"
      <4>1. ~Raise(q)
        BY <2>1, <2>3 DEF Raise, Answer, Goto
      <4> QED
        BY <2>3, <3>1, <4>1 DEF LockInvitation, At
    <3> QED
      BY <2>1, <3>2 DEF StagesMatchCalls, MayAccept, Open, Pending
  <2>4. CASE \E s \in Stages \ {"join"} : Goto(q, s)
    BY <1>2, <2>1, <2>4 DEF Goto
  <2>5. (LockInvitation(q) /\ Goto(q, "join")) \/ \E s \in Stages \ {"join"} : Goto(q, s)
    <3>1. CASE Submit(q)
      <4>1. PICK c \in Calls : Goto(q, FirstStage(c.op))
        BY <3>1 DEF Submit
      <4>2. FirstStage(c.op) \in Stages \ {"join"}
        BY FieldsOfCalls DEF FirstStage, Stages, AdminOps
      <4> QED
        BY <4>1, <4>2
    <3>2. CASE Answer(q)
      BY <3>2 DEF Answer, Stages
    <3>3. CASE Serve(q) /\ ~Answer(q)
      BY <3>3 DEF Serve, LockSetup, RefuseSetup, CreateOrganization, CheckMember, FindPending,
         LockPending, InsertInvitation, RefuseInvitation, LockInvitation, Join, Revoke,
         ListMemberships, LockMembership, WriteMembership, RefuseWrite, DeadlockAbort,
         AnswerVictim, Raise, Stages
    <3> QED
      BY <2>2, <3>1, <3>2, <3>3
  <2> QED
    BY <2>3, <2>4, <2>5
<1>3. IInv /\ [Next]_vars =>
        [/\ \A i \in Invitations : role[i] = NoRole /\ role'[i] # NoRole =>
              /\ i \in accepted' \ (accepted \union revoked)
              /\ \E r \in Requests : At(r, "accept", "join") /\ call[r].invitation = i
         /\ \A r \in Requests : pc[r] # "join" /\ pc'[r] = "join" =>
              Open(call[r].invitation)]_vars
  BY <1>1, <1>2
<1> QED
  BY <1>3, InvariantHolds, PTL DEF Spec, MembershipsComeFromOpenInvitations
=============================================================================
