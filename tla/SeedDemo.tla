------------------------------- MODULE SeedDemo -------------------------------
(***************************************************************************)
(* The command seed_demo, which fills the demo organization and is run     *)
(* again to repair it.  It is no transaction: it calls one service after   *)
(* the other, each of which commits, so that a run that dies leaves what   *)
(* it has done, and visitors, administrators and a second run come in      *)
(* between.                                                                *)
(***************************************************************************)
EXTENDS Naturals, Sequences, FiniteSets

CONSTANTS
  Runs,        \* processes that run the command, again and again
  PERSONAS,    \* the e-mail addresses, in order, the administrator's first
  DEMO_PROJECTS, DEMO_BUGS,    \* keys and titles, in order
  ProjectOf,   \* ProjectOf[t]: the project of bug t
  StepsOf,     \* StepsOf[t]: the assignment and the transitions of bug t
  DuplicateOf, \* DuplicateOf[t]: the bug that the last of them names, or None
  MaxBugs, MaxEvents,    \* bounds on rows, and on what others do
  None

Elements(s) == {s[i] : i \in DOMAIN s}

SeedAssumption ==
  /\ None \notin Runs /\ "lost" \notin Runs /\ None \notin [archived : BOOLEAN, edited : BOOLEAN]
  /\ \A list \in {PERSONAS, DEMO_PROJECTS, DEMO_BUGS} :
       list \in Seq(Elements(list)) /\ list # <<>>
  /\ MaxBugs \in Nat /\ MaxEvents \in Nat
  /\ \A t \in Elements(DEMO_BUGS) :
       ProjectOf[t] \in Elements(DEMO_PROJECTS) /\ StepsOf[t] \in Nat /\ DuplicateOf[t] # t

VARIABLES
  settings,      \* "development", or "demo": production, disposable, with DEMO_ADMIN_PASSWORD
  organization,  \* "none", "demo" or "other"
  account,       \* account[p]: "none", "documented", "deployed" or "changed" name and password
  role,          \* role[p]: role of the membership, "none" without one
  invitation,    \* invitation[p]: the run that holds its token, "lost", or None
  project,       \* project[k]: None or [archived, edited]
  bugs,          \* sequence of [title, steps, handled, archived]
  pc, at,        \* stage of a run, and how far it is in the list of the stage
  found,         \* found[r]: the row that run r has read
  events,        \* how much others have done
  alone,         \* alone[r]: nobody else has done anything since r began
  repeat         \* repeat[r]: r began on content that was already there

people == <<account, role, invitation>>
tables == <<organization, people, project, bugs>>
history == <<events, alone, repeat>>
vars == <<settings, tables, pc, at, found, history>>

Admin == PERSONAS[1]
RoleOf(p) == IF p = Admin THEN "administrator" ELSE "developer"

\* Mutant: the personas as they are documented.
PasswordOfDocumented(p) == "documented"

\* _resolve_personas: the documented password of the administrator is
\* replaced in a demo deployment.
PasswordOf(p) == IF p = Admin /\ settings = "demo" THEN "deployed" ELSE "documented"

\* A bug that is created, walked and then backdated in two statements, the
\* activities' and its own.
Whole(t) == StepsOf[t] + 2

Untitled == "renamed"
HasTitle(t) == \E i \in DOMAIN bugs : bugs[i].title = t

PersonaReady(p) ==
  /\ role[p] = RoleOf(p)
  /\ account[p] = IF p = Admin /\ settings = "demo" THEN "deployed" ELSE "documented"
ProjectReady(k) == project[k] = [archived |-> FALSE, edited |-> FALSE]

\* What the command is there for.
Ready ==
  /\ organization = "demo"
  /\ \A p \in Elements(PERSONAS) : PersonaReady(p)
  /\ \A k \in Elements(DEMO_PROJECTS) : ProjectReady(k)
  /\ \A t \in Elements(DEMO_BUGS) : HasTitle(t)

Init ==
  /\ settings \in {"development", "demo"}
  /\ organization \in {"none", "other"}
  /\ account = [p \in Elements(PERSONAS) |-> "none"]
  /\ role = [p \in Elements(PERSONAS) |-> "none"]
  /\ invitation = [p \in Elements(PERSONAS) |-> None]
  /\ project = [k \in Elements(DEMO_PROJECTS) |-> None]
  /\ bugs = <<>>
  /\ pc = [r \in Runs |-> "idle"]
  /\ at = [r \in Runs |-> 1]
  /\ found = [r \in Runs |-> None]
  /\ events = 0
  /\ alone = [r \in Runs |-> FALSE]
  /\ repeat = [r \in Runs |-> FALSE]

-----------------------------------------------------------------------------
(* How a run goes on.                                                      *)

Others(r) == Runs \ {r}

\* Nobody but r is alone from here on.
Disturbs(r) == alone' = [q \in Runs |-> q = r /\ alone[q]]

Acts(r, stage) == pc[r] = stage /\ Disturbs(r) /\ UNCHANGED <<settings, events, repeat>>

Goto(r, stage) == pc' = [pc EXCEPT ![r] = stage] /\ UNCHANGED at

\* The next element of the list, or the next stage.
Advance(r, list, stage, after) ==
  IF at[r] < Len(list)
  THEN pc' = [pc EXCEPT ![r] = stage] /\ at' = [at EXCEPT ![r] = @ + 1]
  ELSE pc' = [pc EXCEPT ![r] = after] /\ at' = [at EXCEPT ![r] = 1]

NextPersona(r) == Advance(r, PERSONAS, "member", "project")
NextProject(r) == Advance(r, DEMO_PROJECTS, "project", "bug")
NextBug(r) == Advance(r, DEMO_BUGS, "bug", "report")

\* An exception that nothing handles ends the command.
Raise(r) == Goto(r, "failed") /\ UNCHANGED <<tables, found>>

\* _seeding_permitted and _resolve_personas have let it through.
Start(r) ==
  /\ pc[r] = "idle"
  /\ pc' = [pc EXCEPT ![r] = "organization"]
  /\ at' = [at EXCEPT ![r] = 1]
  /\ alone' = [q \in Runs |-> q = r /\ \A o \in Others(r) : pc[o] = "idle"]
  /\ repeat' = [repeat EXCEPT ![r] = Ready]
  /\ UNCHANGED <<settings, tables, found, events>>

-----------------------------------------------------------------------------
(* The organization and its members.                                       *)

FindOrganization(r) ==
  /\ Acts(r, "organization")
  /\ Goto(r, IF organization = "demo" THEN "member" ELSE "setup")
  /\ UNCHANGED <<tables, found>>

\* SetupAlreadyCompleted becomes a CommandError.
SetUp(r) ==
  /\ Acts(r, "setup")
  /\ IF organization # "none" THEN Raise(r)
     ELSE /\ organization' = "demo"
          /\ account' = [account EXCEPT ![Admin] = PasswordOf(Admin)]
          /\ role' = [role EXCEPT ![Admin] = "administrator"]
          /\ Goto(r, "member")
          /\ UNCHANGED <<invitation, project, bugs, found>>

Persona(r) == PERSONAS[at[r]]

FindMember(r) ==
  /\ Acts(r, "member")
  /\ found' = [found EXCEPT ![r] = role[Persona(r)]]
  /\ Goto(r, IF role[Persona(r)] = "none" THEN "invite" ELSE "sync")
  /\ UNCHANGED tables

\* _sync_persona.
SyncMember(r) ==
  /\ Acts(r, "sync")
  /\ account' = [account EXCEPT ![Persona(r)] = PasswordOf(Persona(r))]
  /\ IF found[r] \in {"none", RoleOf(Persona(r))} THEN NextPersona(r) ELSE Goto(r, "role")
  /\ UNCHANGED <<organization, role, invitation, project, bugs, found>>

OtherAdministrators(p) == {q \in DOMAIN role \ {p} : role[q] = "administrator"}

\* change_member_role; LastAdministratorError ends the command.
ChangeRole(r) ==
  /\ Acts(r, "role")
  /\ LET p == Persona(r) IN
     IF \/ role[p] = "none"
        \/ role[p] = "administrator" /\ RoleOf(p) # "administrator" /\ OtherAdministrators(p) = {}
     THEN Raise(r)
     ELSE /\ role' = [role EXCEPT ![p] = RoleOf(p)]
          /\ NextPersona(r)
          /\ UNCHANGED <<organization, account, invitation, project, bugs, found>>

\* Mutant: an invitation that is already pending ends the command.
WhenPendingRaise == "failed"

WhenPending == "revoke"

\* create_invitation, for the first time; a membership that has come up
\* since is taken as it is.
Invite(r) ==
  /\ Acts(r, "invite")
  /\ LET p == Persona(r) IN
     IF role[p] # "none" THEN Goto(r, "sync") /\ UNCHANGED invitation
     ELSE IF invitation[p] # None THEN Goto(r, WhenPending) /\ UNCHANGED invitation
     ELSE invitation' = [invitation EXCEPT ![p] = r] /\ Goto(r, "accept")
  /\ UNCHANGED <<organization, account, role, project, bugs, found>>

\* "Leftover from an earlier interrupted run".
RevokeLeftover(r) ==
  /\ Acts(r, "revoke")
  /\ IF invitation[Persona(r)] = None THEN Raise(r)
     ELSE /\ invitation' = [invitation EXCEPT ![Persona(r)] = None]
          /\ Goto(r, "invite again")
          /\ UNCHANGED <<organization, account, role, project, bugs, found>>

InviteAgain(r) ==
  /\ Acts(r, "invite again")
  /\ IF role[Persona(r)] # "none" \/ invitation[Persona(r)] # None THEN Raise(r)
     ELSE /\ invitation' = [invitation EXCEPT ![Persona(r)] = r]
          /\ Goto(r, "accept")
          /\ UNCHANGED <<organization, account, role, project, bugs, found>>

\* accept_invitation: an account that is there keeps its password.
Accept(r) ==
  /\ Acts(r, "accept")
  /\ LET p == Persona(r) IN
     IF invitation[p] # r THEN Raise(r)
     ELSE /\ account' = [account EXCEPT ![p] = IF @ = "none" THEN PasswordOf(p) ELSE @]
          /\ role' = [role EXCEPT ![p] = IF @ = "none" THEN RoleOf(p) ELSE @]
          /\ invitation' = [invitation EXCEPT ![p] = None]
          /\ Goto(r, "sync")
          /\ UNCHANGED <<organization, project, bugs, found>>

-----------------------------------------------------------------------------
(* Projects and bugs.                                                      *)

Key(r) == DEMO_PROJECTS[at[r]]

FindProject(r) ==
  /\ Acts(r, "project")
  /\ found' = [found EXCEPT ![r] = project[Key(r)]]
  /\ LET row == project[Key(r)] IN
     IF row = None THEN Goto(r, "create project")
     ELSE IF row.archived THEN Goto(r, "restore")
     ELSE IF row.edited THEN Goto(r, "update") ELSE NextProject(r)
  /\ UNCHANGED tables

\* DuplicateProjectKey is not handled.
CreateProject(r) ==
  /\ Acts(r, "create project")
  /\ IF project[Key(r)] # None THEN Raise(r)
     ELSE /\ project' = [project EXCEPT ![Key(r)] = [archived |-> FALSE, edited |-> FALSE]]
          /\ NextProject(r)
          /\ UNCHANGED <<organization, people, bugs, found>>

\* needs_update, after restore_project.
NeedsUpdate(row) == row.edited

RestoreProject(r) ==
  /\ Acts(r, "restore")
  /\ project' = [project EXCEPT ![Key(r)].archived = FALSE]
  /\ IF NeedsUpdate(found[r]) THEN Goto(r, "update") ELSE NextProject(r)
  /\ UNCHANGED <<organization, people, bugs, found>>

UpdateProject(r) ==
  /\ Acts(r, "update")
  /\ project' = [project EXCEPT ![Key(r)].edited = FALSE]
  /\ NextProject(r)
  /\ UNCHANGED <<organization, people, bugs, found>>

Title(r) == DEMO_BUGS[at[r]]

\* Mutant: only a bug that nobody has changed counts.
IsThereUntouched(t) == \E i \in DOMAIN bugs : bugs[i].title = t /\ ~bugs[i].handled

IsThere(t) == HasTitle(t)

\* A bug with the title is taken as it is.
FindBug(r) ==
  /\ Acts(r, "bug")
  /\ IF IsThere(Title(r)) THEN NextBug(r) ELSE Goto(r, "create bug")
  /\ UNCHANGED <<tables, found>>

ProjectOpen(t) == ~project[ProjectOf[t]].archived

CreateBug(r) ==
  /\ Acts(r, "create bug")
  /\ IF ~ProjectOpen(Title(r)) THEN Raise(r)
     ELSE /\ Len(bugs) < MaxBugs
          /\ bugs' = Append(bugs, [title |-> Title(r), steps |-> 0, handled |-> FALSE, archived |-> FALSE])
          /\ found' = [found EXCEPT ![r] = Len(bugs) + 1]
          /\ Goto(r, "walk")
          /\ UNCHANGED <<organization, people, project>>

\* _validate_duplicate_target: bugs_by_title has a bug with the title, and an
\* archived one is refused.
TargetArchived(t) ==
  DuplicateOf[t] # None /\ \E i \in DOMAIN bugs : bugs[i].title = DuplicateOf[t] /\ bugs[i].archived

\* assign_bug, the transitions, and the two statements of
\* backdate_bug_history.  The services want the version that the call
\* before has returned and a project that is not archived.
WalkBug(r) ==
  /\ Acts(r, "walk")
  /\ LET bug == bugs[found[r]]
         step == bug.steps + 1 IN
     IF \/ step <= StepsOf[Title(r)] /\ (bug.handled \/ ~ProjectOpen(Title(r)))
        \/ step = StepsOf[Title(r)] /\ TargetArchived(Title(r))
     THEN Raise(r)
     ELSE /\ bugs' = [bugs EXCEPT ![found[r]].steps = step]
          /\ IF step = Whole(Title(r)) THEN NextBug(r) ELSE UNCHANGED <<pc, at>>
          /\ UNCHANGED <<organization, people, project, found>>

Report(r) ==
  /\ Acts(r, "report")
  /\ Goto(r, "idle")
  /\ found' = [found EXCEPT ![r] = None]
  /\ UNCHANGED tables

-----------------------------------------------------------------------------
(* What else happens.                                                      *)

\* A process that dies, or that has failed, takes its token with it.
Leaves(r) ==
  /\ pc' = [pc EXCEPT ![r] = "idle"]
  /\ at' = [at EXCEPT ![r] = 1]
  /\ found' = [found EXCEPT ![r] = None]
  /\ invitation' = [p \in DOMAIN invitation |-> IF invitation[p] = r THEN "lost" ELSE invitation[p]]
  /\ UNCHANGED <<settings, organization, account, role, project, bugs, alone, repeat>>

Crash(r) ==
  /\ pc[r] \notin {"idle", "failed"}
  /\ events < MaxEvents
  /\ events' = events + 1
  /\ Leaves(r)

ReadError(r) ==
  /\ pc[r] = "failed"
  /\ Leaves(r)
  /\ UNCHANGED events

Interferes ==
  /\ events < MaxEvents
  /\ events' = events + 1
  /\ alone' = [r \in Runs |-> FALSE]
  /\ UNCHANGED <<pc, at, found, repeat>>

\* Visitors work as the personas, whose accounts and roles is_demo_user
\* protects from them.
EditProject(k) ==
  /\ project[k] # None
  /\ Interferes
  /\ \E row \in [archived : BOOLEAN, edited : {TRUE}] : project' = [project EXCEPT ![k] = row]
  /\ UNCHANGED <<settings, organization, people, bugs>>

EditBug(i) ==
  /\ Interferes
  /\ LET bug == bugs[i] IN
     \/ /\ ~bug.archived
        /\ \E title \in {bug.title, Untitled} :
             bugs' = [bugs EXCEPT ![i] = [bug EXCEPT !.title = title, !.handled = TRUE]]
     \/ bugs' = [bugs EXCEPT ![i] = [bug EXCEPT !.archived = ~bug.archived, !.handled = TRUE]]
  /\ UNCHANGED <<settings, organization, people, project>>

\* An operator, in Django admin: a role drifts, an account is changed.
EditMember(p) ==
  /\ role[p] # "none"
  /\ Interferes
  /\ \E new \in {"administrator", "developer", "none"} : role' = [role EXCEPT ![p] = new]
  /\ account' = [account EXCEPT ![p] = "changed"]
  /\ UNCHANGED <<settings, organization, invitation, project, bugs>>

\* The database of a development install is deployed as a demo.
Deploy ==
  /\ settings = "development"
  /\ \A r \in Runs : pc[r] = "idle"
  /\ settings' = "demo"
  /\ Interferes
  /\ UNCHANGED tables

Run(r) ==
  \/ FindOrganization(r) \/ SetUp(r)
  \/ FindMember(r) \/ SyncMember(r) \/ ChangeRole(r) \/ Invite(r)
  \/ RevokeLeftover(r) \/ InviteAgain(r) \/ Accept(r)
  \/ FindProject(r) \/ CreateProject(r) \/ RestoreProject(r) \/ UpdateProject(r)
  \/ FindBug(r) \/ CreateBug(r) \/ WalkBug(r) \/ Report(r)

Environment ==
  \/ \E k \in Elements(DEMO_PROJECTS) : EditProject(k)
  \/ \E i \in DOMAIN bugs : EditBug(i)
  \/ \E p \in Elements(PERSONAS) : EditMember(p)
  \/ Deploy

Next ==
  \/ \E r \in Runs : Start(r) \/ Run(r) \/ Crash(r) \/ ReadError(r)
  \/ Environment

Spec == Init /\ [][Next]_vars

-----------------------------------------------------------------------------
(* Properties.                                                             *)

\* Whatever runs that died, an operator and visitors have left behind
\* ("Leftover from an earlier interrupted run"), a run that nobody disturbs
\* gets through, unless the instance belongs to another organization or the
\* target of a duplicate that it has to make again is archived, and what it
\* reports is there: every persona with its role and password (never
\* the documented one of the administrator in a demo deployment), every
\* project open and as specified, a bug for every title.
LoneRunDelivers ==
  \A r \in Runs : alone[r] =>
    /\ pc[r] = "failed" =>
         organization = "other" \/ \E t \in Elements(DEMO_BUGS) : TargetArchived(t)
    /\ pc[r] = "report" => Ready

\* "Idempotent": a run on content that is already there changes nothing.
RepeatChangesNothing ==
  [][\A r \in Runs : pc[r] # "idle" /\ alone'[r] /\ repeat[r] => UNCHANGED tables]_vars

\* --- Claims of the repository that the code refutes.

\* "Idempotent - safe to re-run.  Refuses to run if a different organization
\* is already configured": nothing else stops a run that nobody disturbs.
SafeToReRun ==
  \A r \in Runs : alone[r] /\ pc[r] = "failed" => organization = "other"

\* "Idempotent - safe to re-run": a run that nobody disturbs leaves the bugs
\* in the states that DEMO_BUGS gives them.
ReportedBugsAreWhole ==
  \A r \in Runs : pc[r] = "report" /\ alone[r] =>
    \A i \in DOMAIN bugs : bugs[i].handled \/ bugs[i].steps = Whole(bugs[i].title)

\* Looked up by (project, title) "for idempotency": one bug for each title.
OneBugPerTitle ==
  \A i, j \in DOMAIN bugs : bugs[i].title = bugs[j].title /\ bugs[i].title # Untitled => i = j
=============================================================================
