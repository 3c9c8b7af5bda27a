----------------------------- MODULE SeedingProofs -----------------------------
(***************************************************************************)
(* Theorems about seed_demo, the part "seeding" of Platform, for every     *)
(* number of runs, personas, projects and bugs.  A run that nobody         *)
(* disturbs is the only one that is not idle, so what it has read is still *)
(* so, and what it has made ready stays ready: SeedInv says of each stage  *)
(* what that is.  Of a run that is disturbed it says only that the rows it *)
(* has read are there and which token is its own.                          *)
(***************************************************************************)
EXTENDS Platform, SequenceTheorems, TLAPS

-----------------------------------------------------------------------------
(* The invariant.                                                          *)

Addresses == Seeding!Elements(Personas)
Keys == Seeding!Elements(DemoProjects)
Titles == Seeding!Elements(DemoBugs)

MemberStages == {"member", "sync", "role", "invite", "revoke", "invite again", "accept"}
ProjectStages == {"project", "create project", "restore", "update"}
BugStages == {"bug", "create bug", "walk"}
Stages ==
  {"idle", "organization", "setup", "report", "failed"} \union MemberStages
    \union ProjectStages \union BugStages

Accounts == {"none", "documented", "deployed", "changed"}
RoleNames == {"none", "developer", "administrator"}
ProjectRows == [archived : BOOLEAN, edited : BOOLEAN]
BugRows ==
  [title : Titles \union {Seeding!Untitled}, steps : Nat, handled : BOOLEAN, archived : BOOLEAN]
Findings == RoleNames \union ProjectRows \union Nat \union {None}

DataType ==
  /\ organization \in {"none", "demo", "other"}
  /\ account \in [Addresses -> Accounts]
  /\ role \in [Addresses -> RoleNames]
  /\ invitation \in [Addresses -> Runs \union {"lost", None}]
  /\ project \in [Keys -> ProjectRows \union {None}]
  /\ bugs \in Seq(BugRows)
  /\ found \in [Runs -> Findings]

SeedType ==
  /\ DataType
  /\ seedPc \in [Runs -> Stages]
  /\ at \in [Runs -> Nat]
  /\ alone \in [Runs -> BOOLEAN]
  /\ repeat \in [Runs -> BOOLEAN]

\* How far a run can be in its list.
Places ==
  \A r \in Runs :
    /\ at[r] >= 1
    /\ seedPc[r] \in {"organization", "setup"} => at[r] = 1
    /\ seedPc[r] \in MemberStages => at[r] <= Len(Personas)
    /\ seedPc[r] \in ProjectStages => at[r] <= Len(DemoProjects)
    /\ seedPc[r] \in BugStages => at[r] <= Len(DemoBugs)

\* Rows are not deleted: what a run has read is still there.
RowsThere ==
  \A r \in Runs :
    /\ seedPc[r] \in {"restore", "update"} => project[Seeding!Key(r)] \in ProjectRows
    /\ seedPc[r] = "walk" => found[r] \in DOMAIN bugs

\* A token is held by a run that is about to use it, or that has failed.
Tokens ==
  \A p \in Addresses : \A r \in Runs : invitation[p] = r =>
    seedPc[r] = "failed" \/ (seedPc[r] = "accept" /\ p = Seeding!Persona(r))

OthersAreIdle == \A r \in Runs : alone[r] => \A o \in Seeding!Others(r) : seedPc[o] = "idle"

\* What a lone run has done by a stage.
PersonasBefore(n) == \A i \in DOMAIN Personas : i < n => Seeding!PersonaReady(Personas[i])
ProjectsBefore(n) == \A i \in DOMAIN DemoProjects : i < n => Seeding!ProjectReady(DemoProjects[i])
BugsBefore(n) == \A i \in DOMAIN DemoBugs : i < n => Seeding!HasTitle(DemoBugs[i])

AllPersonas == \A p \in Addresses : Seeding!PersonaReady(p)
AllProjects == \A k \in Keys : Seeding!ProjectReady(k)
AllBugs == \A t \in Titles : Seeding!HasTitle(t)

\* What it knows of the persona that it is at.
MemberKnown(r) ==
  LET p == Seeding!Persona(r) IN
  /\ seedPc[r] = "sync" => role[p] # "none" /\ found[r] \in {"none", role[p]}
  /\ seedPc[r] = "sync" /\ found[r] = "none" => role[p] = Seeding!RoleOf(p)
  /\ seedPc[r] = "role" =>
       role[p] \notin {"none", Seeding!RoleOf(p)} /\ account[p] = Seeding!PasswordOf(p)
  /\ seedPc[r] \in {"invite", "revoke", "invite again", "accept"} =>
       role[p] = "none" /\ found[r] = "none"
  /\ seedPc[r] = "revoke" => invitation[p] # None
  /\ seedPc[r] = "invite again" => invitation[p] = None
  /\ seedPc[r] = "accept" => invitation[p] = r

\* What it knows of the project.
ProjectKnown(r) ==
  LET row == project[Seeding!Key(r)] IN
  /\ seedPc[r] = "create project" => row = None
  /\ seedPc[r] = "restore" => found[r] = row
  /\ seedPc[r] = "update" => ~row.archived

\* And of the bug that it is walking.
BugKnown(r) ==
  seedPc[r] = "walk" => bugs[found[r]].title = Seeding!Title(r) /\ ~bugs[found[r]].handled

LoneProgress(r) ==
  /\ seedPc[r] \notin {"idle", "organization", "setup", "failed"} => organization = "demo"
  /\ seedPc[r] = "setup" => organization # "demo"
  /\ seedPc[r] \in MemberStages => PersonasBefore(at[r]) /\ MemberKnown(r)
  /\ seedPc[r] \in ProjectStages => AllPersonas /\ ProjectsBefore(at[r]) /\ ProjectKnown(r)
  /\ seedPc[r] \in BugStages => AllPersonas /\ AllProjects /\ BugsBefore(at[r]) /\ BugKnown(r)
  /\ seedPc[r] = "report" => AllPersonas /\ AllProjects /\ AllBugs
  /\ seedPc[r] = "failed" => organization = "other" \/ \E t \in Titles : Seeding!TargetArchived(t)

QuietStages == {"organization", "member", "sync", "project", "bug", "report"}

LoneRepeat(r) == seedPc[r] # "idle" /\ repeat[r] => Seeding!Ready /\ seedPc[r] \in QuietStages

LoneRunsGoOn == \A r \in Runs : alone[r] => LoneProgress(r) /\ LoneRepeat(r)

SeedInv == SeedType /\ Places /\ RowsThere /\ Tokens /\ OthersAreIdle /\ LoneRunsGoOn

LEMMA ListTypes ==
  /\ None \notin Runs /\ "lost" \notin Runs
  /\ Personas \in Seq(Addresses) /\ Len(Personas) >= 1
  /\ DemoProjects \in Seq(Keys) /\ Len(DemoProjects) >= 1
  /\ DemoBugs \in Seq(Titles) /\ Len(DemoBugs) >= 1
<1>1. /\ Personas \in Seq(Addresses) /\ Personas # <<>>
      /\ DemoProjects \in Seq(Keys) /\ DemoProjects # <<>>
      /\ DemoBugs \in Seq(Titles) /\ DemoBugs # <<>>
  BY PlatformAssumption DEF Seeding!SeedAssumption, Addresses, Keys, Titles
<1>2. \A S : \A list \in Seq(S) : list # <<>> => Len(list) >= 1
  OBVIOUS
<1> QED
  BY <1>1, <1>2, PlatformAssumption DEF Seeding!SeedAssumption

LEMMA AdminIsFirst ==
  Seeding!Admin \in Addresses /\ Seeding!Admin = Personas[1] /\ 1 \in DOMAIN Personas
  BY ListTypes DEF Seeding!Admin

\* What a run is at is in its list.
LEMMA PlaceTypes ==
  ASSUME SeedType, Places, NEW r \in Runs
  PROVE  /\ at[r] \in Nat \ {0}
         /\ seedPc[r] \in MemberStages => at[r] \in DOMAIN Personas
              /\ Seeding!Persona(r) \in Addresses
         /\ seedPc[r] \in ProjectStages => at[r] \in DOMAIN DemoProjects /\ Seeding!Key(r) \in Keys
         /\ seedPc[r] \in BugStages => at[r] \in DOMAIN DemoBugs /\ Seeding!Title(r) \in Titles
<1>1. at[r] \in Nat /\ at[r] >= 1
  BY DEF SeedType, Places
<1>2. ASSUME NEW S, NEW list \in Seq(S), at[r] <= Len(list)
      PROVE  at[r] \in DOMAIN list /\ list[at[r]] \in S
  BY <1>1, <1>2
<1>3. seedPc[r] \in MemberStages => at[r] \in DOMAIN Personas /\ Seeding!Persona(r) \in Addresses
  BY <1>2, ListTypes DEF Places, Seeding!Persona
<1>4. seedPc[r] \in ProjectStages => at[r] \in DOMAIN DemoProjects /\ Seeding!Key(r) \in Keys
  BY <1>2, ListTypes DEF Places, Seeding!Key
<1>5. seedPc[r] \in BugStages => at[r] \in DOMAIN DemoBugs /\ Seeding!Title(r) \in Titles
  BY <1>2, ListTypes DEF Places, Seeding!Title
<1> QED
  BY <1>1, <1>3, <1>4, <1>5

LEMMA SeedInit == Seeding!Init => SeedInv
<1> SUFFICES ASSUME Seeding!Init PROVE SeedInv
  OBVIOUS
<1> USE DEF Seeding!Init
<1>1. SeedType
  <2>1. <<>> \in Seq(BugRows)
    OBVIOUS
  <2>2. "idle" \in Stages
    BY DEF Stages
  <2> QED
    BY <2>1, <2>2 DEF SeedType, DataType, Addresses, Keys, Accounts, RoleNames, Findings
<1>2. Places
  BY DEF Places, MemberStages, ProjectStages, BugStages
<1>3. Tokens
  BY ListTypes DEF Tokens, Addresses
<1>4. OthersAreIdle /\ LoneRunsGoOn
  BY DEF OthersAreIdle, LoneRunsGoOn
<1>5. RowsThere
  BY DEF RowsThere
<1> QED
  BY <1>1, <1>2, <1>3, <1>4, <1>5 DEF SeedInv

-----------------------------------------------------------------------------
(* Types and places.                                                       *)

\* What an action writes, by where the run goes.
LEMMA GotoKeeps ==
  ASSUME SeedType, NEW r \in Runs, NEW next \in Stages, Seeding!Goto(r, next)
  PROVE  /\ seedPc' \in [Runs -> Stages] /\ at' \in [Runs -> Nat]
         /\ seedPc'[r] = next /\ at'[r] = at[r]
         /\ \A q \in Runs \ {r} : seedPc'[q] = seedPc[q] /\ at'[q] = at[q]
  BY DEF SeedType, Seeding!Goto

LEMMA AdvanceKeeps ==
  ASSUME SeedType, NEW r \in Runs, NEW list, NEW next \in Stages, NEW after \in Stages,
         Seeding!Advance(r, list, next, after)
  PROVE  /\ seedPc' \in [Runs -> Stages] /\ at' \in [Runs -> Nat]
         /\ \/ at[r] < Len(list) /\ seedPc'[r] = next /\ at'[r] = at[r] + 1
            \/ ~(at[r] < Len(list)) /\ seedPc'[r] = after /\ at'[r] = 1
         /\ \A q \in Runs \ {r} : seedPc'[q] = seedPc[q] /\ at'[q] = at[q]
<1>1. seedPc \in [Runs -> Stages] /\ at \in [Runs -> Nat]
  BY DEF SeedType
<1>2. CASE at[r] < Len(list)
  BY <1>1, <1>2 DEF Seeding!Advance
<1>3. CASE ~(at[r] < Len(list))
  BY <1>1, <1>3 DEF Seeding!Advance
<1> QED
  BY <1>2, <1>3

LEMMA StageNames ==
  /\ {"idle", "organization", "setup", "report", "failed"} \subseteq Stages
  /\ MemberStages \subseteq Stages /\ ProjectStages \subseteq Stages /\ BugStages \subseteq Stages
  /\ {"member", "sync", "role", "invite", "revoke", "invite again", "accept"} = MemberStages
  /\ {"project", "create project", "restore", "update"} = ProjectStages
  /\ {"bug", "create bug", "walk"} = BugStages
  /\ \A x \in MemberStages : x \notin ProjectStages /\ x \notin BugStages
  /\ \A x \in ProjectStages : x \notin BugStages
  BY DEF Stages, MemberStages, ProjectStages, BugStages

\* Where a run is between its stages.
Moves(r) ==
  /\ seedPc' \in [Runs -> Stages] /\ at' \in [Runs -> Nat]
  /\ at'[r] >= 1
  /\ seedPc'[r] \in {"organization", "setup"} => at'[r] = 1
  /\ seedPc'[r] \in MemberStages => at'[r] <= Len(Personas)
  /\ seedPc'[r] \in ProjectStages => at'[r] <= Len(DemoProjects)
  /\ seedPc'[r] \in BugStages => at'[r] <= Len(DemoBugs)
  /\ \A q \in Runs \ {r} : seedPc'[q] = seedPc[q] /\ at'[q] = at[q]

LEMMA MovesKeepPlaces ==
  ASSUME SeedType, Places, NEW r \in Runs, Moves(r)
  PROVE  Places'
  BY DEF Places, Moves

\* A stage of the same list, or the end.
LEMMA GotoMoves ==
  ASSUME SeedType, Places, NEW r \in Runs, NEW next, Seeding!Goto(r, next),
         \/ next \in {"idle", "failed"}
         \/ next \in MemberStages /\ seedPc[r] \in MemberStages
         \/ next \in ProjectStages /\ seedPc[r] \in ProjectStages
         \/ next \in BugStages /\ seedPc[r] \in BugStages
         \/ next \in {"setup", "member"} /\ seedPc[r] \in {"organization", "setup"}
  PROVE  Moves(r) /\ seedPc'[r] = next /\ at'[r] = at[r]
<1>1. next \in Stages
  BY StageNames
<1>2. /\ seedPc' \in [Runs -> Stages] /\ at' \in [Runs -> Nat]
      /\ seedPc'[r] = next /\ at'[r] = at[r]
      /\ \A q \in Runs \ {r} : seedPc'[q] = seedPc[q] /\ at'[q] = at[q]
  BY <1>1, GotoKeeps
<1>3. /\ at'[r] >= 1
      /\ next \in {"organization", "setup"} => at'[r] = 1
      /\ next \in MemberStages => at'[r] <= Len(Personas)
      /\ next \in ProjectStages => at'[r] <= Len(DemoProjects)
      /\ next \in BugStages => at'[r] <= Len(DemoBugs)
  BY <1>2, ListTypes DEF Places, MemberStages, ProjectStages, BugStages
<1> QED
  BY <1>2, <1>3 DEF Moves

LEMMA AdvanceMoves ==
  ASSUME SeedType, Places, NEW r \in Runs, NEW list, NEW next \in Stages, NEW after \in Stages,
         Seeding!Advance(r, list, next, after), after \in {"project", "bug", "report"},
         \/ next = "member" /\ list = Personas
         \/ next = "project" /\ list = DemoProjects
         \/ next = "bug" /\ list = DemoBugs
  PROVE  Moves(r)
<1>0. PICK n \in Nat : n = Len(list)
  BY ListTypes
<1>1. at[r] \in Nat \ {0}
  BY PlaceTypes
<1>2. /\ seedPc' \in [Runs -> Stages] /\ at' \in [Runs -> Nat]
      /\ \/ at[r] < n /\ seedPc'[r] = next /\ at'[r] = at[r] + 1
         \/ ~(at[r] < n) /\ seedPc'[r] = after /\ at'[r] = 1
      /\ \A q \in Runs \ {r} : seedPc'[q] = seedPc[q] /\ at'[q] = at[q]
  BY <1>0, AdvanceKeeps
<1>3. /\ next \in MemberStages => n <= Len(Personas)
      /\ next \in ProjectStages => n <= Len(DemoProjects)
      /\ next \in BugStages => n <= Len(DemoBugs)
      /\ next \notin {"organization", "setup"} /\ after \notin {"organization", "setup"}
      /\ after \notin MemberStages
  <2>1. next = "member" => n <= Len(Personas)
    BY <1>0
  <2>2. next = "project" => n <= Len(DemoProjects)
    BY <1>0
  <2>3. next = "bug" => n <= Len(DemoBugs)
    BY <1>0
  <2> QED
    BY <2>1, <2>2, <2>3 DEF MemberStages, ProjectStages, BugStages
<1>4. Len(Personas) \in Nat /\ Len(DemoProjects) \in Nat /\ Len(DemoBugs) \in Nat
  BY ListTypes
<1>5. CASE at[r] < n /\ seedPc'[r] = next /\ at'[r] = at[r] + 1
  <2>1. at'[r] >= 1 /\ at'[r] <= n
    BY <1>1, <1>5
  <2> QED
    BY <1>2, <1>3, <1>4, <1>5, <2>1 DEF Moves
<1>6. CASE seedPc'[r] = after /\ at'[r] = 1
  BY <1>2, <1>3, <1>4, <1>6, ListTypes DEF Moves
<1> QED
  BY <1>2, <1>5, <1>6

LEMMA NextsMove ==
  ASSUME SeedType, Places, NEW r \in Runs, Seeding!NextPersona(r) \/ Seeding!NextProject(r)
         \/ Seeding!NextBug(r)
  PROVE  Moves(r)
<1>1. {"member", "project", "bug", "report"} \subseteq Stages
  BY DEF Stages, MemberStages, ProjectStages, BugStages
<1>2. CASE Seeding!NextPersona(r)
  BY <1>1, <1>2, AdvanceMoves DEF Seeding!NextPersona
<1>3. CASE Seeding!NextProject(r)
  BY <1>1, <1>3, AdvanceMoves DEF Seeding!NextProject
<1>4. CASE Seeding!NextBug(r)
  BY <1>1, <1>4, AdvanceMoves DEF Seeding!NextBug
<1> QED
  BY <1>2, <1>3, <1>4

\* Rows that are written keep their types.
LEMMA ProjectWrite ==
  ASSUME SeedType, NEW k \in Keys, NEW row \in ProjectRows, project' = [project EXCEPT ![k] = row]
  PROVE  project' \in [Keys -> ProjectRows \union {None}] /\ project'[k] = row
  BY DEF SeedType, DataType

LEMMA BugWrite ==
  ASSUME SeedType, NEW i \in DOMAIN bugs, NEW row \in BugRows, bugs' = [bugs EXCEPT ![i] = row]
  PROVE  /\ bugs' \in Seq(BugRows) /\ Len(bugs') = Len(bugs) /\ DOMAIN bugs' = DOMAIN bugs
         /\ bugs'[i] = row /\ \A j \in DOMAIN bugs : j # i => bugs'[j] = bugs[j]
<1>1. bugs \in Seq(BugRows)
  BY DEF SeedType, DataType
<1> QED
  BY <1>1

LEMMA PasswordType ==
  \A p : /\ Seeding!PasswordOf(p) \in Accounts
         /\ Seeding!RoleOf(p) \in RoleNames /\ Seeding!RoleOf(p) # "none"
  BY DEF Seeding!PasswordOf, Seeding!RoleOf, Accounts, RoleNames

\* Nothing but what a step is said to write changes.
LEMMA OrganizationSteps ==
  ASSUME SeedType, Places, NEW r \in Runs, Seeding!FindOrganization(r) \/ Seeding!SetUp(r)
  PROVE  Moves(r) /\ DataType'
<1> USE DEF Seeding!Acts, Seeding!tables, Seeding!people, SeedType, DataType
<1>1. CASE Seeding!FindOrganization(r)
  <2>1. Moves(r)
    BY <1>1, GotoMoves DEF Seeding!FindOrganization
  <2> QED
    BY <1>1, <2>1 DEF Seeding!FindOrganization
<1>2. CASE Seeding!SetUp(r) /\ organization # "none"
  <2>1. Moves(r)
    BY <1>2, GotoMoves DEF Seeding!SetUp, Seeding!Raise
  <2> QED
    BY <1>2, <2>1 DEF Seeding!SetUp, Seeding!Raise
<1>3. CASE Seeding!SetUp(r) /\ organization = "none"
  <2>1. Moves(r)
    BY <1>3, GotoMoves DEF Seeding!SetUp
  <2>2. /\ account' = [account EXCEPT ![Seeding!Admin] = Seeding!PasswordOf(Seeding!Admin)]
        /\ role' = [role EXCEPT ![Seeding!Admin] = "administrator"]
        /\ organization' = "demo" /\ UNCHANGED <<invitation, project, bugs, found>>
    BY <1>3 DEF Seeding!SetUp
  <2>3. "administrator" \in RoleNames
    BY DEF RoleNames
  <2> QED
    BY <2>1, <2>2, <2>3, PasswordType
<1> QED
  BY <1>1, <1>2, <1>3

LEMMA RaiseMoves ==
  ASSUME SeedType, Places, NEW r \in Runs, Seeding!Raise(r)
  PROVE  Moves(r) /\ DataType' /\ seedPc'[r] = "failed" /\ UNCHANGED <<Seeding!tables, found>>
<1>1. Moves(r) /\ seedPc'[r] = "failed"
  BY GotoMoves DEF Seeding!Raise
<1> QED
  BY <1>1 DEF Seeding!Raise, Seeding!tables, Seeding!people, SeedType, DataType

LEMMA MemberSteps ==
  ASSUME SeedType, Places, NEW r \in Runs,
         Seeding!FindMember(r) \/ Seeding!SyncMember(r) \/ Seeding!ChangeRole(r)
           \/ Seeding!Invite(r) \/ Seeding!RevokeLeftover(r)
           \/ Seeding!InviteAgain(r) \/ Seeding!Accept(r)
  PROVE  Moves(r) /\ DataType'
<1> DEFINE p == Seeding!Persona(r)
<1>1. seedPc[r] \in MemberStages
  BY DEF MemberStages, Seeding!Acts, Seeding!FindMember, Seeding!SyncMember, Seeding!ChangeRole,
         Seeding!Invite, Seeding!RevokeLeftover, Seeding!InviteAgain, Seeding!Accept
<1>2. p \in Addresses /\ Seeding!PasswordOf(p) \in Accounts /\ Seeding!RoleOf(p) \in RoleNames
  BY <1>1, PlaceTypes, PasswordType
<1>3. /\ account \in [Addresses -> Accounts] /\ role \in [Addresses -> RoleNames]
      /\ invitation \in [Addresses -> Runs \union {"lost", None}]
      /\ found \in [Runs -> Findings]
  BY DEF SeedType, DataType
<1> HIDE DEF p
<1>4. \A next : Seeding!Goto(r, next) /\ next \in MemberStages => Moves(r)
  BY <1>1, GotoMoves
<1>5. {"sync", "role", "invite", "revoke", "invite again", "accept"} \subseteq MemberStages
  BY DEF MemberStages
<1>6. CASE Seeding!FindMember(r)
  <2>1. Moves(r)
    BY <1>4, <1>5, <1>6 DEF Seeding!FindMember
  <2>2. found' = [found EXCEPT ![r] = role[p]] /\ UNCHANGED Seeding!tables
    BY <1>6 DEF Seeding!FindMember, p
  <2>3. role[p] \in Findings
    BY <1>2, <1>3 DEF Findings
  <2>4. found' \in [Runs -> Findings]
    BY <1>3, <2>2, <2>3
  <2> QED
    BY <2>1, <2>2, <2>4 DEF SeedType, DataType, Seeding!tables, Seeding!people
<1>7. CASE Seeding!SyncMember(r)
  <2>1. Moves(r)
    BY <1>4, <1>5, <1>7, NextsMove DEF Seeding!SyncMember
  <2>2. account' = [account EXCEPT ![p] = Seeding!PasswordOf(p)]
        /\ UNCHANGED <<organization, role, invitation, project, bugs, found>>
    BY <1>7 DEF Seeding!SyncMember, p
  <2> QED
    BY <1>2, <1>3, <2>1, <2>2 DEF SeedType, DataType
<1>8. CASE Seeding!ChangeRole(r)
  <2>1. CASE Seeding!Raise(r)
    BY <2>1, RaiseMoves
  <2>2. CASE ~Seeding!Raise(r)
    <3>1. /\ role' = [role EXCEPT ![p] = Seeding!RoleOf(p)] /\ Seeding!NextPersona(r)
          /\ UNCHANGED <<organization, account, invitation, project, bugs, found>>
      BY <1>8, <2>2 DEF Seeding!ChangeRole, p
    <3> QED
      BY <1>2, <1>3, <3>1, NextsMove DEF SeedType, DataType
  <2> QED
    BY <2>1, <2>2
<1>9. CASE Seeding!Invite(r)
  <2>1. Moves(r)
    BY <1>4, <1>5, <1>9 DEF Seeding!Invite, Seeding!WhenPending
  <2>2. invitation' = invitation \/ invitation' = [invitation EXCEPT ![p] = r]
    BY <1>9 DEF Seeding!Invite, p
  <2>3. UNCHANGED <<organization, account, role, project, bugs, found>>
    BY <1>9 DEF Seeding!Invite
  <2> QED
    BY <1>2, <1>3, <2>1, <2>2, <2>3 DEF SeedType, DataType
<1>10. CASE Seeding!RevokeLeftover(r)
  <2>1. CASE Seeding!Raise(r)
    BY <2>1, RaiseMoves
  <2>2. CASE ~Seeding!Raise(r)
    <3>1. /\ invitation' = [invitation EXCEPT ![p] = None] /\ Seeding!Goto(r, "invite again")
          /\ UNCHANGED <<organization, account, role, project, bugs, found>>
      BY <1>10, <2>2 DEF Seeding!RevokeLeftover, p
    <3> QED
      BY <1>2, <1>3, <1>4, <1>5, <3>1 DEF SeedType, DataType
  <2> QED
    BY <2>1, <2>2
<1>11. CASE Seeding!InviteAgain(r)
  <2>1. CASE Seeding!Raise(r)
    BY <2>1, RaiseMoves
  <2>2. CASE ~Seeding!Raise(r)
    <3>1. /\ invitation' = [invitation EXCEPT ![p] = r] /\ Seeding!Goto(r, "accept")
          /\ UNCHANGED <<organization, account, role, project, bugs, found>>
      BY <1>11, <2>2 DEF Seeding!InviteAgain, p
    <3> QED
      BY <1>2, <1>3, <1>4, <1>5, <3>1 DEF SeedType, DataType
  <2> QED
    BY <2>1, <2>2
<1>12. CASE Seeding!Accept(r)
  <2>1. CASE Seeding!Raise(r)
    BY <2>1, RaiseMoves
  <2>2. CASE ~Seeding!Raise(r)
    <3>1. /\ account' = [account EXCEPT ![p] = IF account[p] = "none" THEN Seeding!PasswordOf(p)
                                                ELSE account[p]]
          /\ role' = [role EXCEPT ![p] = IF role[p] = "none" THEN Seeding!RoleOf(p) ELSE role[p]]
          /\ invitation' = [invitation EXCEPT ![p] = None]
          /\ Seeding!Goto(r, "sync")
          /\ UNCHANGED <<organization, project, bugs, found>>
      BY <1>12, <2>2 DEF Seeding!Accept, p
    <3>2. /\ account' \in [Addresses -> Accounts] /\ role' \in [Addresses -> RoleNames]
          /\ invitation' \in [Addresses -> Runs \union {"lost", None}]
      BY <1>2, <1>3, <3>1
    <3> QED
      BY <1>4, <1>5, <3>1, <3>2 DEF SeedType, DataType
  <2> QED
    BY <2>1, <2>2
<1> QED
  BY <1>6, <1>7, <1>8, <1>9, <1>10, <1>11, <1>12

LEMMA ProjectSteps ==
  ASSUME SeedType, Places, RowsThere, NEW r \in Runs,
         Seeding!FindProject(r) \/ Seeding!CreateProject(r) \/ Seeding!RestoreProject(r)
           \/ Seeding!UpdateProject(r)
  PROVE  Moves(r) /\ DataType'
<1> DEFINE k == Seeding!Key(r)
<1>1. seedPc[r] \in ProjectStages
  BY DEF ProjectStages, Seeding!Acts, Seeding!FindProject, Seeding!CreateProject,
         Seeding!RestoreProject, Seeding!UpdateProject
<1>2. k \in Keys
  BY <1>1, PlaceTypes
<1>3. project \in [Keys -> ProjectRows \union {None}] /\ found \in [Runs -> Findings]
  BY DEF SeedType, DataType
<1> HIDE DEF k
<1>4. \A next : Seeding!Goto(r, next) /\ next \in ProjectStages => Moves(r)
  BY <1>1, GotoMoves
<1>5. {"create project", "restore", "update"} \subseteq ProjectStages
  BY DEF ProjectStages
<1>6. CASE Seeding!FindProject(r)
  <2>1. Moves(r)
    BY <1>4, <1>5, <1>6, NextsMove DEF Seeding!FindProject
  <2>2. found' = [found EXCEPT ![r] = project[k]] /\ UNCHANGED Seeding!tables
    BY <1>6 DEF Seeding!FindProject, k
  <2>3. project[k] \in Findings
    BY <1>2, <1>3 DEF Findings
  <2>4. found' \in [Runs -> Findings]
    BY <1>3, <2>2, <2>3
  <2> QED
    BY <2>1, <2>2, <2>4 DEF SeedType, DataType, Seeding!tables, Seeding!people
<1>7. CASE Seeding!CreateProject(r)
  <2>1. CASE Seeding!Raise(r)
    BY <2>1, RaiseMoves
  <2>2. CASE ~Seeding!Raise(r)
    <3>1. PICK row : row = [archived |-> FALSE, edited |-> FALSE]
      OBVIOUS
    <3>2. /\ project' = [project EXCEPT ![k] = row] /\ Seeding!NextProject(r)
          /\ UNCHANGED <<organization, Seeding!people, bugs, found>>
      BY <1>7, <2>2, <3>1 DEF Seeding!CreateProject, k
    <3>3. row \in ProjectRows
      BY <3>1 DEF ProjectRows
    <3> QED
      BY <1>2, <3>2, <3>3, NextsMove, ProjectWrite DEF SeedType, DataType, Seeding!people
  <2> QED
    BY <2>1, <2>2
<1>8. CASE Seeding!RestoreProject(r)
  <2>0. project[k] \in ProjectRows
    BY <1>8 DEF RowsThere, Seeding!RestoreProject, Seeding!Acts, k
  <2>1. Moves(r)
    BY <1>4, <1>5, <1>8, NextsMove DEF Seeding!RestoreProject
  <2>2. PICK row : row = [project[k] EXCEPT !.archived = FALSE]
    OBVIOUS
  <2>3. /\ project' = [project EXCEPT ![k] = row]
        /\ UNCHANGED <<organization, Seeding!people, bugs, found>>
    BY <1>2, <1>3, <1>8, <2>2 DEF Seeding!RestoreProject, k
  <2>4. row \in ProjectRows
    BY <2>0, <2>2 DEF ProjectRows
  <2> QED
    BY <1>2, <2>1, <2>3, <2>4, ProjectWrite DEF SeedType, DataType, Seeding!people
<1>9. CASE Seeding!UpdateProject(r)
  <2>0. project[k] \in ProjectRows
    BY <1>9 DEF RowsThere, Seeding!UpdateProject, Seeding!Acts, k
  <2>1. Moves(r)
    BY <1>9, NextsMove DEF Seeding!UpdateProject
  <2>2. PICK row : row = [project[k] EXCEPT !.edited = FALSE]
    OBVIOUS
  <2>3. /\ project' = [project EXCEPT ![k] = row]
        /\ UNCHANGED <<organization, Seeding!people, bugs, found>>
    BY <1>2, <1>3, <1>9, <2>2 DEF Seeding!UpdateProject, k
  <2>4. row \in ProjectRows
    BY <2>0, <2>2 DEF ProjectRows
  <2> QED
    BY <1>2, <2>1, <2>3, <2>4, ProjectWrite DEF SeedType, DataType, Seeding!people
<1> QED
  BY <1>6, <1>7, <1>8, <1>9

LEMMA BugSteps ==
  ASSUME SeedType, Places, RowsThere, NEW r \in Runs,
         Seeding!FindBug(r) \/ Seeding!CreateBug(r) \/ Seeding!WalkBug(r) \/ Seeding!Report(r)
  PROVE  Moves(r) /\ DataType' /\ DOMAIN bugs \subseteq DOMAIN bugs'
<1>1. bugs \in Seq(BugRows) /\ found \in [Runs -> Findings]
  BY DEF SeedType, DataType
<1>2. seedPc[r] \in BugStages /\ Seeding!Goto(r, "create bug") => Moves(r)
  BY GotoMoves DEF BugStages
<1>3. seedPc[r] \in BugStages /\ Seeding!Goto(r, "walk") => Moves(r)
  BY GotoMoves DEF BugStages
<1>4. CASE Seeding!FindBug(r)
  <2>1. seedPc[r] \in BugStages
    BY <1>4 DEF Seeding!FindBug, Seeding!Acts, BugStages
  <2>2. Moves(r) /\ UNCHANGED <<Seeding!tables, found>>
    BY <1>2, <1>4, <2>1, NextsMove DEF Seeding!FindBug
  <2> QED
    BY <2>2 DEF SeedType, DataType, Seeding!tables, Seeding!people
<1>5. CASE Seeding!CreateBug(r)
  <2>1. CASE Seeding!Raise(r)
    BY <2>1, RaiseMoves DEF Seeding!tables
  <2>2. CASE ~Seeding!Raise(r)
    <3>1. seedPc[r] \in BugStages
      BY <1>5 DEF Seeding!CreateBug, Seeding!Acts, BugStages
    <3>2. PICK row :
            row = [title |-> Seeding!Title(r), steps |-> 0, handled |-> FALSE, archived |-> FALSE]
      OBVIOUS
    <3>3. /\ bugs' = Append(bugs, row) /\ found' = [found EXCEPT ![r] = Len(bugs) + 1]
          /\ Seeding!Goto(r, "walk") /\ UNCHANGED <<organization, Seeding!people, project>>
      BY <1>5, <2>2, <3>2 DEF Seeding!CreateBug
    <3>4. row \in BugRows
      BY <3>1, <3>2, PlaceTypes DEF BugRows
    <3>5. bugs' \in Seq(BugRows) /\ DOMAIN bugs \subseteq DOMAIN bugs' /\ Len(bugs) + 1 \in Nat
      BY <1>1, <3>3, <3>4
    <3>6. found' \in [Runs -> Findings]
      BY <1>1, <3>3, <3>5 DEF Findings
    <3> QED
      BY <1>3, <3>1, <3>3, <3>5, <3>6 DEF SeedType, DataType, Seeding!people
  <2> QED
    BY <2>1, <2>2
<1>6. CASE Seeding!WalkBug(r)
  <2>1. CASE Seeding!Raise(r)
    BY <2>1, RaiseMoves DEF Seeding!tables
  <2>2. CASE ~Seeding!Raise(r)
    <3>1. seedPc[r] \in BugStages /\ found[r] \in DOMAIN bugs
      BY <1>6 DEF Seeding!WalkBug, Seeding!Acts, BugStages, RowsThere
    <3>2. PICK row : row = [bugs[found[r]] EXCEPT !.steps = bugs[found[r]].steps + 1]
      OBVIOUS
    <3>3. /\ bugs' = [bugs EXCEPT ![found[r]].steps = bugs[found[r]].steps + 1]
          /\ Seeding!NextBug(r) \/ UNCHANGED <<seedPc, at>>
          /\ UNCHANGED <<organization, Seeding!people, project, found>>
      BY <1>6, <2>2 DEF Seeding!WalkBug
    <3>4. bugs' = [bugs EXCEPT ![found[r]] = row]
      BY <3>2, <3>3
    <3>5. row \in BugRows
      <4>1. bugs[found[r]] \in BugRows
        BY <1>1, <3>1
      <4> QED
        BY <3>2, <4>1 DEF BugRows
    <3>6. bugs' \in Seq(BugRows) /\ DOMAIN bugs' = DOMAIN bugs
      BY <3>1, <3>4, <3>5, BugWrite
    <3>7. Moves(r)
      <4>1. UNCHANGED <<seedPc, at>> => Moves(r)
        BY DEF Moves, SeedType, Places
      <4> QED
        BY <3>3, <4>1, NextsMove
    <3> QED
      BY <3>3, <3>6, <3>7 DEF SeedType, DataType, Seeding!people
  <2> QED
    BY <2>1, <2>2
<1>7. CASE Seeding!Report(r)
  <2>1. Moves(r)
    BY <1>7, GotoMoves DEF Seeding!Report
  <2>2. found' = [found EXCEPT ![r] = None] /\ UNCHANGED Seeding!tables
    BY <1>7 DEF Seeding!Report
  <2>3. found' \in [Runs -> Findings]
    BY <1>1, <2>2 DEF Findings
  <2> QED
    BY <2>1, <2>2, <2>3 DEF SeedType, DataType, Seeding!tables, Seeding!people
<1> QED
  BY <1>4, <1>5, <1>6, <1>7

\* A step of a run keeps the rows, and what the other runs have found.
LEMMA RowsKept ==
  ASSUME SeedType, Places, RowsThere, NEW r \in Runs, Seeding!Run(r)
  PROVE  /\ \A k \in Keys : project[k] \in ProjectRows => project'[k] \in ProjectRows
         /\ DOMAIN bugs \subseteq DOMAIN bugs'
         /\ \A q \in Runs \ {r} : found'[q] = found[q]
<1>1. /\ project \in [Keys -> ProjectRows \union {None}] /\ found \in [Runs -> Findings]
      /\ bugs \in Seq(BugRows)
  BY DEF SeedType, DataType
<1>2. \A k \in Keys : \A row \in ProjectRows : project' = [project EXCEPT ![k] = row] =>
        \A j \in Keys : project[j] \in ProjectRows => project'[j] \in ProjectRows
  BY <1>1
<1>3. \A x : found' = [found EXCEPT ![r] = x] => \A q \in Runs \ {r} : found'[q] = found[q]
  BY <1>1
<1>4. CASE Seeding!FindOrganization(r) \/ Seeding!SetUp(r) \/ Seeding!FindMember(r)
             \/ Seeding!SyncMember(r) \/ Seeding!ChangeRole(r)
  <2>1. UNCHANGED <<project, bugs>>
    BY <1>4 DEF Seeding!FindOrganization, Seeding!SetUp, Seeding!FindMember, Seeding!SyncMember,
                Seeding!ChangeRole, Seeding!Raise, Seeding!tables
  <2>2. UNCHANGED found \/ found' = [found EXCEPT ![r] = role[Seeding!Persona(r)]]
    BY <1>4 DEF Seeding!FindOrganization, Seeding!SetUp, Seeding!FindMember, Seeding!SyncMember,
                Seeding!ChangeRole, Seeding!Raise
  <2> QED
    BY <1>3, <2>1, <2>2
<1>5. CASE Seeding!Invite(r) \/ Seeding!RevokeLeftover(r) \/ Seeding!InviteAgain(r)
             \/ Seeding!Accept(r)
  BY <1>5 DEF Seeding!Invite, Seeding!RevokeLeftover, Seeding!InviteAgain, Seeding!Accept,
              Seeding!Raise, Seeding!tables
<1>6. CASE Seeding!FindProject(r)
  BY <1>3, <1>6 DEF Seeding!FindProject, Seeding!tables
<1>7. CASE Seeding!CreateProject(r) \/ Seeding!RestoreProject(r) \/ Seeding!UpdateProject(r)
  <2>1. UNCHANGED <<bugs, found>>
    BY <1>7 DEF Seeding!CreateProject, Seeding!RestoreProject, Seeding!UpdateProject,
                Seeding!Raise, Seeding!tables
  <2>2. Seeding!Key(r) \in Keys
    BY <1>7, PlaceTypes DEF Seeding!CreateProject, Seeding!RestoreProject, Seeding!UpdateProject,
                            Seeding!Acts, ProjectStages
  <2>3. CASE UNCHANGED project
    BY <2>1, <2>3
  <2>4. CASE Seeding!CreateProject(r) /\ project' # project
    <3>1. project' = [project EXCEPT ![Seeding!Key(r)] = [archived |-> FALSE, edited |-> FALSE]]
      BY <2>4 DEF Seeding!CreateProject, Seeding!Raise, Seeding!tables
    <3>2. [archived |-> FALSE, edited |-> FALSE] \in ProjectRows
      BY DEF ProjectRows
    <3> QED
      BY <1>2, <2>1, <2>2, <3>1, <3>2
  <2>5. CASE Seeding!RestoreProject(r) \/ Seeding!UpdateProject(r)
    <3>1. project[Seeding!Key(r)] \in ProjectRows
      BY <2>5 DEF RowsThere, Seeding!RestoreProject, Seeding!UpdateProject, Seeding!Acts
    <3>2. PICK row \in ProjectRows : project' = [project EXCEPT ![Seeding!Key(r)] = row]
      <4>1. [project[Seeding!Key(r)] EXCEPT !.archived = FALSE] \in ProjectRows
            /\ [project[Seeding!Key(r)] EXCEPT !.edited = FALSE] \in ProjectRows
        BY <3>1 DEF ProjectRows
      <4> QED
        BY <1>1, <2>2, <2>5, <4>1 DEF Seeding!RestoreProject, Seeding!UpdateProject
    <3> QED
      BY <1>2, <2>1, <2>2, <3>2
  <2> QED
    BY <1>7, <2>3, <2>4, <2>5
<1>8. CASE Seeding!FindBug(r) \/ Seeding!CreateBug(r) \/ Seeding!WalkBug(r) \/ Seeding!Report(r)
  <2>1. DOMAIN bugs \subseteq DOMAIN bugs'
    BY <1>8, BugSteps
  <2>2. UNCHANGED project
    BY <1>8 DEF Seeding!FindBug, Seeding!CreateBug, Seeding!WalkBug, Seeding!Report,
                Seeding!Raise, Seeding!tables
  <2>3. \/ UNCHANGED found
        \/ found' = [found EXCEPT ![r] = Len(bugs) + 1]
        \/ found' = [found EXCEPT ![r] = None]
    BY <1>8 DEF Seeding!FindBug, Seeding!CreateBug, Seeding!WalkBug, Seeding!Report, Seeding!Raise
  <2> QED
    BY <1>3, <2>1, <2>2, <2>3
<1> QED
  BY <1>4, <1>5, <1>6, <1>7, <1>8 DEF Seeding!Run

\* Where it goes on with a row that it has read.
LEMMA RowsFound ==
  ASSUME SeedType, Places, RowsThere, NEW r \in Runs, Seeding!Run(r)
  PROVE  /\ seedPc'[r] \in {"restore", "update"} => at'[r] = at[r]
              /\ project'[Seeding!Key(r)] \in ProjectRows
         /\ seedPc'[r] = "walk" => found'[r] \in DOMAIN bugs'
<1>1. /\ project \in [Keys -> ProjectRows \union {None}] /\ found \in [Runs -> Findings]
      /\ bugs \in Seq(BugRows) /\ seedPc \in [Runs -> Stages]
  BY DEF SeedType, DataType
<1>2. \A next : Seeding!Goto(r, next) => seedPc'[r] = next /\ at'[r] = at[r]
  BY <1>1 DEF Seeding!Goto
<1>3. Seeding!NextPersona(r) \/ Seeding!NextProject(r) \/ Seeding!NextBug(r)
        => seedPc'[r] \in {"member", "project", "bug", "report"}
  BY <1>1 DEF Seeding!NextPersona, Seeding!NextProject, Seeding!NextBug, Seeding!Advance
<1>4. CASE \/ Seeding!FindOrganization(r) \/ Seeding!SetUp(r) \/ Seeding!FindMember(r)
                \/ Seeding!SyncMember(r) \/ Seeding!ChangeRole(r)
           \/ Seeding!Invite(r) \/ Seeding!RevokeLeftover(r) \/ Seeding!InviteAgain(r)
                \/ Seeding!Accept(r)
           \/ Seeding!CreateProject(r) \/ Seeding!UpdateProject(r) \/ Seeding!FindBug(r)
                \/ Seeding!Report(r)
  <2> DEFINE quiet == seedPc'[r] \notin {"restore", "update", "walk"}
  <2>1. Seeding!Raise(r) => quiet
    BY <1>2 DEF Seeding!Raise
  <2>2. Seeding!NextPersona(r) \/ Seeding!NextProject(r) \/ Seeding!NextBug(r) => quiet
    BY <1>3
  <2>3. \A next : Seeding!Goto(r, next) /\ next \notin {"restore", "update", "walk"} => quiet
    BY <1>2
  <2> HIDE DEF quiet
  <2>4. Seeding!FindOrganization(r) => quiet
    BY <2>3 DEF Seeding!FindOrganization
  <2>5. Seeding!SetUp(r) \/ Seeding!FindMember(r) => quiet
    BY <2>1, <2>3 DEF Seeding!SetUp, Seeding!FindMember
  <2>6. Seeding!SyncMember(r) \/ Seeding!ChangeRole(r) => quiet
    BY <2>1, <2>2, <2>3 DEF Seeding!SyncMember, Seeding!ChangeRole
  <2>7. Seeding!Invite(r) \/ Seeding!RevokeLeftover(r) => quiet
    BY <2>1, <2>3 DEF Seeding!Invite, Seeding!RevokeLeftover, Seeding!WhenPending
  <2>8. Seeding!InviteAgain(r) \/ Seeding!Accept(r) => quiet
    BY <2>1, <2>3 DEF Seeding!InviteAgain, Seeding!Accept
  <2>9. Seeding!CreateProject(r) \/ Seeding!UpdateProject(r) => quiet
    BY <2>1, <2>2, <2>3 DEF Seeding!CreateProject, Seeding!UpdateProject
  <2>10. Seeding!FindBug(r) \/ Seeding!Report(r) => quiet
    BY <2>2, <2>3 DEF Seeding!FindBug, Seeding!Report
  <2> QED
    BY <1>4, <2>4, <2>5, <2>6, <2>7, <2>8, <2>9, <2>10 DEF quiet
<1>5. CASE Seeding!FindProject(r)
  <2>1. CASE project[Seeding!Key(r)] = None
    <3>1. seedPc'[r] = "create project"
      BY <1>2, <1>5, <2>1 DEF Seeding!FindProject
    <3> QED
      BY <3>1
  <2>2. CASE project[Seeding!Key(r)] # None
    <3>1. project[Seeding!Key(r)] \in ProjectRows
      BY <1>1, <1>5, <2>2, PlaceTypes DEF Seeding!FindProject, Seeding!Acts, ProjectStages
    <3>2. UNCHANGED project
      BY <1>5 DEF Seeding!FindProject, Seeding!tables
    <3>3. seedPc'[r] # "walk" /\ (seedPc'[r] \in {"restore", "update"} => at'[r] = at[r])
      BY <1>2, <1>3, <1>5, <2>2 DEF Seeding!FindProject
    <3> QED
      BY <3>1, <3>2, <3>3
  <2> QED
    BY <2>1, <2>2
<1>6. CASE Seeding!RestoreProject(r)
  <2>1. Seeding!Key(r) \in Keys /\ project[Seeding!Key(r)] \in ProjectRows
    BY <1>6, PlaceTypes DEF RowsThere, Seeding!RestoreProject, Seeding!Acts, ProjectStages
  <2>2. seedPc'[r] # "walk" /\ (seedPc'[r] \in {"restore", "update"} => at'[r] = at[r])
    BY <1>2, <1>3, <1>6 DEF Seeding!RestoreProject
  <2> QED
    BY <2>1, <2>2, RowsKept
<1>7. CASE Seeding!CreateBug(r)
  <2>1. CASE Seeding!Raise(r)
    BY <1>2, <2>1 DEF Seeding!Raise
  <2>2. CASE ~Seeding!Raise(r)
    <3>1. /\ bugs' = Append(bugs, [title |-> Seeding!Title(r), steps |-> 0, handled |-> FALSE,
                                   archived |-> FALSE])
          /\ found' = [found EXCEPT ![r] = Len(bugs) + 1]
          /\ Seeding!Goto(r, "walk")
      BY <1>7, <2>2 DEF Seeding!CreateBug
    <3>2. Len(bugs) + 1 \in DOMAIN bugs'
      BY <1>1, <3>1
    <3> QED
      BY <1>1, <1>2, <3>1, <3>2
  <2> QED
    BY <2>1, <2>2
<1>8. CASE Seeding!WalkBug(r)
  <2>1. CASE Seeding!Raise(r)
    BY <1>2, <2>1 DEF Seeding!Raise
  <2>2. CASE ~Seeding!Raise(r)
    <3>1. UNCHANGED found /\ (Seeding!NextBug(r) \/ UNCHANGED <<seedPc, at>>)
      BY <1>8, <2>2 DEF Seeding!WalkBug
    <3>2. found[r] \in DOMAIN bugs /\ seedPc[r] = "walk"
      BY <1>8 DEF Seeding!WalkBug, Seeding!Acts, RowsThere
    <3> QED
      BY <1>3, <3>1, <3>2, RowsKept
  <2> QED
    BY <2>1, <2>2
<1> QED
  BY <1>4, <1>5, <1>6, <1>7, <1>8 DEF Seeding!Run

LEMMA RunActs ==
  ASSUME NEW r \in Runs, Seeding!Run(r)
  PROVE  /\ seedPc[r] # "idle" /\ seedPc[r] # "failed" /\ Seeding!Disturbs(r)
         /\ UNCHANGED <<settings, events, repeat>>
  BY DEF Seeding!Run, Seeding!Acts, Seeding!FindOrganization, Seeding!SetUp, Seeding!FindMember,
         Seeding!SyncMember, Seeding!ChangeRole, Seeding!Invite, Seeding!RevokeLeftover,
         Seeding!InviteAgain, Seeding!Accept, Seeding!FindProject, Seeding!CreateProject,
         Seeding!RestoreProject, Seeding!UpdateProject, Seeding!FindBug, Seeding!CreateBug,
         Seeding!WalkBug, Seeding!Report

LEMMA RunKeepsTypes ==
  ASSUME SeedType, Places, RowsThere, NEW r \in Runs, Seeding!Run(r)
  PROVE  Moves(r) /\ SeedType' /\ Places' /\ RowsThere'
<1>1. Moves(r) /\ DataType'
  BY OrganizationSteps, MemberSteps, ProjectSteps, BugSteps DEF Seeding!Run
<1>2. Seeding!Disturbs(r) /\ UNCHANGED repeat
  BY RunActs
<1>3. SeedType'
  BY <1>1, <1>2 DEF SeedType, Moves, Seeding!Disturbs
<1>4. Places'
  BY <1>1, MovesKeepPlaces
<1>5. RowsThere'
  <2> SUFFICES ASSUME NEW q \in Runs
               PROVE  /\ seedPc'[q] \in {"restore", "update"}
                           => project'[DemoProjects[at'[q]]] \in ProjectRows
                      /\ seedPc'[q] = "walk" => found'[q] \in DOMAIN bugs'
    BY DEF RowsThere, Seeding!Key
  <2>1. CASE q = r
    BY <2>1, RowsFound DEF Seeding!Key
  <2>2. CASE q # r
    <3>1. seedPc'[q] = seedPc[q] /\ at'[q] = at[q]
      BY <1>1, <2>2 DEF Moves
    <3>2. seedPc[q] \in {"restore", "update"} => Seeding!Key(q) \in Keys
            /\ project[Seeding!Key(q)] \in ProjectRows
      BY PlaceTypes DEF RowsThere, ProjectStages
    <3>3. seedPc[q] = "walk" => found[q] \in DOMAIN bugs
      BY DEF RowsThere
    <3> QED
      BY <2>2, <3>1, <3>2, <3>3, RowsKept DEF Seeding!Key
  <2> QED
    BY <2>1, <2>2
<1> QED
  BY <1>1, <1>3, <1>4, <1>5

-----------------------------------------------------------------------------
(* The other actions, and what they keep.                                  *)

LEMMA LeavesKeepsTypes ==
  ASSUME SeedType, Places, RowsThere, NEW r \in Runs, Seeding!Leaves(r)
  PROVE  SeedType' /\ Places' /\ RowsThere'
<1>1. /\ seedPc \in [Runs -> Stages] /\ at \in [Runs -> Nat] /\ found \in [Runs -> Findings]
      /\ invitation \in [Addresses -> Runs \union {"lost", None}]
  BY DEF SeedType, DataType
<1>2. /\ seedPc' = [seedPc EXCEPT ![r] = "idle"] /\ at' = [at EXCEPT ![r] = 1]
      /\ found' = [found EXCEPT ![r] = None]
      /\ UNCHANGED <<organization, account, role, project, bugs, alone, repeat>>
  BY DEF Seeding!Leaves
<1>3. invitation' \in [Addresses -> Runs \union {"lost", None}]
  BY <1>1 DEF Seeding!Leaves
<1>4. "idle" \in Stages /\ None \in Findings
  BY DEF Stages, Findings
<1>5. SeedType'
  BY <1>1, <1>2, <1>3, <1>4 DEF SeedType, DataType
<1>6. /\ \A q \in Runs \ {r} : seedPc'[q] = seedPc[q] /\ at'[q] = at[q] /\ found'[q] = found[q]
      /\ seedPc'[r] = "idle" /\ at'[r] = 1
  BY <1>1, <1>2
<1>7. Places'
  <2>1. Moves(r)
    BY <1>5, <1>6 DEF Moves, SeedType, MemberStages, ProjectStages, BugStages
  <2> QED
    BY <2>1, MovesKeepPlaces
<1>8. RowsThere'
  BY <1>2, <1>6 DEF RowsThere, Seeding!Key
<1> QED
  BY <1>5, <1>7, <1>8

LEMMA StartKeepsTypes ==
  ASSUME SeedType, Places, RowsThere, NEW r \in Runs, Seeding!Start(r)
  PROVE  SeedType' /\ Places' /\ RowsThere'
<1>1. seedPc \in [Runs -> Stages] /\ at \in [Runs -> Nat] /\ repeat \in [Runs -> BOOLEAN]
  BY DEF SeedType
<1>2. /\ seedPc' = [seedPc EXCEPT ![r] = "organization"] /\ at' = [at EXCEPT ![r] = 1]
      /\ UNCHANGED <<organization, account, role, invitation, project, bugs, found>>
  BY DEF Seeding!Start, Seeding!tables, Seeding!people
<1>3. Seeding!Ready \in BOOLEAN
  BY DEF Seeding!Ready
<1>4. repeat' \in [Runs -> BOOLEAN]
  BY <1>1, <1>3 DEF Seeding!Start
<1>5. alone' \in [Runs -> BOOLEAN]
  BY DEF Seeding!Start
<1>6. "organization" \in Stages
  BY DEF Stages
<1>7. SeedType'
  BY <1>1, <1>2, <1>4, <1>5, <1>6 DEF SeedType, DataType
<1>8. /\ \A q \in Runs \ {r} : seedPc'[q] = seedPc[q] /\ at'[q] = at[q]
      /\ seedPc'[r] = "organization" /\ at'[r] = 1
  BY <1>1, <1>2
<1>9. Places'
  <2>1. Moves(r)
    BY <1>7, <1>8 DEF Moves, SeedType, MemberStages, ProjectStages, BugStages
  <2> QED
    BY <2>1, MovesKeepPlaces
<1>10. RowsThere'
  BY <1>2, <1>8 DEF RowsThere, Seeding!Key
<1> QED
  BY <1>7, <1>9, <1>10

LEMMA EnvironmentWrites ==
  ASSUME SeedType, Seeding!Environment
  PROVE  /\ DataType' /\ UNCHANGED invitation /\ Seeding!Interferes
         /\ \A k \in Keys : project[k] \in ProjectRows => project'[k] \in ProjectRows
         /\ DOMAIN bugs' = DOMAIN bugs
<1> USE DEF SeedType, DataType
<1>1. CASE \E k \in Keys : Seeding!EditProject(k)
  <2>1. PICK k \in Keys : Seeding!EditProject(k)
    BY <1>1
  <2>2. PICK row \in [archived : BOOLEAN, edited : {TRUE}] : project' = [project EXCEPT ![k] = row]
    BY <2>1 DEF Seeding!EditProject
  <2>3. row \in ProjectRows
    BY <2>2 DEF ProjectRows
  <2>4. Seeding!Interferes /\ UNCHANGED <<organization, account, role, invitation, bugs, found>>
    BY <2>1 DEF Seeding!EditProject, Seeding!Interferes, Seeding!people
  <2>5. project' \in [Keys -> ProjectRows \union {None}]
        /\ \A j \in Keys : project[j] \in ProjectRows => project'[j] \in ProjectRows
    BY <2>2, <2>3
  <2> QED
    BY <2>4, <2>5
<1>2. CASE \E i \in DOMAIN bugs : Seeding!EditBug(i)
  <2>1. PICK i \in DOMAIN bugs : Seeding!EditBug(i)
    BY <1>2
  <2>2. bugs[i] \in BugRows
    OBVIOUS
  <2>3. PICK row \in BugRows : bugs' = [bugs EXCEPT ![i] = row]
    <3>1. CASE \E title \in {bugs[i].title, Seeding!Untitled} :
                 bugs' = [bugs EXCEPT ![i] = [bugs[i] EXCEPT !.title = title, !.handled = TRUE]]
      <4>1. PICK title \in {bugs[i].title, Seeding!Untitled} :
                 bugs' = [bugs EXCEPT ![i] = [bugs[i] EXCEPT !.title = title, !.handled = TRUE]]
        BY <3>1
      <4>2. [bugs[i] EXCEPT !.title = title, !.handled = TRUE] \in BugRows
        BY <2>2, <4>1 DEF BugRows
      <4> QED
        BY <4>1, <4>2
    <3>2. CASE bugs' = [bugs EXCEPT ![i] = [bugs[i] EXCEPT !.archived = ~bugs[i].archived,
                 !.handled = TRUE]]
      <4>1. [bugs[i] EXCEPT !.archived = ~bugs[i].archived, !.handled = TRUE] \in BugRows
        BY <2>2 DEF BugRows
      <4> QED
        BY <3>2, <4>1
    <3>3. \/ \E title \in {bugs[i].title, Seeding!Untitled} :
               bugs' = [bugs EXCEPT ![i] = [bugs[i] EXCEPT !.title = title, !.handled = TRUE]]
          \/ bugs' = [bugs EXCEPT ![i] = [bugs[i] EXCEPT !.archived = ~bugs[i].archived,
               !.handled = TRUE]]
      BY <2>1 DEF Seeding!EditBug
    <3> QED
      BY <3>1, <3>2, <3>3
  <2>4. bugs' \in Seq(BugRows) /\ DOMAIN bugs' = DOMAIN bugs
    BY <2>3, BugWrite
  <2>5. Seeding!Interferes /\ UNCHANGED <<organization, account, role, invitation, project, found>>
    BY <2>1 DEF Seeding!EditBug, Seeding!Interferes, Seeding!people
  <2> QED
    BY <2>4, <2>5
<1>3. CASE \E p \in Addresses : Seeding!EditMember(p)
  <2>1. PICK p \in Addresses : Seeding!EditMember(p)
    BY <1>3
  <2>2. Seeding!Interferes /\ UNCHANGED <<organization, invitation, project, bugs, found>>
    BY <2>1 DEF Seeding!EditMember, Seeding!Interferes
  <2>3. PICK new \in RoleNames : role' = [role EXCEPT ![p] = new]
    BY <2>1 DEF Seeding!EditMember, RoleNames
  <2>4. account' = [account EXCEPT ![p] = "changed"] /\ "changed" \in Accounts
    BY <2>1 DEF Seeding!EditMember, Accounts
  <2> QED
    BY <2>2, <2>3, <2>4
<1>4. CASE Seeding!Deploy
  BY <1>4 DEF Seeding!Deploy, Seeding!Interferes, Seeding!tables, Seeding!people
<1> QED
  BY <1>1, <1>2, <1>3, <1>4 DEF Seeding!Environment, Keys, Addresses

LEMMA EnvironmentKeepsTypes ==
  ASSUME SeedType, Places, RowsThere, Seeding!Environment
  PROVE  SeedType' /\ Places' /\ RowsThere'
<1>1. DataType' /\ Seeding!Interferes
  BY EnvironmentWrites
<1>2. SeedType'
  BY <1>1 DEF SeedType, Seeding!Interferes
<1>3. Places'
  BY <1>1 DEF Places, Seeding!Interferes
<1>4. RowsThere'
  <2> SUFFICES ASSUME NEW q \in Runs
               PROVE  /\ seedPc'[q] \in {"restore", "update"}
                           => project'[DemoProjects[at'[q]]] \in ProjectRows
                      /\ seedPc'[q] = "walk" => found'[q] \in DOMAIN bugs'
    BY DEF RowsThere, Seeding!Key
  <2>1. seedPc[q] \in {"restore", "update"} => Seeding!Key(q) \in Keys
          /\ project[Seeding!Key(q)] \in ProjectRows
    BY PlaceTypes DEF RowsThere, ProjectStages
  <2>2. seedPc[q] = "walk" => found[q] \in DOMAIN bugs
    BY DEF RowsThere
  <2> QED
    BY <1>1, <2>1, <2>2, EnvironmentWrites DEF Seeding!Interferes, Seeding!Key
<1> QED
  BY <1>2, <1>3, <1>4

\* What a run does with tokens.
LEMMA InvitationWrites ==
  ASSUME NEW r \in Runs, Seeding!Run(r), SeedType
  PROVE  \/ UNCHANGED invitation /\ seedPc[r] # "accept"
         \/ UNCHANGED invitation /\ seedPc'[r] = "failed"
         \/ invitation' = [invitation EXCEPT ![Seeding!Persona(r)] = None]
         \/ /\ invitation' = [invitation EXCEPT ![Seeding!Persona(r)] = r]
            /\ seedPc[r] # "accept" /\ seedPc'[r] = "accept" /\ at' = at
<1>1. CASE \/ Seeding!FindOrganization(r) \/ Seeding!SetUp(r) \/ Seeding!FindMember(r)
                \/ Seeding!SyncMember(r) \/ Seeding!ChangeRole(r)
  BY <1>1 DEF Seeding!FindOrganization, Seeding!SetUp, Seeding!FindMember, Seeding!SyncMember,
              Seeding!ChangeRole, Seeding!Acts, Seeding!Raise, Seeding!tables, Seeding!people
<1>2. CASE Seeding!FindProject(r) \/ Seeding!CreateProject(r) \/ Seeding!RestoreProject(r)
             \/ Seeding!UpdateProject(r)
  BY <1>2 DEF Seeding!FindProject, Seeding!CreateProject, Seeding!RestoreProject,
              Seeding!UpdateProject, Seeding!Acts, Seeding!Raise, Seeding!tables, Seeding!people
<1>3. CASE Seeding!FindBug(r) \/ Seeding!CreateBug(r) \/ Seeding!WalkBug(r) \/ Seeding!Report(r)
  BY <1>3 DEF Seeding!FindBug, Seeding!CreateBug, Seeding!WalkBug, Seeding!Report, Seeding!Acts,
              Seeding!Raise, Seeding!tables, Seeding!people
<1>4. CASE Seeding!Invite(r)
  BY <1>4 DEF Seeding!Invite, Seeding!Acts, Seeding!Goto, SeedType
<1>5. CASE Seeding!RevokeLeftover(r)
  BY <1>5 DEF Seeding!RevokeLeftover, Seeding!Acts, Seeding!Raise, Seeding!tables, Seeding!people
<1>6. CASE Seeding!InviteAgain(r)
  BY <1>6 DEF Seeding!InviteAgain, Seeding!Acts, Seeding!Goto, Seeding!Raise, Seeding!tables,
              Seeding!people, SeedType
<1>7. CASE Seeding!Accept(r)
  BY <1>7 DEF Seeding!Accept, Seeding!Goto, Seeding!Raise, Seeding!tables, Seeding!people,
              SeedType
<1> QED
  BY <1>1, <1>2, <1>3, <1>4, <1>5, <1>6, <1>7 DEF Seeding!Run

LEMMA RunKeepsTokens ==
  ASSUME SeedType, Places, RowsThere, Tokens, NEW r \in Runs, Seeding!Run(r)
  PROVE  Tokens'
<1>1. Moves(r)
  BY RunKeepsTypes
<1>2. seedPc[r] # "failed"
  BY RunActs
<1>3. invitation \in [Addresses -> Runs \union {"lost", None}]
  BY DEF SeedType, DataType
<1> SUFFICES ASSUME NEW p \in Addresses, NEW q \in Runs, invitation'[p] = q
             PROVE  seedPc'[q] = "failed" \/ (seedPc'[q] = "accept" /\ p = Personas[at'[q]])
  BY DEF Tokens, Seeding!Persona
<1>4. invitation[p] = q => seedPc[q] = "failed" \/ (seedPc[q] = "accept" /\ p = Personas[at[q]])
  BY DEF Tokens, Seeding!Persona
<1>5. CASE q # r
  <2>1. seedPc'[q] = seedPc[q] /\ at'[q] = at[q]
    BY <1>1, <1>5 DEF Moves
  <2>2. invitation[p] = q
    BY <1>3, <1>5, InvitationWrites, ListTypes
  <2> QED
    BY <1>4, <2>1, <2>2
<1>6. CASE q = r
  <2>1. CASE UNCHANGED invitation /\ (seedPc[r] # "accept" \/ seedPc'[r] = "failed")
    BY <1>2, <1>4, <1>6, <2>1
  <2>2. CASE invitation' = [invitation EXCEPT ![Seeding!Persona(r)] = None]
    BY <1>2, <1>3, <1>4, <1>6, <2>2, ListTypes DEF Seeding!Persona
  <2>3. CASE /\ invitation' = [invitation EXCEPT ![Seeding!Persona(r)] = r]
             /\ seedPc[r] # "accept" /\ seedPc'[r] = "accept" /\ at' = at
    BY <1>2, <1>3, <1>4, <1>6, <2>3 DEF Seeding!Persona
  <2> QED
    BY <2>1, <2>2, <2>3, InvitationWrites
<1> QED
  BY <1>5, <1>6

-----------------------------------------------------------------------------
(* A run that is alone.                                                    *)

\* What a run has to have done to be where it goes.
LEMMA AtMember ==
  ASSUME NEW r \in Runs, seedPc'[r] \in MemberStages, organization' = "demo",
         \A i \in DOMAIN Personas : i < at'[r] => Seeding!PersonaReady(Personas[i])',
           MemberKnown(r)'
  PROVE  LoneProgress(r)'
<1>1. seedPc'[r] \notin ProjectStages /\ seedPc'[r] \notin BugStages
      /\ seedPc'[r] \notin {"setup", "report", "failed"}
  BY DEF MemberStages, ProjectStages, BugStages
<1> QED
  BY <1>1 DEF LoneProgress, PersonasBefore

LEMMA AtProject ==
  ASSUME NEW r \in Runs, seedPc'[r] \in ProjectStages, organization' = "demo", AllPersonas',
         \A i \in DOMAIN DemoProjects : i < at'[r] => Seeding!ProjectReady(DemoProjects[i])',
         ProjectKnown(r)'
  PROVE  LoneProgress(r)'
<1>1. seedPc'[r] \notin MemberStages /\ seedPc'[r] \notin BugStages
      /\ seedPc'[r] \notin {"setup", "report", "failed"}
  BY DEF MemberStages, ProjectStages, BugStages
<1> QED
  BY <1>1 DEF LoneProgress, ProjectsBefore

LEMMA AtBug ==
  ASSUME NEW r \in Runs, seedPc'[r] \in BugStages, organization' = "demo", AllPersonas',
         AllProjects',
         \A i \in DOMAIN DemoBugs : i < at'[r] => Seeding!HasTitle(DemoBugs[i])', BugKnown(r)'
  PROVE  LoneProgress(r)'
<1>1. seedPc'[r] \notin MemberStages /\ seedPc'[r] \notin ProjectStages
      /\ seedPc'[r] \notin {"setup", "report", "failed"}
  BY DEF MemberStages, ProjectStages, BugStages
<1> QED
  BY <1>1 DEF LoneProgress, BugsBefore

LEMMA AtReport ==
  ASSUME NEW r \in Runs, seedPc'[r] = "report", organization' = "demo", AllPersonas', AllProjects',
         AllBugs'
  PROVE  LoneProgress(r)'
  BY DEF LoneProgress, MemberStages, ProjectStages, BugStages

LEMMA AtEnd ==
  ASSUME NEW r \in Runs, seedPc'[r] = "idle"
  PROVE  LoneProgress(r)'
  BY DEF LoneProgress, MemberStages, ProjectStages, BugStages

LEMMA AtFailure ==
  ASSUME NEW r \in Runs, seedPc'[r] = "failed",
         organization' = "other" \/ \E t \in Titles : Seeding!TargetArchived(t)'
  PROVE  LoneProgress(r)'
  BY DEF LoneProgress, MemberStages, ProjectStages, BugStages

LEMMA NextsGo ==
  ASSUME SeedType, NEW r \in Runs
  PROVE  /\ Seeding!NextPersona(r) =>
              \/ at[r] < Len(Personas) /\ seedPc'[r] = "member" /\ at'[r] = at[r] + 1
              \/ ~(at[r] < Len(Personas)) /\ seedPc'[r] = "project" /\ at'[r] = 1
         /\ Seeding!NextProject(r) =>
              \/ at[r] < Len(DemoProjects) /\ seedPc'[r] = "project" /\ at'[r] = at[r] + 1
              \/ ~(at[r] < Len(DemoProjects)) /\ seedPc'[r] = "bug" /\ at'[r] = 1
         /\ Seeding!NextBug(r) =>
              \/ at[r] < Len(DemoBugs) /\ seedPc'[r] = "bug" /\ at'[r] = at[r] + 1
              \/ ~(at[r] < Len(DemoBugs)) /\ seedPc'[r] = "report" /\ at'[r] = 1
<1>1. {"member", "project", "bug", "report"} \subseteq Stages
  BY DEF Stages, MemberStages, ProjectStages, BugStages
<1>2. Seeding!NextPersona(r) =>
        \/ at[r] < Len(Personas) /\ seedPc'[r] = "member" /\ at'[r] = at[r] + 1
        \/ ~(at[r] < Len(Personas)) /\ seedPc'[r] = "project" /\ at'[r] = 1
  BY <1>1, AdvanceKeeps DEF Seeding!NextPersona
<1>3. Seeding!NextProject(r) =>
        \/ at[r] < Len(DemoProjects) /\ seedPc'[r] = "project" /\ at'[r] = at[r] + 1
        \/ ~(at[r] < Len(DemoProjects)) /\ seedPc'[r] = "bug" /\ at'[r] = 1
  BY <1>1, AdvanceKeeps DEF Seeding!NextProject
<1>4. Seeding!NextBug(r) =>
        \/ at[r] < Len(DemoBugs) /\ seedPc'[r] = "bug" /\ at'[r] = at[r] + 1
        \/ ~(at[r] < Len(DemoBugs)) /\ seedPc'[r] = "report" /\ at'[r] = 1
  BY <1>1, AdvanceKeeps DEF Seeding!NextBug
<1> QED
  BY <1>2, <1>3, <1>4

\* The last of a list makes the list complete.
LEMMA PersonaDone ==
  ASSUME SeedType, Places, NEW r \in Runs, seedPc[r] \in MemberStages, Seeding!NextPersona(r),
         organization' = "demo",
         \A i \in DOMAIN Personas : i <= at[r] => Seeding!PersonaReady(Personas[i])'
  PROVE  LoneProgress(r)' /\ seedPc'[r] \in {"member", "project"}
<1>1. PICK n \in Nat : n = Len(Personas)
  BY ListTypes
<1>2. at[r] \in Nat \ {0} /\ at[r] \in DOMAIN Personas /\ DOMAIN Personas = 1..n
  BY <1>1, PlaceTypes, ListTypes
<1>3. \/ at[r] < n /\ seedPc'[r] = "member" /\ at'[r] = at[r] + 1
      \/ ~(at[r] < n) /\ seedPc'[r] = "project" /\ at'[r] = 1
  BY <1>1, NextsGo
<1>4. CASE at[r] < n /\ seedPc'[r] = "member" /\ at'[r] = at[r] + 1
  <2>1. \A i \in DOMAIN Personas : i < at'[r] => Seeding!PersonaReady(Personas[i])'
    BY <1>2, <1>4
  <2>2. MemberKnown(r)'
    BY <1>4 DEF MemberKnown
  <2>3. seedPc'[r] \in MemberStages
    BY <1>4 DEF MemberStages
  <2>4. LoneProgress(r)'
    BY <2>1, <2>2, <2>3, AtMember
  <2> QED
    BY <1>4, <2>4
<1>5. CASE ~(at[r] < n) /\ seedPc'[r] = "project" /\ at'[r] = 1
  <2>1. \A i \in DOMAIN Personas : Seeding!PersonaReady(Personas[i])'
    BY <1>2, <1>5
  <2>2. AllPersonas'
    BY <2>1 DEF AllPersonas, Addresses, Seeding!Elements
  <2>3. ProjectKnown(r)' /\ seedPc'[r] \in ProjectStages
    BY <1>5 DEF ProjectKnown, ProjectStages
  <2>4. \A i \in DOMAIN DemoProjects : ~(i < at'[r])
    BY <1>5, ListTypes
  <2>5. LoneProgress(r)'
    BY <2>2, <2>3, <2>4, AtProject
  <2> QED
    BY <1>5, <2>5
<1> QED
  BY <1>3, <1>4, <1>5

LEMMA ProjectDone ==
  ASSUME SeedType, Places, NEW r \in Runs, seedPc[r] \in ProjectStages, Seeding!NextProject(r),
         organization' = "demo", AllPersonas',
         \A i \in DOMAIN DemoProjects : i <= at[r] => Seeding!ProjectReady(DemoProjects[i])'
  PROVE  LoneProgress(r)' /\ seedPc'[r] \in {"project", "bug"}
<1>1. PICK n \in Nat : n = Len(DemoProjects)
  BY ListTypes
<1>2. at[r] \in Nat \ {0} /\ at[r] \in DOMAIN DemoProjects /\ DOMAIN DemoProjects = 1..n
  BY <1>1, PlaceTypes, ListTypes
<1>3. \/ at[r] < n /\ seedPc'[r] = "project" /\ at'[r] = at[r] + 1
      \/ ~(at[r] < n) /\ seedPc'[r] = "bug" /\ at'[r] = 1
  BY <1>1, NextsGo
<1>4. CASE at[r] < n /\ seedPc'[r] = "project" /\ at'[r] = at[r] + 1
  <2>1. \A i \in DOMAIN DemoProjects : i < at'[r] => Seeding!ProjectReady(DemoProjects[i])'
    BY <1>2, <1>4
  <2>2. ProjectKnown(r)' /\ seedPc'[r] \in ProjectStages
    BY <1>4 DEF ProjectKnown, ProjectStages
  <2>3. LoneProgress(r)'
    BY <2>1, <2>2, AtProject
  <2> QED
    BY <1>4, <2>3
<1>5. CASE ~(at[r] < n) /\ seedPc'[r] = "bug" /\ at'[r] = 1
  <2>1. \A i \in DOMAIN DemoProjects : Seeding!ProjectReady(DemoProjects[i])'
    BY <1>2, <1>5
  <2>2. AllProjects'
    BY <2>1 DEF AllProjects, Keys, Seeding!Elements
  <2>3. BugKnown(r)' /\ seedPc'[r] \in BugStages
    BY <1>5 DEF BugKnown, BugStages
  <2>4. \A i \in DOMAIN DemoBugs : ~(i < at'[r])
    BY <1>5, ListTypes
  <2>5. LoneProgress(r)'
    BY <2>2, <2>3, <2>4, AtBug
  <2> QED
    BY <1>5, <2>5
<1> QED
  BY <1>3, <1>4, <1>5

LEMMA BugDone ==
  ASSUME SeedType, Places, NEW r \in Runs, seedPc[r] \in BugStages, Seeding!NextBug(r),
         organization' = "demo", AllPersonas', AllProjects',
         \A i \in DOMAIN DemoBugs : i <= at[r] => Seeding!HasTitle(DemoBugs[i])'
  PROVE  LoneProgress(r)' /\ seedPc'[r] \in {"bug", "report"}
<1>1. PICK n \in Nat : n = Len(DemoBugs)
  BY ListTypes
<1>2. at[r] \in Nat \ {0} /\ at[r] \in DOMAIN DemoBugs /\ DOMAIN DemoBugs = 1..n
  BY <1>1, PlaceTypes, ListTypes
<1>3. \/ at[r] < n /\ seedPc'[r] = "bug" /\ at'[r] = at[r] + 1
      \/ ~(at[r] < n) /\ seedPc'[r] = "report" /\ at'[r] = 1
  BY <1>1, NextsGo
<1>4. CASE at[r] < n /\ seedPc'[r] = "bug" /\ at'[r] = at[r] + 1
  <2>1. \A i \in DOMAIN DemoBugs : i < at'[r] => Seeding!HasTitle(DemoBugs[i])'
    BY <1>2, <1>4
  <2>2. BugKnown(r)' /\ seedPc'[r] \in BugStages
    BY <1>4 DEF BugKnown, BugStages
  <2>3. LoneProgress(r)'
    BY <2>1, <2>2, AtBug
  <2> QED
    BY <1>4, <2>3
<1>5. CASE ~(at[r] < n) /\ seedPc'[r] = "report" /\ at'[r] = 1
  <2>1. \A i \in DOMAIN DemoBugs : Seeding!HasTitle(DemoBugs[i])'
    BY <1>2, <1>5
  <2>2. AllBugs'
    BY <2>1 DEF AllBugs, Titles, Seeding!Elements
  <2>3. LoneProgress(r)'
    BY <1>5, <2>2, AtReport
  <2> QED
    BY <1>5, <2>3
<1> QED
  BY <1>3, <1>4, <1>5

-----------------------------------------------------------------------------
(* Each step of a run that is alone.                                       *)

\* A run on content that is there writes nothing.
Repeats(r) == repeat[r] => UNCHANGED Seeding!tables /\ seedPc'[r] \in QuietStages \union {"idle"}

LEMMA ReadyParts ==
  Seeding!Ready <=> organization = "demo" /\ AllPersonas /\ AllProjects /\ AllBugs
  BY DEF Seeding!Ready, AllPersonas, AllProjects, AllBugs, Addresses, Keys, Titles

\* Nothing that a run has to have done is undone.
LEMMA UnchangedIsReady ==
  ASSUME UNCHANGED <<settings, Seeding!tables>>
  PROVE  /\ \A p : Seeding!PersonaReady(p) => Seeding!PersonaReady(p)'
         /\ \A k : Seeding!ProjectReady(k) => Seeding!ProjectReady(k)'
         /\ \A t : Seeding!HasTitle(t) => Seeding!HasTitle(t)'
         /\ AllPersonas => AllPersonas'
         /\ AllProjects => AllProjects'
         /\ AllBugs => AllBugs'
<1> USE DEF Seeding!tables, Seeding!people
<1>1. \A p : Seeding!PersonaReady(p) => Seeding!PersonaReady(p)'
  BY DEF Seeding!PersonaReady, Seeding!RoleOf
<1>2. \A k : Seeding!ProjectReady(k) => Seeding!ProjectReady(k)'
  BY DEF Seeding!ProjectReady
<1>3. \A t : Seeding!HasTitle(t) => Seeding!HasTitle(t)'
  BY DEF Seeding!HasTitle
<1> QED
  BY <1>1, <1>2, <1>3 DEF AllPersonas, AllProjects, AllBugs

LEMMA PersonasStay ==
  ASSUME UNCHANGED <<settings, Seeding!people>>
  PROVE  /\ \A p : Seeding!PersonaReady(p) => Seeding!PersonaReady(p)'
         /\ AllPersonas => AllPersonas'
<1>1. \A p : Seeding!PersonaReady(p) => Seeding!PersonaReady(p)'
  BY DEF Seeding!people, Seeding!PersonaReady, Seeding!RoleOf
<1> QED
  BY <1>1 DEF AllPersonas

LEMMA ProjectsStay ==
  ASSUME UNCHANGED project
  PROVE  AllProjects => AllProjects'
  BY DEF AllProjects, Seeding!ProjectReady

LEMMA LoneOrganization ==
  ASSUME SeedType, Places, NEW r \in Runs, LoneProgress(r), LoneRepeat(r),
         Seeding!FindOrganization(r) \/ Seeding!SetUp(r)
  PROVE  LoneProgress(r)' /\ Repeats(r)
<1>1. \A next : Seeding!Goto(r, next) => seedPc'[r] = next /\ at'[r] = at[r]
  BY DEF Seeding!Goto, SeedType
<1>2. at[r] = 1 /\ organization \in {"none", "demo", "other"}
  BY DEF Places, SeedType, DataType, Seeding!FindOrganization, Seeding!SetUp, Seeding!Acts
<1>3. seedPc'[r] = "member" /\ at'[r] = at[r] /\ organization' = "demo" => LoneProgress(r)'
  <2> SUFFICES ASSUME seedPc'[r] = "member", at'[r] = at[r], organization' = "demo"
               PROVE  LoneProgress(r)'
    OBVIOUS
  <2>1. \A i \in DOMAIN Personas : ~(i < at'[r])
    BY <1>2, ListTypes
  <2>2. MemberKnown(r)' /\ seedPc'[r] \in MemberStages
    BY DEF MemberKnown, MemberStages
  <2> QED
    BY <2>1, <2>2, AtMember
<1>4. CASE Seeding!FindOrganization(r)
  <2>1. UNCHANGED Seeding!tables /\ seedPc[r] = "organization"
    BY <1>4 DEF Seeding!FindOrganization, Seeding!Acts
  <2>2. CASE organization = "demo"
    <3>1. seedPc'[r] = "member" /\ at'[r] = at[r] /\ organization' = "demo"
      BY <1>1, <1>4, <2>1, <2>2 DEF Seeding!FindOrganization, Seeding!tables
    <3> QED
      BY <1>3, <2>1, <3>1 DEF Repeats, QuietStages
  <2>3. CASE organization # "demo"
    <3>1. seedPc'[r] = "setup" /\ organization' # "demo"
      BY <1>1, <1>4, <2>1, <2>3 DEF Seeding!FindOrganization, Seeding!tables
    <3>2. ~repeat[r]
      BY <2>1, <2>3, ReadyParts DEF LoneRepeat
    <3>3. LoneProgress(r)'
      BY <3>1 DEF LoneProgress, MemberStages, ProjectStages, BugStages
    <3> QED
      BY <3>2, <3>3 DEF Repeats
  <2> QED
    BY <2>2, <2>3
<1>5. CASE Seeding!SetUp(r)
  <2>1. seedPc[r] = "setup" /\ organization # "demo"
    BY <1>5 DEF Seeding!SetUp, Seeding!Acts, LoneProgress
  <2>2. ~repeat[r]
    BY <2>1 DEF LoneRepeat, QuietStages
  <2>3. CASE organization = "none"
    <3>1. seedPc'[r] = "member" /\ at'[r] = at[r] /\ organization' = "demo"
      BY <1>1, <1>5, <2>3 DEF Seeding!SetUp
    <3> QED
      BY <1>3, <2>2, <3>1 DEF Repeats
  <2>4. CASE organization = "other"
    <3>1. seedPc'[r] = "failed" /\ organization' = "other"
      BY <1>1, <1>5, <2>4 DEF Seeding!SetUp, Seeding!Raise, Seeding!tables
    <3> QED
      BY <2>2, <3>1, AtFailure DEF Repeats
  <2> QED
    BY <1>2, <2>1, <2>3, <2>4
<1> QED
  BY <1>4, <1>5

\* What a lone run knows when it is at a persona.
LEMMA LoneAtMember ==
  ASSUME SeedType, Places, NEW r \in Runs, LoneProgress(r), seedPc[r] \in MemberStages
  PROVE  /\ organization = "demo" /\ MemberKnown(r)
         /\ Seeding!Persona(r) \in Addresses /\ Seeding!Persona(r) = Personas[at[r]]
         /\ at[r] \in Nat \ {0} /\ at[r] \in DOMAIN Personas /\ DOMAIN Personas \subseteq Nat
         /\ \A i \in DOMAIN Personas : i < at[r] => Seeding!PersonaReady(Personas[i])
<1>1. organization = "demo"
  BY DEF LoneProgress, MemberStages
<1>2. MemberKnown(r) /\ \A i \in DOMAIN Personas : i < at[r] => Seeding!PersonaReady(Personas[i])
  BY DEF LoneProgress, PersonasBefore
<1>3. DOMAIN Personas \subseteq Nat
  BY ListTypes
<1> QED
  BY <1>1, <1>2, <1>3, PlaceTypes DEF Seeding!Persona

LEMMA LoneFindMember ==
  ASSUME SeedType, Places, NEW r \in Runs, LoneProgress(r), LoneRepeat(r), Seeding!FindMember(r)
  PROVE  LoneProgress(r)' /\ Repeats(r)
<1>1. seedPc[r] = "member" /\ UNCHANGED <<settings, Seeding!tables>>
  BY DEF Seeding!FindMember, Seeding!Acts
<1>2. seedPc[r] \in MemberStages
  BY <1>1 DEF MemberStages
<1>3. PICK p : p = Seeding!Persona(r)
  OBVIOUS
<1>4. /\ seedPc'[r] = IF role[p] = "none" THEN "invite" ELSE "sync"
      /\ at' = at /\ found'[r] = role[p] /\ role' = role /\ organization' = organization
  BY <1>1, <1>3 DEF Seeding!FindMember, Seeding!Goto, SeedType, DataType, Seeding!tables,
                    Seeding!people
<1>5. \A i \in DOMAIN Personas : i < at'[r] => Seeding!PersonaReady(Personas[i])'
  BY <1>1, <1>2, <1>4, LoneAtMember, UnchangedIsReady
<1>6. MemberKnown(r)'
  BY <1>3, <1>4 DEF MemberKnown, Seeding!Persona
<1>7. LoneProgress(r)'
  BY <1>2, <1>4, <1>5, <1>6, LoneAtMember, AtMember DEF MemberStages
<1>8. ASSUME repeat[r] PROVE seedPc'[r] = "sync"
  <2>1. AllPersonas
    BY <1>1, <1>8, ReadyParts DEF LoneRepeat
  <2>2. role[p] # "none"
    BY <1>2, <1>3, <2>1, LoneAtMember, PasswordType DEF AllPersonas, Seeding!PersonaReady
  <2> QED
    BY <1>4, <2>2
<1> QED
  BY <1>1, <1>7, <1>8 DEF Repeats, QuietStages

LEMMA LoneSyncMember ==
  ASSUME SeedType, Places, NEW r \in Runs, LoneProgress(r), LoneRepeat(r), Seeding!SyncMember(r)
  PROVE  LoneProgress(r)' /\ Repeats(r)
<1>1. /\ seedPc[r] = "sync"
      /\ UNCHANGED <<settings, organization, role, invitation, project, bugs, found>>
  BY DEF Seeding!SyncMember, Seeding!Acts
<1>2. seedPc[r] \in MemberStages
  BY <1>1 DEF MemberStages
<1>3. PICK p \in Addresses : p = Seeding!Persona(r) /\ p = Personas[at[r]]
  BY <1>2, LoneAtMember
<1>4. /\ account \in [Addresses -> Accounts]
      /\ account' = [account EXCEPT ![p] = Seeding!PasswordOf(p)]
      /\ IF found[r] \in {"none", Seeding!RoleOf(p)}
         THEN Seeding!NextPersona(r) ELSE Seeding!Goto(r, "role")
  BY <1>3 DEF Seeding!SyncMember, SeedType, DataType
<1>5. /\ role[p] # "none" /\ found[r] \in {"none", role[p]}
      /\ found[r] = "none" => role[p] = Seeding!RoleOf(p)
  BY <1>1, <1>2, <1>3, LoneAtMember DEF MemberKnown
<1>6. \A q \in Addresses : Seeding!PersonaReady(q) => Seeding!PersonaReady(q)'
  BY <1>1, <1>3, <1>4 DEF Seeding!PersonaReady, Seeding!RoleOf, Seeding!PasswordOf
<1>7. \A i \in DOMAIN Personas : Personas[i] \in Addresses
  BY ListTypes
<1>8. \A i \in DOMAIN Personas : i < at[r] => Seeding!PersonaReady(Personas[i])'
  BY <1>2, <1>6, <1>7, LoneAtMember
<1>9. CASE found[r] \in {"none", Seeding!RoleOf(p)}
  <2>1. role[p] = Seeding!RoleOf(p) /\ Seeding!NextPersona(r)
    BY <1>4, <1>5, <1>9
  <2>2. Seeding!PersonaReady(p)'
    BY <1>1, <1>3, <1>4, <2>1 DEF Seeding!PersonaReady, Seeding!RoleOf, Seeding!PasswordOf
  <2>3. \A i \in DOMAIN Personas : i <= at[r] => Seeding!PersonaReady(Personas[i])'
    <3> TAKE i \in DOMAIN Personas
    <3>1. i \in Nat /\ at[r] \in Nat
      BY <1>2, LoneAtMember
    <3>2. CASE i < at[r]
      BY <1>8, <3>2
    <3>3. CASE i = at[r]
      BY <1>3, <2>2, <3>3
    <3> QED
      BY <3>1, <3>2, <3>3
  <2>4. organization' = "demo"
    BY <1>1, <1>2, LoneAtMember
  <2>5. LoneProgress(r)' /\ seedPc'[r] \in {"member", "project"}
    BY <1>2, <2>1, <2>3, <2>4, PersonaDone
  <2>6. ASSUME repeat[r] PROVE UNCHANGED Seeding!tables
    <3>1. Seeding!PersonaReady(p)
      BY <1>1, <1>3, <2>6, ReadyParts DEF LoneRepeat, AllPersonas
    <3>2. account[p] = Seeding!PasswordOf(p)
      BY <3>1 DEF Seeding!PersonaReady, Seeding!PasswordOf
    <3> QED
      BY <1>1, <1>3, <1>4, <3>2 DEF Seeding!tables, Seeding!people
  <2> QED
    BY <2>5, <2>6 DEF Repeats, QuietStages
<1>10. CASE found[r] \notin {"none", Seeding!RoleOf(p)}
  <2>1. seedPc'[r] = "role" /\ at' = at
    BY <1>4, <1>10 DEF Seeding!Goto, SeedType
  <2>2. MemberKnown(r)'
    <3>1. role'[p] \notin {"none", Seeding!RoleOf(p)} /\ account'[p] = Seeding!PasswordOf(p)
      BY <1>1, <1>3, <1>4, <1>5, <1>10
    <3>2. Seeding!PasswordOf(p)' = Seeding!PasswordOf(p)
      BY <1>1 DEF Seeding!PasswordOf
    <3> QED
      BY <1>3, <2>1, <3>1, <3>2 DEF MemberKnown, Seeding!Persona, Seeding!RoleOf,
                                    Seeding!PasswordOf
  <2>3. LoneProgress(r)'
    BY <1>1, <1>2, <1>8, <2>1, <2>2, LoneAtMember, AtMember DEF MemberStages
  <2>4. ~repeat[r]
    <3> SUFFICES ASSUME repeat[r] PROVE FALSE
      OBVIOUS
    <3>1. Seeding!PersonaReady(p)
      BY <1>1, <1>3, ReadyParts DEF LoneRepeat, AllPersonas
    <3> QED
      BY <1>5, <1>10, <3>1 DEF Seeding!PersonaReady
  <2> QED
    BY <2>3, <2>4 DEF Repeats
<1> QED
  BY <1>9, <1>10

\* The other administrator is the first of the list, who is ready by then.
LEMMA LoneChangeRole ==
  ASSUME SeedType, Places, NEW r \in Runs, LoneProgress(r), LoneRepeat(r), Seeding!ChangeRole(r)
  PROVE  LoneProgress(r)' /\ Repeats(r)
<1>1. seedPc[r] = "role" /\ UNCHANGED settings
  BY DEF Seeding!ChangeRole, Seeding!Acts
<1>2. seedPc[r] \in MemberStages /\ ~repeat[r]
  BY <1>1 DEF MemberStages, LoneRepeat, QuietStages
<1>3. PICK p \in Addresses : p = Seeding!Persona(r) /\ p = Personas[at[r]]
  BY <1>2, LoneAtMember
<1>4. role \in [Addresses -> RoleNames]
  BY DEF SeedType, DataType
<1>5. role[p] \notin {"none", Seeding!RoleOf(p)} /\ account[p] = Seeding!PasswordOf(p)
  BY <1>1, <1>2, <1>3, LoneAtMember DEF MemberKnown
<1>6. ~(role[p] = "administrator" /\ Seeding!RoleOf(p) # "administrator"
        /\ Seeding!OtherAdministrators(p) = {})
  <2> SUFFICES ASSUME Seeding!RoleOf(p) # "administrator" PROVE Seeding!OtherAdministrators(p) # {}
    OBVIOUS
  <2>1. p # Seeding!Admin
    BY DEF Seeding!RoleOf
  <2>2. at[r] # 1
    BY <1>3, <2>1 DEF Seeding!Admin
  <2>3. 1 < at[r]
    BY <1>2, <2>2, LoneAtMember
  <2>4. Seeding!PersonaReady(Seeding!Admin)
    BY <1>2, <2>3, LoneAtMember, AdminIsFirst
  <2>5. role[Seeding!Admin] = "administrator" /\ Seeding!Admin \in DOMAIN role
    BY <1>4, <2>4, AdminIsFirst DEF Seeding!PersonaReady, Seeding!RoleOf
  <2> QED
    BY <2>1, <2>5 DEF Seeding!OtherAdministrators
<1>7. /\ role' = [role EXCEPT ![p] = Seeding!RoleOf(p)] /\ Seeding!NextPersona(r)
      /\ UNCHANGED <<organization, account, invitation, project, bugs, found>>
  BY <1>3, <1>5, <1>6 DEF Seeding!ChangeRole
<1>8. \A q \in Addresses : q = p \/ Seeding!PersonaReady(q) => Seeding!PersonaReady(q)'
  BY <1>1, <1>4, <1>5, <1>7 DEF Seeding!PersonaReady, Seeding!RoleOf, Seeding!PasswordOf
<1>9. \A i \in DOMAIN Personas : i <= at[r] => Seeding!PersonaReady(Personas[i])'
  <2> TAKE i \in DOMAIN Personas
  <2>1. i \in Nat /\ at[r] \in Nat /\ Personas[i] \in Addresses
    BY <1>2, LoneAtMember, ListTypes
  <2>2. CASE i < at[r]
    BY <1>2, <1>8, <2>1, <2>2, LoneAtMember
  <2>3. CASE i = at[r]
    BY <1>3, <1>8, <2>3
  <2> QED
    BY <2>1, <2>2, <2>3
<1>10. organization' = "demo"
  BY <1>2, <1>7, LoneAtMember
<1> QED
  BY <1>2, <1>7, <1>9, <1>10, PersonaDone DEF Repeats

LEMMA LoneInvitations ==
  ASSUME SeedType, Places, NEW r \in Runs, LoneProgress(r), LoneRepeat(r),
         Seeding!Invite(r) \/ Seeding!RevokeLeftover(r) \/ Seeding!InviteAgain(r)
  PROVE  LoneProgress(r)' /\ Repeats(r)
<1>1. seedPc[r] \in {"invite", "revoke", "invite again"} /\ UNCHANGED settings
  BY DEF Seeding!Invite, Seeding!RevokeLeftover, Seeding!InviteAgain, Seeding!Acts
<1>2. seedPc[r] \in MemberStages /\ ~repeat[r]
  BY <1>1 DEF MemberStages, LoneRepeat, QuietStages
<1>3. PICK p \in Addresses : p = Seeding!Persona(r) /\ p = Personas[at[r]]
  BY <1>2, LoneAtMember
<1>4. invitation \in [Addresses -> Runs \union {"lost", None}]
  BY DEF SeedType, DataType
<1>5. /\ role[p] = "none" /\ found[r] = "none"
      /\ seedPc[r] = "revoke" => invitation[p] # None
      /\ seedPc[r] = "invite again" => invitation[p] = None
  BY <1>1, <1>2, <1>3, LoneAtMember DEF MemberKnown
<1>6. \A next : Seeding!Goto(r, next) => seedPc'[r] = next /\ at' = at
  BY DEF Seeding!Goto, SeedType
<1>7. /\ UNCHANGED <<organization, account, role, found>> /\ at' = at
      /\ \/ seedPc'[r] = "revoke" /\ invitation'[p] # None
         \/ seedPc'[r] = "invite again" /\ invitation'[p] = None
         \/ seedPc'[r] = "accept" /\ invitation'[p] = r
  <2>1. CASE Seeding!Invite(r)
    BY <1>3, <1>4, <1>5, <1>6, <2>1 DEF Seeding!Invite, Seeding!WhenPending
  <2>2. CASE Seeding!RevokeLeftover(r)
    BY <1>3, <1>4, <1>5, <1>6, <2>2 DEF Seeding!RevokeLeftover, Seeding!Acts
  <2>3. CASE Seeding!InviteAgain(r)
    BY <1>3, <1>4, <1>5, <1>6, <2>3 DEF Seeding!InviteAgain, Seeding!Acts
  <2> QED
    BY <2>1, <2>2, <2>3
<1>8. \A i \in DOMAIN Personas : i < at'[r] => Seeding!PersonaReady(Personas[i])'
  BY <1>1, <1>2, <1>7, LoneAtMember DEF Seeding!PersonaReady, Seeding!RoleOf
<1>9. MemberKnown(r)'
  BY <1>3, <1>5, <1>7 DEF MemberKnown, Seeding!Persona
<1>10. seedPc'[r] \in MemberStages
  BY <1>7 DEF MemberStages
<1>11. organization' = "demo"
  BY <1>2, <1>7, LoneAtMember
<1> QED
  BY <1>2, <1>8, <1>9, <1>10, <1>11, AtMember DEF Repeats

LEMMA LoneAccept ==
  ASSUME SeedType, Places, NEW r \in Runs, LoneProgress(r), LoneRepeat(r), Seeding!Accept(r)
  PROVE  LoneProgress(r)' /\ Repeats(r)
<1>1. seedPc[r] = "accept" /\ UNCHANGED settings
  BY DEF Seeding!Accept, Seeding!Acts
<1>2. seedPc[r] \in MemberStages /\ ~repeat[r]
  BY <1>1 DEF MemberStages, LoneRepeat, QuietStages
<1>3. PICK p \in Addresses : p = Seeding!Persona(r) /\ p = Personas[at[r]]
  BY <1>2, LoneAtMember
<1>4. account \in [Addresses -> Accounts] /\ role \in [Addresses -> RoleNames]
  BY DEF SeedType, DataType
<1>5. role[p] = "none" /\ found[r] = "none" /\ invitation[p] = r
  BY <1>1, <1>2, <1>3, LoneAtMember DEF MemberKnown
<1>6. /\ \E word : account' = [account EXCEPT ![p] = word]
      /\ role' = [role EXCEPT ![p] = Seeding!RoleOf(p)]
      /\ Seeding!Goto(r, "sync") /\ UNCHANGED <<organization, found>>
  BY <1>3, <1>4, <1>5 DEF Seeding!Accept
<1>7. seedPc'[r] = "sync" /\ at' = at
  BY <1>6 DEF Seeding!Goto, SeedType
<1>8. \A q \in Addresses : Seeding!PersonaReady(q) => Seeding!PersonaReady(q)'
  <2> TAKE q \in Addresses
  <2>1. q = p => ~Seeding!PersonaReady(q)
    BY <1>5, PasswordType DEF Seeding!PersonaReady
  <2>2. q # p => role'[q] = role[q] /\ account'[q] = account[q]
    BY <1>4, <1>6
  <2> QED
    BY <1>1, <2>1, <2>2 DEF Seeding!PersonaReady, Seeding!RoleOf
<1>9. \A i \in DOMAIN Personas : i < at'[r] => Seeding!PersonaReady(Personas[i])'
  <2>1. \A i \in DOMAIN Personas : Personas[i] \in Addresses
    BY ListTypes
  <2> QED
    BY <1>2, <1>7, <1>8, <2>1, LoneAtMember
<1>10. MemberKnown(r)'
  <2>1. role'[p] = Seeding!RoleOf(p) /\ found'[r] = "none" /\ Seeding!RoleOf(p) # "none"
    BY <1>4, <1>5, <1>6, PasswordType
  <2> QED
    BY <1>3, <1>7, <2>1 DEF MemberKnown, Seeding!Persona, Seeding!RoleOf
<1>11. seedPc'[r] \in MemberStages /\ organization' = "demo"
  BY <1>2, <1>6, <1>7, LoneAtMember DEF MemberStages
<1> QED
  BY <1>2, <1>9, <1>10, <1>11, AtMember DEF Repeats

LEMMA FreshRow ==
  ASSUME NEW row \in ProjectRows
  PROVE  ~row.archived /\ ~row.edited <=> row = [archived |-> FALSE, edited |-> FALSE]
<1>1. PICK fresh : fresh = [archived |-> FALSE, edited |-> FALSE]
  OBVIOUS
<1>2. fresh \in ProjectRows /\ ~fresh.archived /\ ~fresh.edited
  BY <1>1 DEF ProjectRows
<1>3. row.archived \in BOOLEAN /\ row.edited \in BOOLEAN
      /\ row = [archived |-> row.archived, edited |-> row.edited]
  BY DEF ProjectRows
<1>4. ASSUME ~row.archived, ~row.edited PROVE row = fresh
  <2>1. row.archived = FALSE /\ row.edited = FALSE
    BY <1>3, <1>4
  <2> QED
    BY <1>1, <1>3, <2>1
<1> QED
  BY <1>1, <1>2, <1>4

LEMMA LoneAtProject ==
  ASSUME SeedType, Places, NEW r \in Runs, LoneProgress(r), seedPc[r] \in ProjectStages
  PROVE  /\ organization = "demo" /\ AllPersonas /\ ProjectKnown(r)
         /\ Seeding!Key(r) \in Keys /\ Seeding!Key(r) = DemoProjects[at[r]]
         /\ at[r] \in Nat \ {0} /\ at[r] \in DOMAIN DemoProjects
              /\ DOMAIN DemoProjects \subseteq Nat
         /\ \A i \in DOMAIN DemoProjects : DemoProjects[i] \in Keys
         /\ \A i \in DOMAIN DemoProjects : i < at[r] => Seeding!ProjectReady(DemoProjects[i])
<1>1. organization = "demo"
  BY DEF LoneProgress, ProjectStages
<1>2. AllPersonas /\ ProjectKnown(r)
      /\ \A i \in DOMAIN DemoProjects : i < at[r] => Seeding!ProjectReady(DemoProjects[i])
  BY DEF LoneProgress, ProjectsBefore
<1>3. DOMAIN DemoProjects \subseteq Nat /\ \A i \in DOMAIN DemoProjects : DemoProjects[i] \in Keys
  BY ListTypes
<1> QED
  BY <1>1, <1>2, <1>3, PlaceTypes DEF Seeding!Key

\* A project that is written or found as it should be.
LEMMA LoneProjectDone ==
  ASSUME SeedType, Places, NEW r \in Runs, LoneProgress(r), seedPc[r] \in ProjectStages,
         Seeding!NextProject(r), UNCHANGED <<settings, organization, Seeding!people>>,
         \A k \in Keys : k = Seeding!Key(r) \/ Seeding!ProjectReady(k) => Seeding!ProjectReady(k)'
  PROVE  LoneProgress(r)' /\ seedPc'[r] \in {"project", "bug"}
<1>1. \A i \in DOMAIN DemoProjects : i <= at[r] => Seeding!ProjectReady(DemoProjects[i])'
  <2> TAKE i \in DOMAIN DemoProjects
  <2>1. i \in Nat /\ at[r] \in Nat /\ DemoProjects[i] \in Keys
    BY LoneAtProject
  <2>2. CASE i < at[r]
    BY <2>1, <2>2, LoneAtProject
  <2>3. CASE i = at[r]
    BY <2>1, <2>3, LoneAtProject
  <2> QED
    BY <2>1, <2>2, <2>3
<1>2. organization' = "demo" /\ AllPersonas'
  BY LoneAtProject, PersonasStay
<1> QED
  BY <1>1, <1>2, ProjectDone

LEMMA LoneFindProject ==
  ASSUME SeedType, Places, NEW r \in Runs, LoneProgress(r), LoneRepeat(r), Seeding!FindProject(r)
  PROVE  LoneProgress(r)' /\ Repeats(r)
<1>1. seedPc[r] = "project" /\ UNCHANGED <<settings, Seeding!tables>>
  BY DEF Seeding!FindProject, Seeding!Acts
<1>2. seedPc[r] \in ProjectStages
  BY <1>1 DEF ProjectStages
<1>3. PICK k \in Keys : k = Seeding!Key(r)
  BY <1>2, LoneAtProject
<1>4. project[k] \in ProjectRows \union {None} /\ found \in [Runs -> Findings]
  BY DEF SeedType, DataType
<1>5. None \notin ProjectRows
  BY PlatformAssumption DEF Seeding!SeedAssumption, ProjectRows
<1>6. \A next : Seeding!Goto(r, next) => seedPc'[r] = next /\ at' = at
  BY DEF Seeding!Goto, SeedType
<1>7. found'[r] = project[k]
  BY <1>3, <1>4 DEF Seeding!FindProject
<1>8. \/ project[k] = None /\ Seeding!Goto(r, "create project")
      \/ project[k] \in ProjectRows /\ project[k].archived /\ Seeding!Goto(r, "restore")
      \/ project[k] \in ProjectRows /\ ~project[k].archived /\ project[k].edited
           /\ Seeding!Goto(r, "update")
      \/ project[k] \in ProjectRows /\ ~project[k].archived /\ ~project[k].edited
           /\ Seeding!NextProject(r)
  BY <1>3, <1>4 DEF Seeding!FindProject
<1>9. UNCHANGED <<organization, Seeding!people, project>>
  BY <1>1 DEF Seeding!tables
<1>10. ASSUME repeat[r] PROVE project[k] # None /\ ~project[k].archived /\ ~project[k].edited
  <2>1. project[k] = [archived |-> FALSE, edited |-> FALSE]
    BY <1>1, <1>10, ReadyParts DEF LoneRepeat, AllProjects, Seeding!ProjectReady
  <2>2. project[k] \in ProjectRows
    BY <2>1 DEF ProjectRows
  <2> QED
    BY <1>5, <2>1, <2>2, FreshRow
<1>11. CASE Seeding!NextProject(r) /\ project[k] \in ProjectRows /\ ~project[k].archived
              /\ ~project[k].edited
  <2>1. Seeding!ProjectReady(k)
    BY <1>11, FreshRow DEF Seeding!ProjectReady
  <2>2. \A j \in Keys : j = Seeding!Key(r) \/ Seeding!ProjectReady(j) => Seeding!ProjectReady(j)'
    BY <1>1, <1>3, <2>1, UnchangedIsReady
  <2>3. LoneProgress(r)' /\ seedPc'[r] \in {"project", "bug"}
    BY <1>1, <1>2, <1>9, <1>11, <2>2, LoneProjectDone
  <2> QED
    BY <1>1, <2>3 DEF Repeats, QuietStages
<1>12. CASE \/ project[k] = None /\ Seeding!Goto(r, "create project")
            \/ project[k] \in ProjectRows /\ project[k].archived /\ Seeding!Goto(r, "restore")
            \/ project[k] \in ProjectRows /\ ~project[k].archived /\ project[k].edited
                 /\ Seeding!Goto(r, "update")
  <2>1. /\ at' = at
        /\ \/ seedPc'[r] = "create project" /\ project[k] = None
           \/ seedPc'[r] = "restore"
           \/ seedPc'[r] = "update" /\ ~project[k].archived
    BY <1>6, <1>12
  <2>2. ProjectKnown(r)'
    BY <1>3, <1>7, <1>9, <2>1 DEF ProjectKnown, Seeding!Key
  <2>3. seedPc'[r] \in ProjectStages /\ organization' = "demo" /\ AllPersonas'
    BY <1>1, <1>2, <1>9, <2>1, LoneAtProject, UnchangedIsReady DEF ProjectStages
  <2>4. \A i \in DOMAIN DemoProjects : i < at'[r] => Seeding!ProjectReady(DemoProjects[i])'
    BY <1>1, <1>2, <2>1, LoneAtProject, UnchangedIsReady
  <2> QED
    BY <1>10, <1>12, <2>2, <2>3, <2>4, AtProject DEF Repeats
<1> QED
  BY <1>8, <1>11, <1>12

LEMMA LoneCreateProject ==
  ASSUME SeedType, Places, NEW r \in Runs, LoneProgress(r), LoneRepeat(r), Seeding!CreateProject(r)
  PROVE  LoneProgress(r)' /\ Repeats(r)
<1>1. seedPc[r] = "create project" /\ UNCHANGED settings
  BY DEF Seeding!CreateProject, Seeding!Acts
<1>2. seedPc[r] \in ProjectStages /\ ~repeat[r]
  BY <1>1 DEF ProjectStages, LoneRepeat, QuietStages
<1>3. PICK k \in Keys : k = Seeding!Key(r)
  BY <1>2, LoneAtProject
<1>4. project[k] = None /\ project \in [Keys -> ProjectRows \union {None}]
  BY <1>1, <1>2, <1>3, LoneAtProject DEF ProjectKnown, SeedType, DataType
<1>5. /\ project' = [project EXCEPT ![k] = [archived |-> FALSE, edited |-> FALSE]]
      /\ Seeding!NextProject(r) /\ UNCHANGED <<organization, Seeding!people, bugs, found>>
  BY <1>3, <1>4 DEF Seeding!CreateProject
<1>6. \A j \in Keys : j = Seeding!Key(r) \/ Seeding!ProjectReady(j) => Seeding!ProjectReady(j)'
  BY <1>3, <1>4, <1>5 DEF Seeding!ProjectReady
<1> QED
  BY <1>1, <1>2, <1>5, <1>6, LoneProjectDone DEF Repeats

\* A row that is not archived any more is as it should be, or is updated.
LEMMA LoneRestoreProject ==
  ASSUME SeedType, Places, RowsThere, NEW r \in Runs, LoneProgress(r), LoneRepeat(r),
         Seeding!RestoreProject(r)
  PROVE  LoneProgress(r)' /\ Repeats(r)
<1>1. seedPc[r] = "restore" /\ UNCHANGED settings
  BY DEF Seeding!RestoreProject, Seeding!Acts
<1>2. seedPc[r] \in ProjectStages /\ ~repeat[r]
  BY <1>1 DEF ProjectStages, LoneRepeat, QuietStages
<1>3. PICK k \in Keys : k = Seeding!Key(r)
  BY <1>2, LoneAtProject
<1>4. /\ project[k] \in ProjectRows /\ found[r] = project[k]
      /\ project \in [Keys -> ProjectRows \union {None}]
  BY <1>1, <1>2, <1>3, LoneAtProject DEF RowsThere, ProjectKnown, SeedType, DataType
<1>5. /\ project' = [project EXCEPT ![k] = [project[k] EXCEPT !.archived = FALSE]]
      /\ UNCHANGED <<organization, Seeding!people, bugs, found>>
      /\ IF project[k].edited THEN Seeding!Goto(r, "update") ELSE Seeding!NextProject(r)
  BY <1>3, <1>4 DEF Seeding!RestoreProject, Seeding!NeedsUpdate
<1>6. PICK row : row = [project[k] EXCEPT !.archived = FALSE]
  OBVIOUS
<1>7. project'[k] = row /\ \A j \in Keys : j # k => project'[j] = project[j]
  BY <1>4, <1>5, <1>6
<1>8. /\ row \in ProjectRows /\ row.edited = project[k].edited /\ ~row.archived
  BY <1>4, <1>6 DEF ProjectRows
<1>9. \A j \in Keys : Seeding!ProjectReady(j) => Seeding!ProjectReady(j)'
  <2> SUFFICES ASSUME Seeding!ProjectReady(k) PROVE Seeding!ProjectReady(k)'
    BY <1>7 DEF Seeding!ProjectReady
  <2>1. row = [archived |-> FALSE, edited |-> FALSE]
    BY <1>4, <1>8, FreshRow DEF Seeding!ProjectReady
  <2> QED
    BY <1>7, <2>1 DEF Seeding!ProjectReady
<1>10. CASE project[k].edited
  <2>1. seedPc'[r] = "update" /\ at' = at
    BY <1>5, <1>10 DEF Seeding!Goto, SeedType
  <2>2. ProjectKnown(r)'
    BY <1>3, <1>7, <1>8, <2>1 DEF ProjectKnown, Seeding!Key
  <2>3. seedPc'[r] \in ProjectStages /\ organization' = "demo" /\ AllPersonas'
    BY <1>1, <1>2, <1>5, <2>1, LoneAtProject, PersonasStay DEF ProjectStages
  <2>4. \A i \in DOMAIN DemoProjects : i < at'[r] => Seeding!ProjectReady(DemoProjects[i])'
    BY <1>2, <1>9, <2>1, LoneAtProject
  <2> QED
    BY <1>2, <2>2, <2>3, <2>4, AtProject DEF Repeats
<1>11. CASE ~project[k].edited
  <2>1. Seeding!ProjectReady(k)'
    BY <1>7, <1>8, <1>11, FreshRow DEF Seeding!ProjectReady
  <2>2. \A j \in Keys : j = Seeding!Key(r) \/ Seeding!ProjectReady(j) => Seeding!ProjectReady(j)'
    BY <1>3, <1>9, <2>1
  <2> QED
    BY <1>1, <1>2, <1>5, <1>11, <2>2, LoneProjectDone DEF Repeats
<1> QED
  BY <1>10, <1>11

LEMMA LoneUpdateProject ==
  ASSUME SeedType, Places, RowsThere, NEW r \in Runs, LoneProgress(r), LoneRepeat(r),
         Seeding!UpdateProject(r)
  PROVE  LoneProgress(r)' /\ Repeats(r)
<1>1. seedPc[r] = "update" /\ UNCHANGED settings
  BY DEF Seeding!UpdateProject, Seeding!Acts
<1>2. seedPc[r] \in ProjectStages /\ ~repeat[r]
  BY <1>1 DEF ProjectStages, LoneRepeat, QuietStages
<1>3. PICK k \in Keys : k = Seeding!Key(r)
  BY <1>2, LoneAtProject
<1>4. /\ project[k] \in ProjectRows /\ ~project[k].archived
      /\ project \in [Keys -> ProjectRows \union {None}]
  BY <1>1, <1>2, <1>3, LoneAtProject DEF RowsThere, ProjectKnown, SeedType, DataType
<1>5. /\ project' = [project EXCEPT ![k] = [project[k] EXCEPT !.edited = FALSE]]
      /\ Seeding!NextProject(r) /\ UNCHANGED <<organization, Seeding!people, bugs, found>>
  BY <1>3, <1>4 DEF Seeding!UpdateProject
<1>6. [project[k] EXCEPT !.edited = FALSE] = [archived |-> FALSE, edited |-> FALSE]
  <2>1. PICK row : row = [project[k] EXCEPT !.edited = FALSE]
    OBVIOUS
  <2>2. row \in ProjectRows /\ ~row.archived /\ ~row.edited
    BY <1>4, <2>1 DEF ProjectRows
  <2> QED
    BY <2>1, <2>2, FreshRow
<1>7. \A j \in Keys : j = Seeding!Key(r) \/ Seeding!ProjectReady(j) => Seeding!ProjectReady(j)'
  BY <1>3, <1>4, <1>5, <1>6 DEF Seeding!ProjectReady
<1> QED
  BY <1>1, <1>2, <1>5, <1>7, LoneProjectDone DEF Repeats

LEMMA LoneAtBug ==
  ASSUME SeedType, Places, NEW r \in Runs, LoneProgress(r), seedPc[r] \in BugStages
  PROVE  /\ organization = "demo" /\ AllPersonas /\ AllProjects /\ BugKnown(r)
         /\ Seeding!Title(r) \in Titles /\ Seeding!Title(r) = DemoBugs[at[r]]
         /\ at[r] \in Nat \ {0} /\ at[r] \in DOMAIN DemoBugs /\ DOMAIN DemoBugs \subseteq Nat
         /\ \A i \in DOMAIN DemoBugs : i < at[r] => Seeding!HasTitle(DemoBugs[i])
         /\ Seeding!ProjectOpen(Seeding!Title(r))
<1>1. organization = "demo"
  BY DEF LoneProgress, BugStages
<1>2. AllPersonas /\ AllProjects /\ BugKnown(r)
      /\ \A i \in DOMAIN DemoBugs : i < at[r] => Seeding!HasTitle(DemoBugs[i])
  BY DEF LoneProgress, BugsBefore
<1>3. DOMAIN DemoBugs \subseteq Nat
  BY ListTypes
<1>4. Seeding!Title(r) \in Titles
  BY PlaceTypes
<1>5. Seeding!ProjectOpen(Seeding!Title(r))
  <2>1. PICK k \in Keys : k = DemoProjectOf[Seeding!Title(r)]
    BY <1>4, PlatformAssumption DEF Seeding!SeedAssumption, Titles, Keys
  <2>2. project[k] = [archived |-> FALSE, edited |-> FALSE]
    BY <1>2 DEF AllProjects, Seeding!ProjectReady
  <2>3. ~project[k].archived
    BY <2>2
  <2> QED
    BY <2>1, <2>3 DEF Seeding!ProjectOpen
<1> QED
  BY <1>1, <1>2, <1>3, <1>4, <1>5, PlaceTypes DEF Seeding!Title

\* The bug of a title is there, and the bugs before it.
LEMMA LoneBugDone ==
  ASSUME SeedType, Places, NEW r \in Runs, LoneProgress(r), seedPc[r] \in BugStages,
         Seeding!NextBug(r),
         UNCHANGED <<settings, organization, Seeding!people, project>>,
         \A t \in Titles : t = Seeding!Title(r) \/ Seeding!HasTitle(t) => Seeding!HasTitle(t)'
  PROVE  LoneProgress(r)' /\ seedPc'[r] \in {"bug", "report"}
<1>1. \A i \in DOMAIN DemoBugs : i <= at[r] => Seeding!HasTitle(DemoBugs[i])'
  <2> TAKE i \in DOMAIN DemoBugs
  <2>1. i \in Nat /\ at[r] \in Nat /\ DemoBugs[i] \in Titles
    BY LoneAtBug, ListTypes
  <2>2. CASE i < at[r]
    BY <2>1, <2>2, LoneAtBug
  <2>3. CASE i = at[r]
    BY <2>1, <2>3, LoneAtBug
  <2> QED
    BY <2>1, <2>2, <2>3
<1>2. organization' = "demo" /\ AllPersonas' /\ AllProjects'
  BY LoneAtBug, PersonasStay, ProjectsStay
<1> QED
  BY <1>1, <1>2, BugDone

LEMMA LoneFindBug ==
  ASSUME SeedType, Places, NEW r \in Runs, LoneProgress(r), LoneRepeat(r), Seeding!FindBug(r)
  PROVE  LoneProgress(r)' /\ Repeats(r)
<1>1. seedPc[r] = "bug" /\ UNCHANGED <<settings, Seeding!tables>>
  BY DEF Seeding!FindBug, Seeding!Acts
<1>2. seedPc[r] \in BugStages
  BY <1>1 DEF BugStages
<1>3. UNCHANGED <<organization, Seeding!people, project>>
  BY <1>1 DEF Seeding!tables
<1>4. CASE Seeding!HasTitle(Seeding!Title(r))
  <2>1. Seeding!NextBug(r)
    BY <1>4 DEF Seeding!FindBug, Seeding!IsThere
  <2>2. \A t \in Titles : t = Seeding!Title(r) \/ Seeding!HasTitle(t) => Seeding!HasTitle(t)'
    BY <1>1, <1>4, UnchangedIsReady
  <2>3. LoneProgress(r)' /\ seedPc'[r] \in {"bug", "report"}
    BY <1>1, <1>2, <1>3, <2>1, <2>2, LoneBugDone
  <2> QED
    BY <1>1, <2>3 DEF Repeats, QuietStages
<1>5. CASE ~Seeding!HasTitle(Seeding!Title(r))
  <2>1. seedPc'[r] = "create bug" /\ at' = at
    BY <1>5 DEF Seeding!FindBug, Seeding!IsThere, Seeding!Goto, SeedType
  <2>2. BugKnown(r)' /\ seedPc'[r] \in BugStages
    BY <2>1 DEF BugKnown, BugStages
  <2>3. organization' = "demo" /\ AllPersonas' /\ AllProjects'
    BY <1>1, <1>2, <1>3, LoneAtBug, UnchangedIsReady
  <2>4. \A i \in DOMAIN DemoBugs : i < at'[r] => Seeding!HasTitle(DemoBugs[i])'
    BY <1>1, <1>2, <2>1, LoneAtBug, UnchangedIsReady
  <2>5. ~repeat[r]
    BY <1>1, <1>2, <1>5, LoneAtBug, ReadyParts DEF LoneRepeat, AllBugs
  <2> QED
    BY <2>2, <2>3, <2>4, <2>5, AtBug DEF Repeats
<1> QED
  BY <1>4, <1>5

LEMMA LoneCreateBug ==
  ASSUME SeedType, Places, NEW r \in Runs, LoneProgress(r), LoneRepeat(r), Seeding!CreateBug(r)
  PROVE  LoneProgress(r)' /\ Repeats(r)
<1>1. seedPc[r] = "create bug" /\ UNCHANGED settings
  BY DEF Seeding!CreateBug, Seeding!Acts
<1>2. seedPc[r] \in BugStages /\ ~repeat[r]
  BY <1>1 DEF BugStages, LoneRepeat, QuietStages
<1>3. PICK row :
        row = [title |-> Seeding!Title(r), steps |-> 0, handled |-> FALSE, archived |-> FALSE]
  OBVIOUS
<1>4. /\ bugs' = Append(bugs, row) /\ found' = [found EXCEPT ![r] = Len(bugs) + 1]
      /\ Seeding!Goto(r, "walk") /\ UNCHANGED <<organization, Seeding!people, project>>
  BY <1>2, <1>3, LoneAtBug DEF Seeding!CreateBug
<1>5. bugs \in Seq(BugRows) /\ found \in [Runs -> Findings]
  BY DEF SeedType, DataType
<1>6. row \in BugRows /\ row.title = Seeding!Title(r) /\ ~row.handled
  BY <1>2, <1>3, LoneAtBug DEF BugRows
<1>7. /\ bugs'[Len(bugs) + 1] = row /\ \A i \in DOMAIN bugs : bugs'[i] = bugs[i]
      /\ DOMAIN bugs \subseteq DOMAIN bugs'
  BY <1>4, <1>5, <1>6
<1>8. seedPc'[r] = "walk" /\ at' = at /\ found'[r] = Len(bugs) + 1
  BY <1>4, <1>5 DEF Seeding!Goto, SeedType
<1>9. \A t : Seeding!HasTitle(t) => Seeding!HasTitle(t)'
  BY <1>7 DEF Seeding!HasTitle
<1>10. \A i \in DOMAIN DemoBugs : i < at'[r] => Seeding!HasTitle(DemoBugs[i])'
  BY <1>2, <1>8, <1>9, LoneAtBug
<1>11. BugKnown(r)'
  BY <1>6, <1>7, <1>8 DEF BugKnown, Seeding!Title
<1>12. seedPc'[r] \in BugStages
  BY <1>8 DEF BugStages
<1>13. organization' = "demo" /\ AllPersonas' /\ AllProjects'
  BY <1>1, <1>2, <1>4, LoneAtBug, PersonasStay, ProjectsStay
<1> QED
  BY <1>2, <1>10, <1>11, <1>12, <1>13, AtBug DEF Repeats

LEMMA LoneWalkBug ==
  ASSUME SeedType, Places, RowsThere, NEW r \in Runs, LoneProgress(r), LoneRepeat(r),
         Seeding!WalkBug(r)
  PROVE  LoneProgress(r)' /\ Repeats(r)
<1>1. seedPc[r] = "walk" /\ UNCHANGED settings
  BY DEF Seeding!WalkBug, Seeding!Acts
<1>2. seedPc[r] \in BugStages /\ ~repeat[r]
  BY <1>1 DEF BugStages, LoneRepeat, QuietStages
<1>3. /\ bugs \in Seq(BugRows) /\ found[r] \in DOMAIN bugs
      /\ bugs[found[r]].title = Seeding!Title(r) /\ ~bugs[found[r]].handled
  BY <1>1, <1>2, LoneAtBug DEF RowsThere, BugKnown, SeedType, DataType
<1>4. CASE Seeding!Raise(r)
  <2>1. Seeding!TargetArchived(Seeding!Title(r)) \/ ~Seeding!Raise(r) \/ UNCHANGED <<seedPc, at>>
          \/ Seeding!NextBug(r)
    BY <1>2, <1>3, LoneAtBug DEF Seeding!WalkBug
  <2>2. seedPc'[r] = "failed" /\ UNCHANGED Seeding!tables
    BY <1>4 DEF Seeding!Raise, Seeding!Goto, SeedType
  <2>3. seedPc'[r] # seedPc[r] /\ ~Seeding!NextBug(r)
    BY <1>1, <2>2, NextsGo
  <2>5. \E t \in Titles : Seeding!TargetArchived(t)'
    <3>1. PICK t : t = Seeding!Title(r) /\ Seeding!TargetArchived(t)
      BY <1>4, <2>1, <2>3
    <3> QED
      BY <1>2, <2>2, <3>1, LoneAtBug DEF Seeding!TargetArchived, Seeding!tables
  <2> QED
    BY <1>2, <2>2, <2>5, AtFailure DEF Repeats
<1>5. CASE ~Seeding!Raise(r)
  <2>1. PICK row : row = [bugs[found[r]] EXCEPT !.steps = bugs[found[r]].steps + 1]
    OBVIOUS
  <2>2. /\ bugs' = [bugs EXCEPT ![found[r]] = row]
        /\ Seeding!NextBug(r) \/ UNCHANGED <<seedPc, at>>
        /\ UNCHANGED <<organization, Seeding!people, project, found>>
    BY <1>5, <2>1 DEF Seeding!WalkBug
  <2>3. bugs[found[r]] \in BugRows
    BY <1>3
  <2>4. row \in BugRows /\ row.title = Seeding!Title(r) /\ ~row.handled
    BY <1>3, <2>1, <2>3 DEF BugRows
  <2>5. /\ DOMAIN bugs' = DOMAIN bugs /\ bugs'[found[r]] = row
        /\ \A j \in DOMAIN bugs : j # found[r] => bugs'[j] = bugs[j]
    <3>1. row \in BugRows /\ found[r] \in DOMAIN bugs /\ bugs' = [bugs EXCEPT ![found[r]] = row]
      BY <1>3, <2>2, <2>4
    <3>2. PICK i : i = found[r]
      OBVIOUS
    <3> QED
      BY <3>1, <3>2, BugWrite
  <2>6. \A t : t = Seeding!Title(r) \/ Seeding!HasTitle(t) => Seeding!HasTitle(t)'
    BY <1>3, <2>4, <2>5 DEF Seeding!HasTitle
  <2>7. CASE Seeding!NextBug(r)
    BY <1>1, <1>2, <2>2, <2>6, <2>7, LoneBugDone DEF Repeats
  <2>8. CASE UNCHANGED <<seedPc, at>>
    <3>1. BugKnown(r)'
      BY <2>2, <2>4, <2>5, <2>8 DEF BugKnown, Seeding!Title
    <3>2. \A i \in DOMAIN DemoBugs : i < at'[r] => Seeding!HasTitle(DemoBugs[i])'
      BY <1>2, <2>6, <2>8, LoneAtBug
    <3>3. organization' = "demo" /\ AllPersonas' /\ AllProjects'
      BY <1>1, <1>2, <2>2, LoneAtBug, PersonasStay, ProjectsStay
    <3> QED
      BY <1>2, <2>8, <3>1, <3>2, <3>3, AtBug DEF Repeats
  <2> QED
    BY <2>2, <2>7, <2>8
<1> QED
  BY <1>4, <1>5

LEMMA LoneReport ==
  ASSUME SeedType, NEW r \in Runs, Seeding!Report(r)
  PROVE  LoneProgress(r)' /\ Repeats(r)
<1>1. seedPc'[r] = "idle" /\ UNCHANGED Seeding!tables
  BY DEF Seeding!Report, Seeding!Goto, SeedType
<1> QED
  BY <1>1, AtEnd DEF Repeats

LEMMA LoneRun ==
  ASSUME SeedType, Places, RowsThere, NEW r \in Runs, LoneProgress(r), LoneRepeat(r), Seeding!Run(r)
  PROVE  LoneProgress(r)' /\ Repeats(r)
  BY LoneOrganization, LoneFindMember, LoneSyncMember, LoneChangeRole, LoneInvitations,
     LoneAccept, LoneFindProject, LoneCreateProject, LoneRestoreProject, LoneUpdateProject,
     LoneFindBug, LoneCreateBug, LoneWalkBug, LoneReport
     DEF Seeding!Run

-----------------------------------------------------------------------------
(* Each action keeps the invariant.                                        *)

LEMMA StayIsReady ==
  ASSUME NEW r \in Runs, Repeats(r), LoneRepeat(r), UNCHANGED <<settings, repeat>>,
         seedPc[r] # "idle"
  PROVE  LoneRepeat(r)'
<1>1. CASE ~repeat[r]
  BY <1>1 DEF LoneRepeat
<1>2. CASE repeat[r]
  <2>1. Seeding!Ready /\ UNCHANGED Seeding!tables /\ seedPc'[r] \in QuietStages \union {"idle"}
    BY <1>2 DEF LoneRepeat, Repeats
  <2>2. organization' = organization
    BY <2>1 DEF Seeding!tables
  <2>3. (organization = "demo" /\ AllPersonas /\ AllProjects /\ AllBugs)'
    BY <2>1, <2>2, ReadyParts, UnchangedIsReady
  <2>4. Seeding!Ready'
    BY <2>3 DEF Seeding!Ready, AllPersonas, AllProjects, AllBugs, Addresses, Keys, Titles
  <2> QED
    BY <2>1, <2>4 DEF LoneRepeat, QuietStages
<1> QED
  BY <1>1, <1>2

LEMMA RunKeepsSeedInv ==
  ASSUME SeedInv, NEW r \in Runs, Seeding!Run(r)
  PROVE  SeedInv'
<1> USE DEF SeedInv
<1>1. Moves(r) /\ SeedType' /\ Places' /\ RowsThere'
  BY RunKeepsTypes
<1>2. Tokens'
  BY RunKeepsTokens
<1>3. /\ seedPc[r] # "idle" /\ UNCHANGED <<settings, repeat>>
      /\ \A q \in Runs : alone'[q] => q = r /\ alone[q]
  BY RunActs DEF Seeding!Disturbs, SeedType
<1>4. OthersAreIdle'
  BY <1>1, <1>3 DEF OthersAreIdle, Seeding!Others, Moves
<1>5. LoneRunsGoOn'
  <2> SUFFICES ASSUME NEW q \in Runs, alone'[q]
               PROVE  LoneProgress(q)' /\ LoneRepeat(q)'
    BY DEF LoneRunsGoOn
  <2>1. q = r /\ LoneProgress(r) /\ LoneRepeat(r)
    BY <1>3 DEF LoneRunsGoOn
  <2>2. LoneProgress(r)' /\ Repeats(r)
    BY <2>1, LoneRun
  <2>3. LoneRepeat(r)'
    BY <1>3, <2>1, <2>2, StayIsReady
  <2> QED
    BY <2>1, <2>2, <2>3
<1> QED
  BY <1>1, <1>2, <1>4, <1>5

LEMMA StartKeepsSeedInv ==
  ASSUME SeedInv, NEW r \in Runs, Seeding!Start(r)
  PROVE  SeedInv'
<1> USE DEF SeedInv
<1>1. SeedType' /\ Places' /\ RowsThere'
  BY StartKeepsTypes
<1>2. /\ seedPc[r] = "idle" /\ seedPc'[r] = "organization"
      /\ \A q \in Runs \ {r} : seedPc'[q] = seedPc[q] /\ at'[q] = at[q]
      /\ UNCHANGED <<settings, organization, account, role, invitation, project, bugs>>
      /\ repeat' = [repeat EXCEPT ![r] = Seeding!Ready]
  BY DEF Seeding!Start, SeedType, Seeding!tables, Seeding!people
<1>3. \A q \in Runs : alone'[q] => q = r /\ \A o \in Seeding!Others(r) : seedPc[o] = "idle"
  BY DEF Seeding!Start
<1>4. Tokens'
  BY <1>2 DEF Tokens, Seeding!Persona
<1>5. OthersAreIdle'
  BY <1>2, <1>3 DEF OthersAreIdle, Seeding!Others
<1>6. LoneRunsGoOn'
  <2> SUFFICES ASSUME NEW q \in Runs, alone'[q]
               PROVE  LoneProgress(q)' /\ LoneRepeat(q)'
    BY DEF LoneRunsGoOn
  <2>1. q = r
    BY <1>3
  <2>2. LoneProgress(r)'
    BY <1>2 DEF LoneProgress, MemberStages, ProjectStages, BugStages
  <2>3. ASSUME repeat'[r] PROVE Seeding!Ready'
    <3>1. Seeding!Ready
      BY <1>2, <2>3 DEF SeedType
    <3>2. UNCHANGED <<settings, Seeding!tables>>
      BY <1>2 DEF Seeding!tables, Seeding!people
    <3>3. (organization = "demo" /\ AllPersonas /\ AllProjects /\ AllBugs)'
      BY <1>2, <3>1, <3>2, ReadyParts, UnchangedIsReady
    <3> QED
      BY <3>3 DEF Seeding!Ready, AllPersonas, AllProjects, AllBugs, Addresses, Keys, Titles
  <2>4. LoneRepeat(r)'
    BY <1>2, <2>3 DEF LoneRepeat, QuietStages
  <2> QED
    BY <2>1, <2>2, <2>4
<1> QED
  BY <1>1, <1>4, <1>5, <1>6

LEMMA LeavesKeepsSeedInv ==
  ASSUME SeedInv, NEW r \in Runs, seedPc[r] # "idle", Seeding!Leaves(r)
  PROVE  SeedInv'
<1> USE DEF SeedInv
<1>1. SeedType' /\ Places' /\ RowsThere'
  BY LeavesKeepsTypes
<1>2. /\ seedPc'[r] = "idle" /\ \A q \in Runs \ {r} : seedPc'[q] = seedPc[q] /\ at'[q] = at[q]
      /\ alone' = alone
  BY DEF Seeding!Leaves, SeedType
<1>3. \A p \in Addresses : \A q \in Runs : invitation'[p] = q => q # r /\ invitation[p] = q
  BY ListTypes DEF Seeding!Leaves, SeedType, DataType
<1>4. Tokens'
  BY <1>2, <1>3 DEF Tokens, Seeding!Persona
<1>5. OthersAreIdle'
  BY <1>2 DEF OthersAreIdle, Seeding!Others
<1>6. LoneRunsGoOn'
  <2> SUFFICES ASSUME NEW q \in Runs, alone'[q]
               PROVE  LoneProgress(q)' /\ LoneRepeat(q)'
    BY DEF LoneRunsGoOn
  <2>1. q = r
    BY <1>2 DEF OthersAreIdle, Seeding!Others
  <2>2. LoneRepeat(r)'
    BY <1>2 DEF LoneRepeat
  <2> QED
    BY <1>2, <2>1, <2>2, AtEnd
<1> QED
  BY <1>1, <1>4, <1>5, <1>6

LEMMA EnvironmentKeepsSeedInv ==
  ASSUME SeedInv, Seeding!Environment
  PROVE  SeedInv'
<1> USE DEF SeedInv
<1>1. SeedType' /\ Places' /\ RowsThere'
  BY EnvironmentKeepsTypes
<1>2. UNCHANGED invitation /\ Seeding!Interferes
  BY EnvironmentWrites
<1>3. Tokens'
  BY <1>2 DEF Tokens, Seeding!Persona, Seeding!Interferes
<1>4. OthersAreIdle' /\ LoneRunsGoOn'
  BY <1>2 DEF OthersAreIdle, LoneRunsGoOn, Seeding!Interferes
<1> QED
  BY <1>1, <1>3, <1>4

LEMMA StutterKeepsSeedInv ==
  ASSUME SeedInv, UNCHANGED Seeding!vars
  PROVE  SeedInv'
<1>1. UNCHANGED <<settings, Seeding!tables, seedPc, at, found, alone, repeat>>
      /\ UNCHANGED <<organization, account, role, invitation, project, bugs>>
  BY DEF Seeding!vars, Seeding!tables, Seeding!people, Seeding!history
<1>2. SeedType' /\ Places' /\ RowsThere' /\ Tokens' /\ OthersAreIdle'
  BY <1>1 DEF SeedInv, SeedType, DataType, Places, RowsThere, Tokens, OthersAreIdle, Seeding!Key,
              Seeding!Persona
<1>3. LoneRunsGoOn'
  <2> SUFFICES ASSUME NEW r \in Runs, alone'[r]
               PROVE  LoneProgress(r)' /\ LoneRepeat(r)'
    BY DEF LoneRunsGoOn
  <2>1. LoneProgress(r) /\ LoneRepeat(r)
    BY <1>1 DEF SeedInv, LoneRunsGoOn
  <2>2. LoneRepeat(r)'
    <3>1. CASE seedPc[r] = "idle"
      BY <1>1, <3>1 DEF LoneRepeat
    <3>2. CASE seedPc[r] # "idle"
      <4>1. Repeats(r)
        BY <1>1, <2>1, <3>2 DEF Repeats, LoneRepeat
      <4> QED
        BY <1>1, <2>1, <3>2, <4>1, StayIsReady
    <3> QED
      BY <3>1, <3>2
  <2>3. LoneProgress(r)'
    <3>1. \A p : Seeding!PersonaReady(p) => Seeding!PersonaReady(p)'
      BY <1>1, UnchangedIsReady
    <3>2. \A k : Seeding!ProjectReady(k) => Seeding!ProjectReady(k)'
      BY <1>1, UnchangedIsReady
    <3>3. \A t : Seeding!HasTitle(t) => Seeding!HasTitle(t)'
      BY <1>1, UnchangedIsReady
    <3>4. MemberKnown(r) => MemberKnown(r)'
      BY <1>1 DEF MemberKnown, Seeding!Persona, Seeding!RoleOf, Seeding!PasswordOf
    <3>5. ProjectKnown(r) => ProjectKnown(r)'
      BY <1>1 DEF ProjectKnown, Seeding!Key
    <3>6. BugKnown(r) => BugKnown(r)'
      BY <1>1 DEF BugKnown, Seeding!Title
    <3>7. \A t : Seeding!TargetArchived(t) => Seeding!TargetArchived(t)'
      BY <1>1 DEF Seeding!TargetArchived
    <3>8. AllPersonas => AllPersonas'
      BY <3>1 DEF AllPersonas
    <3>9. AllProjects => AllProjects'
      BY <3>2 DEF AllProjects
    <3>10. AllBugs => AllBugs'
      BY <3>3 DEF AllBugs
    <3>11. seedPc[r] \in MemberStages => LoneProgress(r)'
      BY <1>1, <2>1, <3>1, <3>4, AtMember, LoneAtMember DEF SeedInv
    <3>12. seedPc[r] \in ProjectStages => LoneProgress(r)'
      BY <1>1, <2>1, <3>2, <3>5, <3>8, AtProject, LoneAtProject DEF SeedInv
    <3>13. seedPc[r] \in BugStages => LoneProgress(r)'
      BY <1>1, <2>1, <3>3, <3>6, <3>8, <3>9, AtBug, LoneAtBug DEF SeedInv
    <3>14. seedPc[r] = "report" => LoneProgress(r)'
      BY <1>1, <2>1, <3>8, <3>9, <3>10, AtReport DEF LoneProgress
    <3>15. seedPc[r] = "failed" => LoneProgress(r)'
      BY <1>1, <2>1, <3>7, AtFailure DEF LoneProgress
    <3>16. seedPc[r] \in {"idle", "organization", "setup"} => LoneProgress(r)'
      BY <1>1, <2>1 DEF LoneProgress, MemberStages, ProjectStages, BugStages
    <3> QED
      BY <3>11, <3>12, <3>13, <3>14, <3>15, <3>16 DEF SeedInv, SeedType, Stages
  <2> QED
    BY <2>2, <2>3
<1> QED
  BY <1>2, <1>3 DEF SeedInv

LEMMA SeedSteps ==
  SeedInv /\ [Seeding!Next]_(Seeding!vars) => SeedInv'
  BY RunKeepsSeedInv, StartKeepsSeedInv, LeavesKeepsSeedInv, EnvironmentKeepsSeedInv,
     StutterKeepsSeedInv
     DEF Seeding!Next, Seeding!Crash, Seeding!ReadError

LEMMA SeedInvDelivers ==
  SeedInv => Seeding!LoneRunDelivers
<1> SUFFICES ASSUME SeedInv, NEW r \in Runs, alone[r]
             PROVE  /\ seedPc[r] = "failed" =>
                         organization = "other"
                           \/ \E t \in Seeding!Elements(DemoBugs) : Seeding!TargetArchived(t)
                    /\ seedPc[r] = "report" => Seeding!Ready
  BY DEF Seeding!LoneRunDelivers
<1>1. LoneProgress(r)
  BY DEF SeedInv, LoneRunsGoOn
<1>2. seedPc[r] = "failed" => organization = "other"
        \/ \E t \in Seeding!Elements(DemoBugs) : Seeding!TargetArchived(t)
  BY <1>1 DEF LoneProgress, Titles
<1>3. seedPc[r] = "report" => Seeding!Ready
  BY <1>1, ReadyParts DEF LoneProgress
<1> QED
  BY <1>2, <1>3

\* A run that dies takes no token with it, for a repeated one holds none.
LEMMA SeedInvRepeats ==
  SeedInv /\ [Seeding!Next]_(Seeding!vars) =>
    [\A r \in Runs : seedPc[r] # "idle" /\ alone'[r] /\ repeat[r]
      => UNCHANGED Seeding!tables]_(Seeding!vars)
<1> SUFFICES ASSUME SeedInv, Seeding!Next, NEW r \in Runs, seedPc[r] # "idle", alone'[r], repeat[r]
             PROVE  UNCHANGED Seeding!tables
  OBVIOUS
<1>0. SeedType
  BY DEF SeedInv
<1>1. CASE \E q \in Runs : Seeding!Start(q)
  <2>1. PICK q \in Runs : Seeding!Start(q)
    BY <1>1
  <2> QED
    BY <2>1 DEF Seeding!Start
<1>2. CASE \E q \in Runs : Seeding!Run(q)
  <2>1. PICK q \in Runs : Seeding!Run(q)
    BY <1>2
  <2>2. q = r /\ alone[r]
    BY <2>1, RunActs DEF Seeding!Disturbs
  <2>3. LoneProgress(r) /\ LoneRepeat(r)
    BY <2>2 DEF SeedInv, LoneRunsGoOn
  <2>4. Repeats(r)
    BY <2>1, <2>2, <2>3, LoneRun DEF SeedInv
  <2> QED
    BY <2>4 DEF Repeats
<1>3. CASE \E q \in Runs : seedPc[q] # "idle" /\ Seeding!Leaves(q)
  <2>1. PICK q \in Runs : seedPc[q] # "idle" /\ Seeding!Leaves(q)
    BY <1>3
  <2>2. alone[r]
    BY <2>1 DEF Seeding!Leaves
  <2>3. q = r
    BY <2>1, <2>2 DEF SeedInv, OthersAreIdle, Seeding!Others
  <2>4. seedPc[r] \in QuietStages
    BY <2>2 DEF SeedInv, LoneRunsGoOn, LoneRepeat
  <2>5. \A p \in Addresses : invitation[p] # r
    BY <2>4 DEF SeedInv, Tokens, QuietStages
  <2>6. invitation' = invitation
    BY <1>0, <2>1, <2>3, <2>5 DEF Seeding!Leaves, SeedType, DataType
  <2> QED
    BY <2>1, <2>6 DEF Seeding!Leaves, Seeding!tables, Seeding!people
<1>4. CASE Seeding!Environment
  BY <1>4, EnvironmentWrites DEF SeedInv, Seeding!Interferes
<1> QED
  BY <1>1, <1>2, <1>3, <1>4 DEF Seeding!Next, Seeding!Crash, Seeding!ReadError
-----------------------------------------------------------------------------
(* In the platform.                                                        *)

LEMMA SeedingMoves == Spec => Seeding!Spec
<1>1. Init => Seeding!Init
  BY DEF Init
<1>2. [Next]_vars => [Seeding!Next]_(Seeding!vars)
  BY DEF Next, vars, seedVars, Seeding!vars, Seeding!tables, Seeding!people, Seeding!history,
         Seed, Serve, Attempt, Look, Upload, Edit, Work
<1> QED
  BY <1>1, <1>2, PTL DEF Spec, Seeding!Spec

\* What runs of seed_demo, alone or not, keep, whatever dies and whoever
\* interferes.
THEOREM SeedingIsSound == Spec => []SeedInv
  BY SeedInit, SeedSteps, SeedingMoves, PTL DEF Seeding!Spec

\* seed_demo ("Leftover from an earlier interrupted run"): a run that nobody
\* disturbs repairs whatever it finds, and what it reports is there: every
\* persona, every project and a bug for every title.  It stops only if the
\* instance belongs to another organization or the target of a duplicate is
\* archived.
THEOREM LoneRunsDeliver == Spec => []LoneRunDelivers
<1>1. SeedInv => LoneRunDelivers
  BY SeedInvDelivers DEF LoneRunDelivers
<1> QED
  BY <1>1, SeedingIsSound, PTL

\* seed_demo: "Idempotent": on content that is there a run that nobody
\* disturbs changes no row, even if it dies.
THEOREM RepeatsChangeNothing == Spec => RepeatChangesNothing
<1>1. Seeding!Spec => Seeding!RepeatChangesNothing
  BY SeedInit, SeedSteps, SeedInvRepeats, PTL DEF Seeding!Spec, Seeding!RepeatChangesNothing
<1> QED
  BY <1>1, SeedingMoves, PTL DEF RepeatChangesNothing

=============================================================================
